---- MODULE Spec2Model ----
(***************************************************************************)
(* A model of visible_waves (src/__main__.py): MonoWave, its two           *)
(* generators SimpleHarmonicWave and SquareWave, and the entry point.      *)
(*                                                                         *)
(* Numbers are modelled as the interpreter and numpy hold them: Python     *)
(* ints are exact, Python floats and float64 elements are IEEE-754         *)
(* binary64 values (sign, odd integer mantissa, binary exponent) with      *)
(* round-to-nearest-even after every operation, and integer array          *)
(* elements are two's-complement bytes in the byte order of their dtype.   *)
(* Magnitudes are little-endian base-256 digit sequences, since samples    *)
(* of 4 and 8 bytes exceed the model checker's integers.                   *)
(***************************************************************************)
EXTENDS Integers, Sequences, FiniteSets, TLC

(***************************************************************************)
(* Bounds of the model.                                                    *)
(***************************************************************************)
\* Integer durations (seconds) range over 0..MaxDuration, float durations
\* over the binary fractions up to MaxDuration.
MaxDuration == 1
\* Method calls (show, save) made on one constructed object.
MaxCalls == 2

(***************************************************************************)
(* Natural numbers as little-endian base-256 digit sequences.              *)
(***************************************************************************)
Max(a, b) == IF a >= b THEN a ELSE b
Min(a, b) == IF a <= b THEN a ELSE b

At(a, i) == IF i >= 1 /\ i <= Len(a) THEN a[i] ELSE 0

RECURSIVE BigNorm(_)
BigNorm(a) ==
    IF a = <<>> THEN <<>>
    ELSE IF a[Len(a)] = 0 THEN BigNorm(SubSeq(a, 1, Len(a) - 1))
    ELSE a

RECURSIVE BigFromNat(_)
BigFromNat(n) == IF n = 0 THEN <<>> ELSE <<n % 256>> \o BigFromNat(n \div 256)

RECURSIVE BigToNat(_)
BigToNat(a) == IF a = <<>> THEN 0 ELSE a[1] + 256 * BigToNat(Tail(a))

\* Bit i (0 = least significant) of a.
BigBit(a, i) == (At(a, (i \div 8) + 1) \div (2 ^ (i % 8))) % 2

ByteBitLen(x) == CHOOSE k \in 0..8 : x < 2 ^ k /\ (k = 0 \/ x >= 2 ^ (k - 1))

BigBitLen(a) ==
    LET n == BigNorm(a)
    IN  IF n = <<>> THEN 0 ELSE 8 * (Len(n) - 1) + ByteBitLen(n[Len(n)])

\* Column sums to digits: propagate carries from position i on.
RECURSIVE BigCarry(_, _, _)
BigCarry(cols, i, c) ==
    IF i > Len(cols)
    THEN IF c = 0 THEN <<>> ELSE <<c % 256>> \o BigCarry(cols, i, c \div 256)
    ELSE LET s == cols[i] + c
         IN  <<s % 256>> \o BigCarry(cols, i + 1, s \div 256)

BigAdd(a, b) ==
    BigNorm(BigCarry([i \in 1..Max(Len(a), Len(b)) |-> At(a, i) + At(b, i)], 1, 0))

RECURSIVE BigColumn(_, _, _, _)
BigColumn(a, b, k, i) ==
    IF i > Len(a) THEN 0
    ELSE a[i] * At(b, k - i + 1) + BigColumn(a, b, k, i + 1)

BigMul(a, b) ==
    IF a = <<>> \/ b = <<>> THEN <<>>
    ELSE BigNorm(BigCarry([k \in 1..(Len(a) + Len(b) - 1) |-> BigColumn(a, b, k, 1)], 1, 0))

\* floor(a / 2^k)
BigShr(a, k) ==
    LET q == k \div 8
        r == k % 8
        d == IF q >= Len(a) THEN <<>> ELSE SubSeq(a, q + 1, Len(a))
    IN  BigNorm([i \in 1..Len(d) |->
                   (d[i] \div (2 ^ r)) + (At(d, i + 1) % (2 ^ r)) * (2 ^ (8 - r))])

\* a * 2^k
BigShl(a, k) ==
    IF BigNorm(a) = <<>> THEN <<>>
    ELSE [i \in 1..(k \div 8) |-> 0]
         \o BigNorm(BigCarry([i \in 1..Len(a) |-> a[i] * (2 ^ (k % 8))], 1, 0))

\* Some bit below position k of a is set.
BigSticky(a, k) == \E j \in 0..(Min(k, 8 * Len(a)) - 1) : BigBit(a, j) = 1

\* Number of trailing zero bits of a nonzero a.
BigTrailingZeros(a) ==
    CHOOSE t \in 0..(8 * Len(a)) : BigBit(a, t) = 1 /\ ~BigSticky(a, t)

\* a < b, both normalised
BigLess(a, b) ==
    IF Len(a) # Len(b) THEN Len(a) < Len(b)
    ELSE \E i \in 1..Len(a) :
            /\ a[i] < b[i]
            /\ \A j \in (i + 1)..Len(a) : a[j] = b[j]

\* 2^k - 1 and 2^k
BigOnes(k) == BigShr([i \in 1..((k + 7) \div 8) |-> 255], 8 * ((k + 7) \div 8) - k)
BigPow2(k) == BigShl(<<1>>, k)

(***************************************************************************)
(* binary64 values: (-1)^neg * m * 2^e with m odd (or zero), kept to 53    *)
(* significant bits by FRound53.  Exponents of the model stay far inside   *)
(* the format's range, so there are no subnormals, infinities or NaNs.     *)
(***************************************************************************)
FCanon(neg, m, e) ==
    LET n == BigNorm(m)
    IN  IF n = <<>> THEN [neg |-> neg, m |-> <<>>, e |-> 0]
        ELSE LET t == BigTrailingZeros(n)
             IN  [neg |-> neg, m |-> BigShr(n, t), e |-> e + t]

\* floor(m / 2^k) rounded to nearest, ties to even.
BigShrRNE(m, k) ==
    IF k <= 0 THEN BigShl(m, 0 - k)
    ELSE LET q   == BigShr(m, k)
             rb  == BigBit(m, k - 1)
             st  == BigSticky(m, k - 1)
             inc == rb = 1 /\ (st \/ BigBit(q, 0) = 1)
         IN  IF inc THEN BigAdd(q, <<1>>) ELSE q

FRound53(neg, m, e) ==
    LET L == BigBitLen(m)
    IN  IF L <= 53 THEN FCanon(neg, m, e)
        ELSE FCanon(neg, BigShrRNE(m, L - 53), e + (L - 53))

FZero == [neg |-> FALSE, m |-> <<>>, e |-> 0]

\* float(i) of a Python int of magnitude mag
FFromInt(neg, mag) == FRound53(neg, mag, 0)

\* the float literal num / 2^k
FFromDyadic(num, k) ==
    FRound53(num < 0, BigFromNat(IF num < 0 THEN 0 - num ELSE num), 0 - k)

\* the binary64 value with the big-endian IEEE-754 encoding b (8 bytes)
FFromIEEE(b) ==
    LET neg  == b[1] >= 128
        bexp == (b[1] % 128) * 16 + (b[2] \div 16)
        frac == <<b[8], b[7], b[6], b[5], b[4], b[3], b[2] % 16>>
    IN  IF bexp = 0 /\ BigNorm(frac) = <<>>
        THEN [neg |-> neg, m |-> <<>>, e |-> 0]
        ELSE FCanon(neg, <<b[8], b[7], b[6], b[5], b[4], b[3], (b[2] % 16) + 16>>,
                    bexp - 1075)

FMul(x, y) == FRound53(x.neg # y.neg, BigMul(x.m, y.m), x.e + y.e)

FNeg(x) == [x EXCEPT !.neg = ~x.neg]

\* np.round / rint: to the nearest integer, ties to even (sign kept)
FRint(x) ==
    IF x.e >= 0 THEN x
    ELSE FCanon(x.neg, BigShrRNE(x.m, 0 - x.e), 0)

\* magnitude of an integer-valued float
FIntMag(x) == BigShl(x.m, x.e)

\* ceil(x) as a magnitude, for x >= 0 (negative x gives 0 via the caller)
FCeilMag(x) ==
    IF x.e >= 0 THEN BigShl(x.m, x.e)
    ELSE BigAdd(BigShr(x.m, 0 - x.e), <<1>>)

(***************************************************************************)
(* Python values.  An int is exact; a float literal of the model is the    *)
(* binary fraction num / 2^k, which binary64 holds exactly.                *)
(***************************************************************************)
PyInt(v) == [t |-> "int", v |-> v]
PyFloat(num, k) == [t |-> "float", num |-> num, k |-> k]

Abs(v) == IF v < 0 THEN 0 - v ELSE v

\* float(x)
ToFloat(x) ==
    IF x.t = "int" THEN FFromInt(x.v < 0, BigFromNat(Abs(x.v)))
    ELSE FFromDyadic(x.num, x.k)

\* 0.0 <= x <= 1.0
InUnitInterval(x) ==
    IF x.t = "int" THEN 0 <= x.v /\ x.v <= 1
    ELSE 0 <= x.num /\ x.num <= 2 ^ x.k

RECURSIVE gcd(_, _)
gcd(a, b) == IF b = 0 THEN a ELSE gcd(b, a % b)

\* fractions.Fraction(n, d) for ints n >= 0, d > 0: lowest terms
Fraction(n, d) == [num |-> n \div gcd(n, d), den |-> d \div gcd(n, d)]

Reverse(s) == [i \in 1..Len(s) |-> s[Len(s) + 1 - i]]

\* The sequence s held element by element, each computed once; a sequence
\* given by a rule is otherwise computed anew wherever it is used.
Stored(s) == s \o <<>>

\* Long sequences (an array's elements, a file's bytes) are kept in the
\* state in pages of PageSize elements, which keeps the printing of a state
\* short; the operators of the program work on the whole sequence.
PageSize == 2 ^ 8

Paged(s) ==
    LET whole == Stored(s)
    IN  [j \in 1..((Len(whole) + PageSize - 1) \div PageSize) |->
            SubSeq(whole, (j - 1) * PageSize + 1, Min(j * PageSize, Len(whole)))]

Unpaged(pages) ==
    IF pages = <<>> THEN <<>>
    ELSE Stored([i \in 1..((Len(pages) - 1) * PageSize + Len(pages[Len(pages)])) |->
                    pages[((i - 1) \div PageSize) + 1][((i - 1) % PageSize) + 1]])

(***************************************************************************)
(* numpy dtypes and arrays.  dtype.byteorder is '=' (native), '|' (not     *)
(* applicable: one-byte items), or '<' / '>' when it is not the machine's. *)
(* An array holds its elements as they lie in memory: itemsize bytes each. *)
(***************************************************************************)
NativeChar(order) == IF order = "little" THEN "<" ELSE ">"

\* np.dtype(np.int8), np.dtype(np.int16), ...: the native scalar types
np_dtype(name) ==
    CASE name = "int8"    -> [kind |-> "i", itemsize |-> 1, byteorder |-> "|"]
      [] name = "int16"   -> [kind |-> "i", itemsize |-> 2, byteorder |-> "="]
      [] name = "int32"   -> [kind |-> "i", itemsize |-> 4, byteorder |-> "="]
      [] name = "int64"   -> [kind |-> "i", itemsize |-> 8, byteorder |-> "="]
      [] name = "uint8"   -> [kind |-> "u", itemsize |-> 1, byteorder |-> "|"]
      [] name = "float32" -> [kind |-> "f", itemsize |-> 4, byteorder |-> "="]

\* np.dtype('<i2'), np.dtype('>i4'), ...: an explicit byte order, which numpy
\* reports as '=' when it is the machine's
np_dtype_ordered(order, kind, itemsize, native) ==
    [kind |-> kind, itemsize |-> itemsize,
     byteorder |-> IF itemsize = 1 THEN "|"
                   ELSE IF order = NativeChar(native) THEN "=" ELSE order]

\* the order in which an element's bytes lie in memory
MemoryOrder(dtype, native) ==
    IF dtype.byteorder \in {"=", "|"} THEN NativeChar(native) ELSE dtype.byteorder

\* the integer an element holds, as little-endian two's-complement bytes
ElementValue(dtype, bytes, native) ==
    IF MemoryOrder(dtype, native) = "<" THEN bytes ELSE Reverse(bytes)

\* the integers an array holds
ArrayValues(arr, native) ==
    [i \in 1..Len(arr.data) |-> ElementValue(arr.dtype, arr.data[i], native)]

\* ndarray.byteswap(): a copy with the bytes of every element reversed and
\* the dtype kept
byteswap(arr) ==
    [arr EXCEPT !.data = Stored([i \in 1..Len(arr.data) |-> Reverse(arr.data[i])])]

\* W-byte two's complement of (-1)^neg * mag, little-endian
TwosComplement(neg, mag, W) ==
    LET pad == [i \in 1..W |-> At(mag, i)]
    IN  IF ~neg \/ BigNorm(mag) = <<>> THEN pad
        ELSE SubSeq(BigCarry([i \in 1..W |->
                        (255 - pad[i]) + (IF i = 1 THEN 1 ELSE 0)], 1, 0), 1, W)

\* an integer-valued float x lies in [-2^(8W-1), 2^(8W-1) - 1]
FitsInt(x, W) ==
    IF x.neg THEN ~BigLess(BigPow2(8 * W - 1), FIntMag(x))
    ELSE BigBitLen(FIntMag(x)) <= 8 * W - 1

int_min(W) == [i \in 1..W |-> IF i = W THEN 128 ELSE 0]
int_max(W) == [i \in 1..W |-> IF i = W THEN 127 ELSE 255]

\* The width of the integer a float64 is converted to on its way to a
\* W-byte integer: the machine converts to 4 or 8 bytes.
ConversionWidth(W) == IF W = 8 THEN 8 ELSE 4

\* The C cast of a float64 to a W-byte signed integer, as the builds compile
\* it: the value is converted to an integer of ConversionWidth(W) bytes and
\* the low W bytes are kept, so a value that does not fit W bytes but fits
\* the conversion wraps.  Outside the range of the conversion the result is
\* undefined behaviour; ub names what the build produces: "indefinite" (the
\* x86 conversion's integer indefinite value, the minimum) or "saturate"
\* (the AArch64 conversion).
CastToInt(x, W, ub) ==
    LET C    == ConversionWidth(W)
        wide == IF FitsInt(x, C) THEN TwosComplement(x.neg, FIntMag(x), C)
                ELSE IF ub = "indefinite" \/ x.neg THEN int_min(C)
                ELSE int_max(C)
    IN  SubSeq(wide, 1, W)

\* ndarray.astype(dtype) of a float64 array (values) to a native signed
\* integer dtype
astype(values, dtype, ub, native) ==
    [dtype |-> dtype, ndim |-> 1, size |-> Len(values),
     data  |-> Stored([i \in 1..Len(values) |->
                  LET le == CastToInt(values[i], dtype.itemsize, ub)
                  IN  IF native = "little" THEN le ELSE Reverse(le)])]

\* ndarray.astype(dtype) of an int64 array: the low bytes of each element
astype_from_int64(values, dtype, native) ==
    [dtype |-> dtype, ndim |-> 1, size |-> Len(values),
     data  |-> Stored([i \in 1..Len(values) |->
                  LET le == SubSeq(TwosComplement(values[i].neg, FIntMag(values[i]), 8),
                                   1, dtype.itemsize)
                  IN  IF native = "little" THEN le ELSE Reverse(le)])]

(***************************************************************************)
(* MonoWave.__init__                                                       *)
(***************************************************************************)
NoWave == [cls |-> "none"]

\* The array the constructor stores.  byteswap() reverses the bytes of every
\* element and keeps the dtype; the view in native byte order that line 20
\* builds is not assigned to anything, so it changes nothing.
MonoWave_normalize(samples) ==
    IF samples.dtype.byteorder # "=" THEN byteswap(samples) ELSE samples

\* MonoWave.__init__(samples, framerate): the exception raised ("none" when
\* it returns) and the object's attributes.
MonoWave_init(cls, samples, framerate) ==
    IF samples.dtype.kind # "i" \/ samples.ndim # 1
    THEN [exc |-> "AssertionError", obj |-> NoWave]
    ELSE [exc |-> "none",
          obj |-> [cls       |-> cls,
                   samples   |-> MonoWave_normalize(samples),
                   framerate |-> framerate,
                   step      |-> Fraction(1, framerate),
                   duration  |-> Fraction(samples.size, framerate)]]

(***************************************************************************)
(* The generators.                                                         *)
(***************************************************************************)
\* amplitude = (2 ** (dtype.itemsize * 8 - 1) - 1) * volume.  With an int
\* volume the product is an exact Python int; with a float volume the int is
\* converted to float (rounded to 53 bits) and multiplied by volume.
amplitude(dtype, volume) ==
    IF volume.t = "int"
    THEN FCanon(volume.v < 0,
                BigMul(BigOnes(dtype.itemsize * 8 - 1), BigFromNat(Abs(volume.v))), 0)
    ELSE FMul(FFromInt(FALSE, BigOnes(dtype.itemsize * 8 - 1)), ToFloat(volume))

\* A variant of arange_len that rounds the float stop to the nearest integer
\* instead of taking its ceiling: a faulty count, which C1 must tell apart.
arange_len_rounded(duration, framerate) ==
    IF duration.t = "int" THEN Max(duration.v * framerate, 0)
    ELSE LET stop == FMul(ToFloat(duration), FFromInt(FALSE, BigFromNat(framerate)))
         IN  IF stop.neg \/ stop.m = <<>> THEN 0 ELSE BigToNat(FIntMag(FRint(stop)))

\* len(np.arange(duration * framerate)): an int product gives that many
\* ints, a float product stop gives ceil(stop) floats, a product <= 0 none.
arange_len(duration, framerate) ==
    IF duration.t = "int" THEN Max(duration.v * framerate, 0)
    ELSE LET stop == FMul(ToFloat(duration), FFromInt(FALSE, BigFromNat(framerate)))
         IN  IF stop.neg \/ stop.m = <<>> THEN 0 ELSE BigToNat(FCeilMag(stop))

\* twice the frequency, the key of the sine table
TwiceFrequency(frequency) ==
    IF frequency.t = "int" THEN 2 * frequency.v
    ELSE frequency.num * (2 ^ (1 - frequency.k))

\* The table for the entry point's waves, frequency 440 and framerate 44100:
\* element n + 1 is the encoding of sin(tau * 440 * n / 44100).
sin_table_440_44100 == <<
            <<0,0,0,0,0,0,0,0>>, <<63,176,9,184,119,127,53,129>>, <<63,192,1,167,210,206,206,81>>, <<63,199,238,90,60,251,168,235>>,
            <<63,207,194,251,34,232,185,246>>, <<63,211,187,213,49,13,63,118>>, <<63,215,130,83,252,86,46,86>>, <<63,219,49,45,232,90,230,90>>,
            <<63,222,196,174,177,196,114,152>>, <<63,225,28,158,203,70,241,14>>, <<63,226,197,176,122,7,160,130>>, <<63,228,91,224,226,221,188,196>>,
            <<63,229,221,151,128,134,158,19>>, <<63,231,73,80,101,161,9,73>>, <<63,232,157,157,194,212,149,127>>, <<63,233,217,41,86,186,137,12>>,
            <<63,234,250,181,198,22,40,137>>, <<63,236,1,31,219,2,69,175>>, <<63,236,235,95,169,211,11,128>>, <<63,237,184,137,154,133,119,154>>,
            <<63,238,103,207,85,177,139,53>>, <<63,238,248,128,148,16,229,94>>, <<63,239,106,11,207,201,15,6>>, <<63,239,187,254,214,199,41,241>>,
            <<63,239,238,7,61,153,207,228>>, <<63,239,255,242,178,85,159,101>>, <<63,239,241,175,47,49,23,176>>, <<63,239,195,75,12,164,221,177>>,
            <<63,239,116,244,242,254,47,14>>, <<63,239,6,251,171,114,6,15>>, <<63,238,121,205,208,224,32,50>>, <<63,237,205,249,96,149,152,194>>,
            <<63,237,4,43,43,126,248,104>>, <<63,236,29,46,40,89,89,96>>, <<63,235,25,234,167,145,110,162>>, <<63,233,251,101,105,157,186,229>>,
            <<63,232,194,190,152,190,244,167>>, <<63,231,113,48,167,46,88,1>>, <<63,230,8,15,18,221,98,9>>, <<63,228,136,197,16,5,6,149>>,
            <<63,226,244,212,27,219,198,247>>, <<63,225,77,210,120,226,12,46>>, <<63,223,42,211,44,149,100,69>>, <<63,219,154,168,200,53,103,38>>,
            <<63,215,238,187,43,92,151,182>>, <<63,212,42,187,168,199,47,192>>, <<63,208,82,115,200,117,99,49>>, <<63,200,211,130,241,37,129,190>>,
            <<63,192,233,38,83,178,221,71>>, <<63,177,219,143,109,106,81,24>>, <<63,125,45,198,105,127,16,249>>, <<191,172,111,88,85,66,217,28>>,
            <<191,190,51,232,43,149,119,0>>, <<191,199,8,225,241,149,120,49>>, <<191,206,224,165,18,154,49,35>>, <<191,211,76,173,23,195,192,213>>,
            <<191,215,21,158,157,88,230,17>>, <<191,218,199,88,152,197,16,71>>, <<191,222,94,35,226,104,83,149>>, <<191,224,235,50,52,115,199,79>>,
            <<191,226,150,78,105,69,203,106>>, <<191,228,46,184,255,221,207,41>>, <<191,229,178,215,53,133,152,5>>, <<191,231,33,34,177,187,95,156>>,
            <<191,232,120,43,14,199,231,133>>, <<191,233,182,151,76,65,130,140>>, <<191,234,219,39,42,7,111,139>>, <<191,235,228,180,106,88,141,19>>,
            <<191,236,210,51,249,193,117,118>>, <<191,237,162,182,251,184,98,186>>, <<191,238,85,107,186,216,179,108>>, <<191,238,233,158,123,204,116,46>>,
            <<191,239,94,186,50,15,206,88>>, <<191,239,180,73,21,216,142,156>>, <<191,239,233,245,26,139,0,20>>, <<191,239,255,136,69,68,248,148>>,
            <<191,239,244,236,227,40,12,49>>, <<191,239,202,45,159,44,77,245>>, <<191,239,127,117,119,101,170,234>>, <<191,239,21,15,145,198,169,250>>,
            <<191,238,139,102,240,140,13,70>>, <<191,237,227,6,6,157,88,149>>, <<191,237,28,150,44,78,122,72>>, <<191,236,56,222,245,14,161,216>>,
            <<191,235,56,197,102,175,143,105>>, <<191,234,29,75,19,15,59,195>>, <<191,232,231,141,21,11,129,230>>, <<191,231,152,194,241,196,82,221>>,
            <<191,230,50,61,95,76,215,10>>, <<191,228,181,100,242,6,152,97>>, <<191,227,35,184,177,251,75,166>>, <<191,225,126,204,153,161,243,239>>,
            <<191,223,144,143,255,37,163,35>>, <<191,220,3,199,217,133,121,233>>, <<191,216,90,210,193,228,72,164>>, <<191,212,153,95,14,27,144,255>>,
            <<191,208,195,51,182,158,247,65>>, <<191,201,184,89,19,237,231,28>>, <<191,193,208,108,150,141,158,9>>, <<191,179,173,42,255,20,118,27>>,
            <<191,141,45,149,227,224,184,199>>, <<63,168,202,225,41,161,74,131>>, <<63,188,100,28,62,129,248,78>>, <<63,198,35,29,10,32,191,156>>,
            <<63,205,253,232,80,192,229,212>>, <<63,210,221,68,206,154,251,168>>, <<63,214,168,156,119,240,162,52>>, <<63,218,93,42,57,111,196,133>>,
            <<63,221,247,52,19,138,226,17>>, <<63,224,185,141,88,200,250,113>>, <<63,226,102,174,135,44,223,102>>, <<63,228,1,77,253,51,131,119>>,
            <<63,229,135,206,192,9,56,176>>, <<63,230,248,168,17,29,230,254>>, <<63,232,82,102,249,36,181,29>>, <<63,233,147,175,189,44,109,77>>,
            <<63,234,187,63,60,89,98,105>>, <<63,235,199,236,52,225,24,197>>, <<63,236,184,168,111,0,218,65>>, <<63,237,140,129,204,194,135,25>>,
            <<63,238,66,163,61,126,80,11>>, <<63,238,218,85,148,36,113,88>>, <<63,239,83,0,63,119,107,2>>, <<63,239,172,41,227,125,108,141>>,
            <<63,239,229,120,211,142,161,232>>, <<63,239,254,179,108,133,159,135>>, <<63,239,247,192,78,183,56,235>>, <<63,239,208,166,119,119,116,125>>,
            <<63,239,137,141,58,17,242,70>>, <<63,239,34,188,24,60,215,142>>, <<63,238,156,154,122,46,6,117>>, <<63,237,247,175,70,154,245,245>>,
            <<63,237,52,160,91,11,195,121>>, <<63,236,84,49,229,9,242,16>>, <<63,235,87,69,156,210,157,243>>, <<63,234,62,217,226,82,147,141>>,
            <<63,233,12,8,189,80,156,30>>, <<63,231,192,6,193,199,77,39>>, <<63,230,92,33,217,139,161,238>>, <<63,228,225,191,244,120,127,247>>,
            <<63,227,82,93,160,112,233,95>>, <<63,225,175,140,138,162,234,165>>, <<63,223,245,227,215,24,104,226>>, <<63,220,108,137,190,173,91,79>>,
            <<63,216,198,153,88,110,32,115>>, <<63,213,7,189,241,19,116,73>>, <<63,209,51,187,228,244,112,20>>, <<63,202,156,217,172,66,88,238>>,
            <<63,194,183,119,154,48,211,199>>, <<63,181,126,133,31,244,225,136>>, <<63,149,225,243,196,51,76,119>>, <<191,165,38,23,137,83,166,90>>,
            <<191,186,147,241,228,229,226,102>>, <<191,197,61,14,130,202,26,54>>, <<191,205,26,199,207,116,28,89>>, <<191,210,109,157,200,24,177,165>>,
            <<191,214,59,78,246,168,157,107>>, <<191,217,242,164,43,127,22,242>>, <<191,221,143,224,155,133,223,247>>, <<191,224,135,176,221,98,26,54>>,
            <<191,226,54,209,114,33,12,152>>, <<191,227,211,160,113,236,93,139>>, <<191,229,92,126,175,48,107,239>>, <<191,230,207,225,10,105,2,61>>,
            <<191,232,44,81,255,133,113,182>>, <<191,233,112,115,29,145,122,127>>, <<191,234,154,254,103,41,47,45>>, <<191,235,170,199,154,85,90,173>>,
            <<191,236,158,189,94,134,169,93>>, <<191,237,117,234,87,127,223,186>>, <<191,238,47,118,28,26,158,245>>, <<191,238,202,166,15,238,137,166>>,
            <<191,239,70,222,30,255,224,82>>, <<191,239,163,161,90,184,212,77>>, <<191,239,224,146,119,143,176,96>>, <<191,239,253,116,42,219,120,208>>,
            <<191,239,250,41,104,120,164,14>>, <<191,239,214,181,127,255,236,220>>, <<191,239,147,60,25,113,220,34>>, <<191,239,48,1,17,90,99,193>>,
            <<191,238,173,104,52,144,155,150>>, <<191,238,11,244,219,215,69,24>>, <<191,237,76,73,103,195,8,187>>, <<191,236,111,38,157,107,72,158>>,
            <<191,235,117,106,228,137,200,57>>, <<191,234,96,17,103,204,37,103>>, <<191,233,48,49,24,56,27,65>>, <<191,231,230,251,148,160,156,45>>,
            <<191,230,133,187,246,69,235,202>>, <<191,229,13,213,131,213,218,236>>, <<191,227,128,194,76,27,15,201>>, <<191,225,224,17,169,194,183,104>>,
            <<191,224,45,102,177,183,9,215>>, <<191,220,212,237,27,69,40,152>>, <<191,217,50,13,136,136,98,242>>, <<191,213,117,214,226,155,196,233>>,
            <<191,209,164,10,221,50,142,26>>, <<191,203,129,1,194,44,213,126>>, <<191,195,158,68,94,51,77,2>>, <<191,183,79,151,196,92,118,132>>,
            <<191,157,44,211,207,75,119,179>>, <<63,161,129,7,146,166,11,7>>, <<63,184,195,111,38,126,2,207>>, <<63,196,86,185,88,178,255,57>>,
            <<63,204,55,70,130,22,216,126>>, <<63,209,253,185,119,147,77,159>>, <<63,213,205,183,133,6,179,216>>, <<63,217,135,199,209,58,185,10>>,
            <<63,221,40,42,209,254,132,2>>, <<63,224,85,157,104,19,181,52>>, <<63,226,6,183,201,82,12,237>>, <<63,227,165,176,245,243,40,166>>,
            <<63,229,48,231,147,8,68,185>>, <<63,230,166,206,37,59,43,31>>, <<63,232,5,236,160,145,152,37>>, <<63,233,76,225,226,161,196,85>>,
            <<63,234,122,101,21,187,178,62>>, <<63,235,141,70,251,162,14,203>>, <<63,236,132,115,30,134,3,116>>, <<63,237,94,240,231,19,63,230>>,
            <<63,238,27,228,150,116,149,5>>, <<63,238,186,144,35,85,174,185>>, <<63,239,58,83,249,3,165,38>>, <<63,239,154,175,151,236,44,51>>,
            <<63,239,219,66,22,217,246,54>>, <<63,239,251,202,132,108,79,202>>, <<63,239,252,40,40,103,237,179>>, <<63,239,220,90,164,159,60,24>>,
            <<63,239,156,129,245,81,22,122>>, <<63,239,60,222,80,253,137,33>>, <<63,238,189,207,231,208,246,122>>, <<63,238,31,214,130,230,148,13>>,
            <<63,237,99,145,3,195,139,22>>, <<63,236,137,188,196,139,253,220>>, <<63,235,147,52,217,146,168,63>>, <<63,234,128,241,53,2,162,220>>,
            <<63,233,84,5,173,128,227,228>>, <<63,232,13,160,232,192,73,105>>, <<63,230,175,11,43,31,49,100>>, <<63,229,57,165,13,128,192,234>>,
            <<63,227,174,230,26,173,230,226>>, <<63,226,16,91,85,162,193,89>>, <<63,224,95,165,170,68,67,184>>, <<63,221,60,240,148,31,102,0>>,
            <<63,217,157,45,236,211,96,135>>, <<63,213,227,168,116,138,11,219>>, <<63,210,20,31,41,212,88,109>>, <<63,204,100,206,94,221,186,53>>,
            <<63,196,132,207,226,250,223,224>>, <<63,185,32,92,225,137,215,174>>, <<63,162,59,169,105,38,231,193>>, <<191,155,183,122,201,157,15,88>>,
            <<191,182,242,154,12,45,33,146>>, <<191,195,112,32,137,231,210,156>>, <<191,203,83,103,93,78,10,209>>, <<191,209,141,153,81,45,16,223>>,
            <<191,213,95,215,143,134,170,168>>, <<191,217,28,150,142,9,95,191>>, <<191,220,192,20,15,225,2,44>>, <<191,224,35,83,159,105,49,140>>,
            <<191,225,214,98,44,185,18,138>>, <<191,227,119,128,34,13,254,203>>, <<191,229,5,9,252,138,29,254>>, <<191,230,125,111,234,47,47,50>>,
            <<191,231,223,55,91,252,5,73>>, <<191,233,40,252,130,167,200,118>>, <<191,234,89,115,180,124,17,165>>, <<191,235,111,106,186,229,249,8>>,
            <<191,236,105,202,6,110,155,121>>, <<191,237,71,149,199,229,89,104>>, <<191,238,7,238,237,161,9,204>>, <<191,238,170,20,3,217,105,148>>,
            <<191,239,45,97,247,55,37,198>>, <<191,239,145,84,184,214,210,16>>, <<191,239,213,135,195,25,215,167>>, <<191,239,249,182,126,191,200,205>>,
            <<191,239,253,188,135,226,106,135>>, <<191,239,225,149,210,143,19,152>>, <<191,239,165,94,174,216,145,95>>, <<191,239,73,83,172,93,122,214>>,
            <<191,238,205,209,93,95,148,234>>, <<191,238,51,83,249,169,138,250>>, <<191,237,122,118,225,160,157,144>>, <<191,236,163,244,1,255,238,38>>,
            <<191,235,176,163,24,218,145,196>>, <<191,234,161,120,220,160,123,57>>, <<191,233,119,134,6,0,119,78>>, <<191,232,51,246,61,158,193,128>>,
            <<191,230,216,14,238,180,15,34>>, <<191,229,101,45,255,196,43,168>>, <<191,227,220,200,114,181,80,182>>, <<191,226,64,104,237,170,40,88>>,
            <<191,224,145,174,46,23,196,106>>, <<191,221,164,146,207,77,129,28>>, <<191,218,7,249,33,6,26,201>>, <<191,214,81,49,57,161,51,90>>,
            <<191,210,131,247,86,23,246,138>>, <<191,205,72,60,140,181,156,153>>, <<191,197,107,23,41,198,98,86>>, <<191,186,240,206,109,189,129,125>>,
            <<191,165,224,172,70,200,249,168>>, <<63,148,108,138,63,137,149,189>>, <<63,181,33,120,159,231,239,209>>, <<63,194,137,71,21,85,240,117>>,
            <<63,202,111,45,86,246,192,30>>, <<63,209,29,62,201,207,61,217>>, <<63,212,241,176,131,149,114,171>>, <<63,216,177,17,198,108,37,111>>,
            <<63,220,87,157,175,92,16,186>>, <<63,223,225,168,85,69,70,40>>, <<63,225,165,209,61,22,179,167>>, <<63,227,73,14,143,220,75,219>>,
            <<63,228,216,230,125,153,184,132>>, <<63,230,83,198,226,218,105,225>>, <<63,231,184,50,178,129,79,109>>, <<63,233,4,195,117,5,222,71>>,
            <<63,234,56,42,176,250,84,69>>, <<63,235,81,51,59,112,159,22>>, <<63,236,78,194,110,235,147,226>>, <<63,237,47,217,71,163,190,91>>,
            <<63,237,243,149,100,1,223,90>>, <<63,238,153,49,232,77,40,181>>, <<63,239,32,8,68,168,57,36>>, <<63,239,135,144,220,149,184,40>>,
            <<63,239,207,99,143,92,23,182>>, <<63,239,247,56,32,191,78,205>>, <<63,239,254,230,129,167,57,221>>, <<63,239,230,102,248,105,143,169>>,
            <<63,239,173,210,40,142,229,147>>, <<63,239,85,96,250,10,242,168>>, <<63,238,221,108,96,0,254,24>>, <<63,238,70,108,255,78,8,7>>,
            <<63,237,144,250,181,50,166,173>>, <<63,236,189,203,254,150,159,210>>, <<63,235,205,181,64,127,219,144>>, <<63,234,193,167,242,117,71,93>>,
            <<63,233,154,177,171,164,127,166>>, <<63,232,89,251,19,190,127,182>>, <<63,231,0,198,184,156,10,105>>, <<63,229,144,111,201,213,219,86>>,
            <<63,228,10,104,187,150,231,134>>, <<63,226,112,57,210,7,218,242>>, <<63,224,195,127,150,202,139,52>>, <<63,222,11,210,116,36,80,102>>,
            <<63,218,114,109,193,242,229,107>>, <<63,214,190,111,197,150,67,223>>, <<63,210,243,145,238,3,136,193>>, <<63,206,43,73,87,79,37,112>>,
            <<63,198,81,23,52,183,161,218>>, <<63,188,192,230,96,77,217,235>>, <<63,169,133,102,97,129,117,27>>, <<191,138,66,171,144,103,41,138>>,
            <<191,179,80,16,236,160,241,180>>, <<191,193,162,47,250,193,183,107>>, <<191,201,138,155,102,28,69,92>>, <<191,208,172,171,87,37,62,195>>,
            <<191,212,131,67,207,140,106,48>>, <<191,216,69,58,223,249,232,55>>, <<191,219,238,201,11,220,105,247>>, <<191,223,124,63,99,101,61,216>>,
            <<191,225,117,5,155,240,212,28>>, <<191,227,26,92,217,212,207,175>>, <<191,228,172,125,169,3,85,173>>, <<191,230,41,211,153,202,250,115>>,
            <<191,231,144,223,37,230,26,26>>, <<191,232,224,55,50,52,170,101>>, <<191,234,22,138,121,233,246,8>>, <<191,235,50,160,225,192,253,130>>,
            <<191,236,51,92,177,226,87,213>>, <<191,237,23,187,181,63,222,219>>, <<191,237,222,216,61,69,37,62>>, <<191,238,135,234,8,215,137,178>>,
            <<191,239,18,71,13,189,145,148>>, <<191,239,125,100,35,162,253,204>>, <<191,239,200,213,144,13,152,197>>, <<191,239,244,79,114,181,252,90>>,
            <<191,239,255,166,17,215,87,41>>, <<191,239,234,206,6,41,113,91>>, <<191,239,181,220,70,88,182,115>>, <<191,239,97,6,17,240,187,27>>,
            <<191,238,236,160,187,206,115,158>>, <<191,238,89,33,84,79,246,239>>, <<191,237,167,28,51,152,29,183>>, <<191,236,215,68,100,92,101,82>>,
            <<191,235,234,106,239,211,37,71>>, <<191,234,225,126,11,119,49,93>>, <<191,233,189,136,41,116,88,104>>, <<191,232,127,174,236,173,181,238>>,
            <<191,231,41,50,1,107,86,217>>, <<191,229,187,105,219,216,56,24>>, <<191,228,55,198,93,147,248,219>>, <<191,226,159,205,99,180,170,54>>,
            <<191,224,245,25,62,172,221,29>>, <<191,222,114,174,43,64,140,118>>, <<191,218,220,138,109,140,3,72>>, <<191,215,43,98,173,21,32,250>>,
            <<191,211,98,237,126,105,252,221>>, <<191,207,13,241,203,136,225,184>>, <<191,199,54,205,6,221,82,157>>, <<191,190,144,158,177,187,76,182>>,
            <<191,173,41,203,155,55,215,173>>, <<63,119,87,214,150,123,143,17>>, <<63,177,126,104,254,52,107,120>>, <<63,192,186,222,58,188,142,63>>,
            <<63,200,165,180,130,238,74,254>>, <<63,208,59,224,111,151,204,10>>, <<63,212,20,146,226,172,153,253>>, <<63,215,217,19,65,90,164,109>>,
            <<63,219,133,151,130,8,71,71>>, <<63,223,22,109,186,120,25,42>>, <<63,225,67,255,235,144,140,129>>, <<63,226,235,107,155,67,155,37>>,
            <<63,228,127,208,18,121,207,42>>, <<63,229,255,150,154,133,247,112>>, <<63,231,105,61,56,245,102,126>>, <<63,232,187,88,51,193,141,99>>,
            <<63,233,244,147,127,32,118,214>>, <<63,235,19,180,19,132,58,17>>, <<63,236,23,153,42,113,112,94>>, <<63,236,255,61,96,238,2,112>>,
            <<63,237,201,183,190,100,55,143>>, <<63,238,118,60,158,241,158,97>>, <<63,239,4,30,128,54,41,101>>, <<63,239,114,206,175,213,131,94>>,
            <<63,239,193,221,218,251,24,177>>, <<63,239,240,252,126,80,128,13>>, <<63,239,255,251,53,245,166,218>>, <<63,239,238,202,237,42,83,178>>,
            <<63,239,189,124,237,121,15,149>>, <<63,239,108,66,205,84,52,125>>, <<63,238,251,110,62,54,158,1>>, <<63,238,107,112,186,122,36,76>>,
            <<63,237,188,219,19,54,131,204>>, <<63,236,240,92,222,155,122,242>>, <<63,236,6,195,199,88,152,148>>, <<63,235,0,250,189,196,88,83>>,
            <<63,233,224,9,11,146,148,56>>, <<63,232,165,17,75,7,241,54>>, <<63,231,81,80,66,180,152,231>>, <<63,229,230,27,166,220,49,13>>,
            <<63,228,100,224,193,203,126,220>>, <<63,226,207,35,4,117,90,102>>, <<63,225,38,122,128,200,108,62>>, <<63,222,217,36,158,139,70,153>>,
            <<63,219,70,77,194,232,65,70>>, <<63,215,152,8,133,197,65,31>>, <<63,211,210,8,148,239,224,189>>, <<63,207,240,50,247,143,19,205>>,
            <<63,200,28,53,164,61,5,134>>, <<63,192,47,248,173,226,37,109>>, <<63,176,102,231,235,118,245,132>>, <<63,87,87,222,89,246,153,218>>,
            <<191,175,89,13,194,168,114,38>>, <<191,191,166,169,173,53,205,96>>, <<191,199,192,123,166,183,9,19>>, <<191,207,149,191,20,144,28,247>>,
            <<191,211,165,159,45,25,240,3>>, <<191,215,108,156,82,66,204,252>>, <<191,219,28,10,111,186,217,178>>, <<191,222,176,52,173,31,236,64>>,
            <<191,225,18,192,207,0,13,84>>, <<191,226,188,59,112,72,12,168>>, <<191,228,82,222,78,148,172,60>>, <<191,229,213,16,113,133,158,173>>,
            <<191,231,65,77,111,126,224,115>>, <<191,232,150,38,244,77,15,219>>, <<191,233,210,70,49,147,231,101>>, <<191,234,244,109,55,148,81,152>>,
            <<191,235,251,120,52,239,84,191>>, <<191,236,230,94,156,36,61,85>>, <<191,237,180,52,45,162,217,120>>, <<191,238,100,41,229,102,45,233>>,
            <<191,238,245,142,203,40,170,124>>, <<191,239,103,208,164,96,121,168>>, <<191,239,186,124,135,80,232,75>>, <<191,239,237,63,78,156,252,91>>,
            <<191,239,255,229,236,230,254,168>>, <<191,239,242,93,160,40,220,116>>, <<191,239,196,180,4,145,189,161>>, <<191,239,119,23,6,213,213,212>>,
            <<191,239,9,212,181,254,53,52>>, <<191,238,125,90,244,231,12,82>>, <<191,237,210,55,11,187,88,162>>, <<191,237,9,21,25,221,32,160>>,
            <<191,236,34,191,104,201,39,14>>, <<191,235,32,29,160,164,49,42>>, <<191,234,2,51,223,62,125,45>>, <<191,232,202,33,178,119,186,205>>,
            <<191,231,121,32,247,10,164,235>>, <<191,230,16,132,156,227,22,81>>, <<191,228,145,183,82,60,22,7>>, <<191,226,254,58,22,220,177,67>>,
            <<191,225,87,162,184,226,124,119>>, <<191,223,63,52,121,62,90,114>>, <<191,219,175,182,98,71,136,167>>, <<191,216,4,95,230,78,98,157>>,
            <<191,212,64,225,192,16,50,17>>, <<191,208,105,4,245,114,190,41>>, <<191,201,1,78,17,221,15,222>>, <<191,193,23,108,44,188,174,234>>,
            <<191,178,56,179,124,116,7,168>>, <<191,129,129,217,45,99,101,141>>, <<63,171,180,225,70,231,123,226>>, <<63,189,215,45,160,212,131,12>>,
            <<63,198,218,243,203,209,86,249>>, <<63,206,179,84,62,21,127,24>>, <<63,211,54,106,31,214,119,0>>, <<63,214,255,215,123,110,156,183>>,
            <<63,218,178,35,51,255,191,1>>, <<63,222,73,149,143,86,168,46>>, <<63,224,225,72,234,8,130,53>>, <<63,226,140,204,245,210,200,121>>,
            <<63,228,37,168,242,206,50,139>>, <<63,229,170,65,172,55,129,154>>, <<63,231,25,16,78,85,40,22>>, <<63,232,112,163,239,137,74,134>>,
            <<63,233,175,163,3,89,113,65>>, <<63,234,212,204,181,246,193,62>>, <<63,235,222,250,46,233,56,51>>, <<63,236,205,31,185,153,97,153>>,
            <<63,237,158,77,210,142,75,157>>, <<63,238,81,178,24,80,241,1>>, <<63,238,230,152,31,2,209,189>>, <<63,239,92,106,37,210,236,230>>,
            <<63,239,178,177,173,154,158,69>>, <<63,239,233,23,240,10,226,206>>, <<63,239,255,102,54,242,41,61>>, <<63,239,245,134,19,66,232,59>>,
            <<63,239,203,129,115,163,162,179>>, <<63,239,129,130,154,113,169,41>>, <<63,239,23,211,243,64,163,240>>, <<63,238,142,223,200,1,165,148>>,
            <<63,237,231,47,214,29,11,10>>, <<63,237,33,108,195,234,175,112>>, <<63,236,62,93,119,19,195,129>>, <<63,235,62,230,76,136,226,52>>,
            <<63,234,36,8,50,213,147,55>>, <<63,232,238,223,167,184,53,166>>, <<63,231,160,163,154,2,58,221>>, <<63,230,58,164,48,224,115,15>>,
            <<63,228,190,73,121,197,239,183>>, <<63,227,45,17,254,77,129,163>>, <<63,225,136,145,67,126,5,48>>, <<63,223,164,220,103,232,219,28>>,
            <<63,220,24,194,237,23,117,170>>, <<63,216,112,103,102,93,62,207>>, <<63,212,175,119,143,33,43,21>>, <<63,208,217,185,219,56,145,165>>,
            <<63,201,230,19,85,206,119,87>>, <<63,193,254,166,211,168,149,189>>, <<63,180,10,66,115,106,187,47>>, <<63,144,12,62,42,210,122,95>>,
            <<191,168,16,88,165,103,113,139>>, <<191,188,7,78,85,206,86,22>>, <<191,197,245,31,237,158,195,221>>, <<191,205,208,131,76,198,144,176>>,
            <<191,210,198,245,44,189,139,119>>, <<191,214,146,198,38,157,105,44>>, <<191,218,71,227,47,14,115,37>>, <<191,221,226,145,182,105,176,117>>,
            <<191,224,175,152,225,47,240,32>>, <<191,226,93,32,201,163,174,156>>, <<191,227,248,48,149,129,117,250>>, <<191,229,127,42,216,250,175,217>>,
            <<191,230,240,134,91,76,24,15>>, <<191,232,74,207,162,56,74,216>>, <<191,233,140,170,103,163,219,0>>, <<191,234,180,210,247,219,45,158>>,
            <<191,235,194,31,119,33,210,27>>, <<191,236,179,129,13,67,235,172>>, <<191,237,136,4,245,252,93,237>>, <<191,238,62,213,117,29,202,95>>,
            <<191,238,215,58,173,136,206,33>>, <<191,239,80,155,90,23,75,17>>, <<191,239,170,125,103,194,197,149>>, <<191,239,228,134,112,106,202,171>>,
            <<191,239,254,124,21,191,229,74>>, <<191,239,248,68,59,247,177,242>>, <<191,239,209,229,36,15,6,44>>, <<191,239,139,133,101,127,195,56>>,
            <<191,239,37,107,199,112,167,78>>, <<191,238,159,254,249,134,39,4>>, <<191,237,251,197,44,155,229,116>>, <<191,237,57,99,139,206,171,65>>,
            <<191,236,89,157,150,94,151,121>>, <<191,235,93,84,91,16,155,238>>, <<191,234,69,133,149,213,5,251>>, <<191,233,19,74,176,150,184,103>>,
            <<191,231,199,215,168,51,190,188>>, <<191,230,100,121,214,187,225,63>>, <<191,228,234,150,164,44,194,26>>, <<191,227,91,170,30,252,180,80>>,
            <<191,225,185,69,125,221,209,186>>, <<191,224,5,13,140,57,190,125>>, <<191,220,129,114,5,247,224,190>>, <<191,216,220,29,158,168,53,57>>,
            <<191,213,29,200,146,89,13,158>>, <<191,209,74,54,182,65,13,10>>, <<191,202,202,130,119,54,216,144>>, <<191,194,229,165,161,158,56,171>>,
            <<191,181,219,142,195,252,60,21>>, <<191,151,87,90,95,157,22,80>>, <<63,164,107,127,251,156,74,31>>, <<63,186,55,17,210,230,116,89>>,
            <<63,197,15,3,8,125,177,70>>, <<63,204,237,79,50,253,183,239>>, <<63,210,87,65,198,127,12,43>>, <<63,214,37,105,190,140,237,113>>,
            <<63,217,221,75,194,69,186,76>>, <<63,221,123,42,120,245,109,3>>, <<63,224,125,177,89,183,18,89>>, <<63,226,45,55,138,71,207,59>>,
            <<63,227,202,117,205,232,100,28>>, <<63,229,83,204,135,29,220,203>>, <<63,230,199,176,29,55,8,117>>, <<63,232,36,170,138,42,116,19>>,
            <<63,233,105,92,210,194,10,42>>, <<63,234,148,128,103,154,3,166>>, <<63,235,164,232,109,144,35,39>>, <<63,236,153,130,236,88,235,236>>,
            <<63,237,113,89,226,10,125,176>>, <<63,238,43,148,58,135,250,15>>, <<63,238,199,118,169,212,155,2>>, <<63,239,68,100,104,114,229,236>>,
            <<63,239,161,223,209,18,135,67>>, <<63,239,223,138,222,238,67,2>>, <<63,239,253,39,140,90,224,4>>, <<63,239,250,152,17,39,245,209>>,
            <<63,239,215,223,0,147,223,238>>, <<63,239,149,31,70,180,182,217>>, <<63,239,50,156,5,88,233,108>>, <<63,238,176,184,80,130,201,179>>,
            <<63,238,15,246,202,194,245,72>>, <<63,237,80,249,33,213,207,177>>, <<63,236,116,127,108,8,53,86>>, <<63,235,123,103,103,6,237,141>>,
            <<63,234,102,171,152,219,42,162>>, <<63,233,55,98,83,244,99,201>>, <<63,231,238,188,159,60,237,154>>, <<63,230,142,5,3,82,220,33>>,
            <<63,229,22,158,62,25,181,173>>, <<63,227,138,1,221,243,78,42>>, <<63,225,233,190,198,6,158,34>>, <<63,224,55,119,157,18,124,161>>,
            <<63,220,233,194,80,191,108,246>>, <<63,217,71,129,40,243,250,48>>, <<63,213,139,211,90,210,232,229>>, <<63,209,186,122,16,110,155,53>>,
            <<63,203,174,152,126,90,68,176>>, <<63,195,204,101,150,93,1,241>>, <<63,183,172,146,98,167,93,15>>, <<63,158,162,40,243,94,94,132>>,
            <<191,160,198,99,104,4,41,75>>, <<191,184,102,126,32,22,16,5>>, <<191,196,40,160,25,191,92,17>>, <<191,204,9,186,228,95,36,22>>,
            <<191,209,231,81,96,154,140,165>>, <<191,213,183,195,174,244,149,88>>, <<191,217,114,94,80,39,11,231>>, <<191,221,19,97,46,224,213,104>>,
            <<191,224,75,146,249,151,53,88>>, <<191,225,253,17,215,23,89,68>>, <<191,227,156,121,52,25,205,90>>, <<191,229,40,39,70,221,131,106>>,
            <<191,230,158,142,27,231,14,103>>, <<191,231,254,53,38,60,220,211>>, <<191,233,69,186,186,29,127,54>>, <<191,234,115,213,112,179,23,233>>,
            <<191,235,135,85,115,94,54,59>>, <<191,236,127,37,173,74,234,95>>, <<191,237,90,76,226,28,190,213>>, <<191,238,23,238,168,153,76,202>>,
            <<191,238,183,76,72,85,86,118>>, <<191,239,55,197,121,133,112,77>>, <<191,239,152,217,6,49,79,163>>, <<191,239,218,37,76,39,160,33>>,
            <<191,239,251,104,159,47,171,6>>, <<191,239,252,129,139,22,15,171>>, <<191,239,221,110,245,82,31,12>>, <<191,239,158,80,30,34,3,159>>,
            <<191,239,63,100,129,28,151,176>>, <<191,238,193,11,149,88,134,124>>, <<191,238,35,196,109,104,239,75>>, <<191,237,104,45,55,144,25,120>>,
            <<191,236,143,2,158,168,196,205>>, <<191,235,153,31,12,102,20,243>>, <<191,234,135,121,205,168,238,153>>, <<191,233,91,38,25,199,181,114>>,
            <<191,232,21,81,253,194,143,59>>, <<191,230,183,69,44,122,142,226>>, <<191,229,66,95,181,29,78,226>>, <<191,227,184,24,161,16,115,142>>,
            <<191,226,25,252,122,193,50,4>>, <<191,224,105,171,190,211,54,132>>, <<191,221,81,178,114,128,10,41>>, <<191,217,178,144,160,24,59,184>>,
            <<191,213,249,150,122,147,95,41>>, <<191,210,42,130,116,98,230,96>>, <<191,204,146,82,116,165,41,236>>, <<191,196,178,227,178,117,98,219>>,
            <<191,185,125,71,68,220,183,66>>, <<191,162,246,72,210,178,172,170>>, <<63,154,66,30,19,254,34,10>>, <<63,182,149,153,70,120,84,161>>,
            <<63,195,65,250,31,157,242,127>>, <<63,203,37,201,85,206,252,207>>, <<63,209,119,37,111,90,125,206>>, <<63,213,73,213,100,128,194,217>>,
            <<63,217,7,28,60,81,245,91>>, <<63,220,171,55,49,88,251,18>>, <<63,224,25,62,103,128,14,95>>, <<63,225,204,176,80,51,138,135>>,
            <<63,227,110,59,97,7,107,33>>, <<63,228,252,59,169,98,6,125>>, <<63,230,117,32,224,41,56,90>>, <<63,231,215,111,246,87,169,42>>,
            <<63,233,33,196,148,56,207,185>>, <<63,234,82,210,127,204,65,17>>, <<63,235,105,102,234,231,220,200>>, <<63,236,100,105,167,200,199,174>>,
            <<63,237,66,222,66,220,225,44>>, <<63,238,3,229,0,169,71,106>>, <<63,238,166,187,190,206,146,146>>, <<63,239,42,190,183,72,119,8>>,
            <<63,239,143,105,37,36,111,16>>, <<63,239,212,85,202,9,196,124>>, <<63,239,249,63,84,12,173,154>>, <<63,239,254,0,163,102,20,178>>,
            <<63,239,226,148,239,201,235,222>>, <<63,239,167,23,205,54,128,21>>, <<63,239,75,197,16,55,244,247>>, <<63,238,208,248,145,187,206,151>>,
            <<63,238,55,45,210,177,14,130>>, <<63,237,126,255,127,209,202,215>>, <<63,236,169,38,214,19,44,211>>, <<63,235,182,122,232,88,76,157>>,
            <<63,234,167,239,199,35,70,73>>, <<63,233,126,149,139,30,23,46>>, <<63,232,59,151,67,114,36,77>>, <<63,230,224,57,201,1,160,34>>,
            <<63,229,109,218,119,177,85,57>>, <<63,227,229,237,207,11,104,237>>, <<63,226,73,253,251,156,120,132>>, <<63,224,155,169,74,131,219,114>>,
            <<63,221,185,65,17,139,121,59>>, <<63,218,29,74,160,4,71,168>>, <<63,214,103,16,132,141,100,200>>, <<63,210,154,78,109,131,177,169>>,
            <<63,205,117,173,100,182,36,165>>, <<63,197,153,28,247,82,199,50>>, <<63,187,77,167,97,18,192,228>>, <<63,166,155,62,27,41,242,77>>,
            <<191,146,247,30,3,77,32,135>>, <<191,180,196,105,80,54,83,62>>, <<191,194,91,20,25,50,159,96>>, <<191,202,65,125,125,103,136,249>>,
            <<191,209,6,191,103,207,89,241>>, <<191,212,219,160,76,206,16,251>>, <<191,216,155,134,235,127,125,254>>, <<191,220,66,173,218,204,139,22>>,
            <<191,223,205,104,149,171,33,248>>, <<191,225,156,19,150,132,154,28>>, <<191,227,63,188,238,123,227,51>>, <<191,228,208,10,64,189,205,209>>,
            <<191,230,75,104,243,196,199,28>>, <<191,231,176,91,123,108,97,92>>, <<191,232,253,122,216,174,28,25>>, <<191,234,49,120,2,175,237,205>>,
            <<191,235,75,29,55,185,104,109>>, <<191,236,73,79,52,188,153,106>>, <<191,237,43,14,82,57,81,209>>, <<191,237,239,119,133,92,77,61>>,
            <<191,238,149,197,68,87,162,155>>, <<191,239,29,80,77,14,213,73>>, <<191,239,133,144,77,78,182,17>>, <<191,239,206,28,107,231,228,255>>,
            <<191,239,246,171,178,34,17,104>>, <<191,239,255,21,85,29,232,152>>, <<191,239,231,80,222,219,229,138>>, <<191,239,175,118,54,190,191,102>>,
            <<191,239,87,189,137,128,230,194>>, <<191,238,224,127,16,181,64,111>>, <<191,238,74,50,186,11,239,185>>, <<191,237,149,111,174,180,108,219>>,
            <<191,236,194,235,187,86,56,187>>, <<191,235,211,122,153,57,19,53>>, <<191,234,200,13,25,84,151,65>>, <<191,233,161,176,50,29,106,133>>,
            <<191,232,97,139,241,3,145,8>>, <<191,231,8,226,80,177,250,60>>, <<191,229,153,13,245,58,183,69>>, <<191,228,19,128,207,117,144,104>>,
            <<191,226,121,194,168,239,150,240>>, <<191,224,205,111,153,225,229,236>>, <<191,222,32,108,213,119,199,35>>, <<191,218,135,173,197,195,169,153>>,
            <<191,214,212,64,12,167,0,174>>, <<191,211,9,220,135,255,176,77>>, <<191,206,88,166,90,103,220,47>>, <<191,198,127,14,103,69,148,158>>,
            <<191,189,29,172,174,217,225,108>>, <<191,170,63,232,52,55,177,51>>, <<63,135,87,189,190,149,188,250>>, <<63,178,242,244,72,114,236,57>>,
            <<63,193,115,241,6,107,142,232>>, <<63,201,92,218,82,111,90,54>>, <<63,208,150,32,191,202,203,243>>, <<63,212,109,37,214,100,150,59>>,
            <<63,216,47,159,195,125,130,107>>, <<63,219,217,198,134,231,77,252>>, <<63,223,103,234,151,91,134,211>>, <<63,225,107,60,75,183,161,60>>,
            <<63,227,16,254,119,24,200,48>>, <<63,228,163,147,159,235,96,110>>, <<63,230,33,102,225,121,99,108>>, <<63,231,136,248,55,116,68,53>>,
            <<63,232,216,222,0,45,129,239>>, <<63,234,15,198,104,75,184,62>>, <<63,235,44,120,190,142,95,63>>, <<63,236,45,214,174,74,130,120>>,
            <<63,237,18,221,95,100,39,129>>, <<63,237,218,166,122,162,194,105>>, <<63,238,132,105,17,90,228,37>>, <<63,239,15,122,103,132,36,196>>,
            <<63,239,123,78,159,112,12,236>>, <<63,239,199,121,70,117,72,165>>, <<63,239,243,173,194,1,170,145>>, <<63,239,255,191,156,165,78,32>>,
            <<63,239,235,162,178,201,91,11>>, <<63,239,183,107,62,229,114,112>>, <<63,239,99,77,197,39,126,42>>, <<63,238,239,158,222,162,87,206>>,
            <<63,238,92,210,228,56,103,91>>, <<63,237,171,125,121,151,203,73>>, <<63,236,220,80,248,189,185,124>>, <<63,235,240,29,190,150,112,80>>,
            <<63,234,231,209,89,110,32,171>>, <<63,233,196,117,154,5,144,178>>, <<63,232,135,47,136,58,197,75>>, <<63,231,49,62,60,82,144,30>>,
            <<63,229,195,249,158,11,107,147>>, <<63,228,64,209,10,188,101,195>>, <<63,226,169,73,227,219,253,124>>, <<63,224,254,254,7,98,132,211>>,
            <<63,222,135,52,103,35,203,62>>, <<63,218,241,184,175,130,198,245>>, <<63,215,65,35,167,190,7,189>>, <<63,211,121,43,80,211,90,180>>,
            <<63,207,59,58,98,218,207,210>>, <<63,199,100,181,5,141,18,86>>, <<63,190,237,81,38,240,130,26>>, <<63,173,228,58,255,248,152,29>>,
            <<191,113,129,227,168,122,238,179>>, <<191,177,33,64,59,54,181,176>>, <<191,192,140,147,232,1,243,163>>, <<191,200,119,226,205,79,112,176>>,
            <<191,208,37,74,237,218,209,176>>, <<191,211,254,103,112,179,28,85>>, <<191,215,195,104,43,42,17,66>>, <<191,219,112,130,146,141,165,69>>,
            <<191,223,2,4,37,157,26,184>>, <<191,225,58,43,18,60,130,152>>, <<191,226,226,0,150,84,151,22>>, <<191,228,118,216,90,203,123,189>>,
            <<191,229,247,27,52,253,81,111>>, <<191,231,97,70,173,110,152,156>>, <<191,232,179,238,132,123,137,218>>, <<191,233,237,190,32,174,244,229>>,
            <<191,235,13,121,229,80,45,143>>, <<191,236,18,0,111,207,134,165>>, <<191,236,250,75,186,210,27,44>>, <<191,237,197,114,37,184,42,99>>,
            <<191,238,114,167,95,149,3,26>>, <<191,239,1,61,52,172,40,147>>, <<191,239,112,164,61,165,6,240>>, <<191,239,192,108,111,197,3,225>>,
            <<191,239,240,69,141,158,219,43>>, <<191,239,255,255,119,197,243,19>>, <<191,239,239,138,93,52,127,97>>, <<191,239,190,246,203,51,196,134>>,
            <<191,239,110,117,156,182,124,62>>, <<191,238,254,87,201,54,25,70>>, <<191,238,111,14,19,68,85,5>>, <<191,237,193,40,151,34,237,79>>,
            <<191,236,245,86,57,211,162,47>>, <<191,236,12,99,249,50,54,114>>, <<191,235,7,60,29,201,93,34>>, <<191,233,230,229,79,49,238,240>>,
            <<191,232,172,129,139,233,95,1>>, <<191,231,89,77,5,169,31,224>>, <<191,229,238,156,227,100,78,141>>, <<191,228,109,221,234,43,116,134>>,
            <<191,226,216,147,14,79,122,183>>, <<191,225,48,83,238,52,193,197>>, <<191,222,237,150,112,187,150,78>>, <<191,219,91,105,252,147,124,75>>,
            <<191,215,173,185,235,172,207,219>>, <<191,211,232,57,85,205,190,6>>, <<191,208,14,179,70,63,152,3>>, <<191,200,74,13,214,97,98,110>>,
            <<191,192,94,71,97,171,141,77>>, <<191,176,196,21,48,213,227,235>>, <<191,103,87,220,204,119,118,108>>, <<63,174,158,166,106,183,194,11>>,
            <<63,191,73,255,126,224,37,132>>, <<63,199,146,153,231,137,80,76>>, <<63,207,104,126,210,137,199,28>>, <<63,211,143,102,140,10,96,217>>,
            <<63,215,86,225,138,110,188,142>>, <<63,219,6,227,91,216,3,125>>, <<63,222,155,182,147,87,17,188>>, <<63,225,8,224,141,67,203,204>>,
            <<63,226,178,195,232,120,179,63>>, <<63,228,73,217,6,35,39,237>>, <<63,229,204,134,122,251,158,54>>, <<63,231,57,71,97,94,247,93>>,
            <<63,232,142,172,224,111,148,65>>, <<63,233,203,95,157,9,61,240>>, <<63,234,238,33,19,20,209,132>>, <<63,235,245,204,213,224,92,35>>,
            <<63,236,225,89,182,57,124,207>>, <<63,237,175,218,205,34,64,178>>, <<63,238,96,128,106,20,58,37>>, <<63,238,242,152,227,226,52,172>>,
            <<63,239,101,145,75,102,112,149>>, <<63,239,184,245,255,73,175,17>>, <<63,239,236,115,32,78,114,47>>, <<63,239,255,212,229,171,119,152>>,
            <<63,239,243,7,209,32,153,120>>, <<63,239,198,24,194,145,179,16>>, <<63,239,121,52,235,19,210,40>>, <<63,239,12,169,159,121,186,40>>,
            <<63,238,128,228,10,141,112,70>>, <<63,237,214,112,191,69,8,245>>, <<63,237,13,251,43,97,34,12>>, <<63,236,40,76,235,3,61,243>>,
            <<63,235,38,76,253,233,98,226>>, <<63,234,8,254,223,26,239,17>>, <<63,232,209,129,127,240,75,68>>, <<63,231,129,14,39,123,239,162>>,
            <<63,230,24,247,55,118,253,50>>, <<63,228,154,166,215,238,79,49>>, <<63,227,7,157,139,6,69,254>>, <<63,225,97,112,170,67,166,76>>,
            <<63,223,83,145,157,188,231,200>>, <<63,219,196,192,77,113,171,115>>, <<63,216,26,1,111,78,235,98>>, <<63,212,87,5,37,149,80,29>>,
            <<63,208,127,147,243,143,77,18>>, <<63,201,47,21,222,253,100,52>>, <<63,193,69,175,191,178,28,182>>, <<63,178,149,213,30,237,121,240>>,
            <<63,132,108,204,209,202,108,44>>, <<191,170,250,102,136,244,35,75>>, <<191,189,122,111,29,206,120,12>>, <<191,198,173,2,155,173,41,194>>,
            <<191,206,133,255,84,2,26,84>>, <<191,211,32,36,153,152,71,127>>, <<191,214,234,13,74,59,243,176>>, <<191,218,156,234,66,14,91,97>>,
            <<191,222,53,3,52,199,155,78>>, <<191,224,215,93,96,188,153,202>>, <<191,226,131,73,10,159,92,87>>, <<191,228,28,150,55,153,200,49>>,
            <<191,229,161,169,65,18,77,182>>, <<191,231,16,250,216,75,150,167>>, <<191,232,105,25,143,242,62,101>>, <<191,233,168,171,79,168,250,242>>,
            <<191,234,206,110,176,29,134,28>>, <<191,235,217,60,62,72,53,205>>, <<191,236,200,7,164,145,35,206>>, <<191,237,153,224,184,176,15,194>>,
            <<191,238,77,244,109,55,141,110>>, <<191,238,227,141,165,216,144,111>>, <<191,239,90,21,237,136,217,242>>, <<191,239,177,22,13,213,24,89>>,
            <<191,239,232,54,134,198,133,183>>, <<191,239,255,63,230,227,112,251>>, <<191,239,246,27,2,242,47,101>>, <<191,239,204,209,13,70,97,130>>,
            <<191,239,131,139,140,129,28,14>>, <<191,239,26,148,49,205,66,133>>, <<191,238,146,84,142,194,19,134>>, <<191,237,235,85,171,54,114,188>>,
            <<191,237,38,63,123,111,184,47>>, <<191,236,67,216,55,54,159,182>>, <<191,235,69,3,146,124,62,131>>, <<191,234,42,193,216,87,124,71>>,
            <<191,232,246,46,233,65,99,248>>, <<191,231,168,129,29,147,137,129>>, <<191,230,67,8,13,103,172,145>>, <<191,228,199,43,63,18,128,137>>,
            <<191,227,54,104,189,141,13,197>>, <<191,225,146,83,152,56,91,75>>, <<191,223,185,36,154,251,154,67>>, <<191,220,45,186,67,199,211,227>>,
            <<191,216,133,248,202,133,210,199>>, <<191,212,197,141,79,172,183,156>>, <<191,208,240,61,193,242,246,85>>, <<191,202,19,202,37,168,161,247>>,
            <<191,194,44,222,171,236,68,242>>, <<191,180,103,87,61,65,93,87>>, <<191,145,129,175,65,43,117,212>>, <<63,167,85,204,237,164,162,163>>,
            <<63,187,170,124,178,139,144,103>>, <<63,197,199,31,229,79,231,162>>, <<63,205,163,26,81,106,37,89>>, <<63,210,176,163,11,99,14,79>>,
            <<63,214,124,236,212,132,76,1>>, <<63,218,50,152,165,163,150,90>>, <<63,221,205,235,95,127,118,166>>, <<63,224,165,162,49,82,116,120>>,
            <<63,226,83,144,154,177,166,237>>, <<63,227,239,16,133,183,42,195>>, <<63,229,118,132,21,208,130,227>>, <<63,230,232,97,152,59,141,194>>,
            <<63,232,67,53,15,251,200,131>>, <<63,233,133,161,171,249,227,251>>, <<63,234,174,99,37,213,103,31>>, <<63,235,188,79,8,7,141,40>>,
            <<63,236,174,85,218,15,89,244>>, <<63,237,131,132,49,121,0,149>>, <<63,238,59,3,166,174,3,4>>, <<63,238,212,27,172,151,212,6>>,
            <<63,239,78,50,74,60,28,7>>, <<63,239,168,204,181,151,241,102>>, <<63,239,227,143,207,30,72,219>>, <<63,239,254,64,125,93,103,205>>,
            <<63,239,248,195,232,111,44,227>>, <<63,239,211,31,148,248,103,205>>, <<63,239,141,121,94,156,24,158>>, <<63,239,40,23,81,232,44,41>>,
            <<63,238,163,95,101,226,0,5>>, <<63,237,255,215,21,121,137,211>>, <<63,237,62,34,217,74,68,84>>, <<63,236,95,5,130,48,231,240>>,
            <<63,235,99,95,117,92,76,7>>, <<63,234,76,45,202,158,125,6>>, <<63,233,26,137,77,225,7,116>>, <<63,231,207,165,100,188,116,39>>,
            <<63,230,108,206,217,78,254,242>>, <<63,228,243,106,139,137,123,48>>, <<63,227,100,244,10,66,253,20>>, <<63,225,194,252,21,124,75,90>>,
            <<63,224,15,39,11,83,3,148>>, <<63,220,150,86,130,115,153,14>>, <<63,216,241,158,150,61,153,67>>, <<63,213,51,208,100,119,149,253>>,
            <<63,209,96,175,58,183,126,216>>, <<63,202,248,39,177,193,60,65>>, <<63,195,19,209,37,121,100,191>>, <<63,182,56,149,127,157,110,151>>,
            <<63,152,204,189,224,26,40,7>>, <<191,163,176,229,182,117,160,134>>, <<191,185,218,46,68,26,60,124>>, <<191,196,224,244,193,1,70,189>>,
            <<191,204,191,210,189,95,8,184>>, <<191,210,64,227,84,68,131,192>>, <<191,214,15,129,148,55,209,172>>, <<191,217,199,239,232,48,249,125>>,
            <<191,221,102,112,106,93,133,100>>, <<191,224,115,175,164,107,45,90>>, <<191,226,35,155,55,101,108,1>>, <<191,227,193,72,135,225,147,78>>,
            <<191,229,75,23,136,180,165,238>>, <<191,230,191,124,40,53,24,41>>, <<191,232,28,255,222,146,117,105>>, <<191,233,98,67,38,131,131,52>>,
            <<191,234,141,254,222,208,18,87>>, <<191,235,159,5,147,82,228,121>>, <<191,236,148,68,172,40,196,254>>, <<191,237,108,197,129,219,233,21>>,
            <<191,238,39,174,85,117,212,128>>, <<191,238,196,67,43,126,67,10>>, <<191,239,65,230,137,10,217,197>>, <<191,239,160,26,18,33,119,248>>,
            <<191,239,222,127,8,205,220,177>>, <<191,239,252,214,172,106,209,133>>, <<191,239,251,2,120,191,5,103>>, <<191,239,217,4,68,174,28,226>>,
            <<191,239,150,254,64,95,26,200>>, <<191,239,53,50,210,217,252,127>>, <<191,238,180,4,87,63,32,81>>, <<191,238,19,244,185,219,158,77>>,
            <<191,237,85,164,245,126,19,196>>, <<191,236,121,212,113,143,72,159>>, <<191,235,129,96,65,145,136,127>>, <<191,234,109,66,70,200,71,10>>,
            <<191,233,62,144,52,231,175,242>>, <<191,231,246,122,122,200,229,164>>, <<191,230,150,75,16,59,212,108>>, <<191,229,31,100,42,42,134,12>>,
            <<191,227,147,62,214,91,194,40>>, <<191,225,243,105,128,59,59,250>>, <<191,224,65,134,96,36,184,38>>, <<191,220,254,147,173,138,80,134>>,
            <<191,217,92,241,108,113,145,245>>, <<191,213,161,204,245,63,80,135>>, <<191,209,208,230,231,229,46,18>>, <<191,203,220,43,139,197,188,225>>,
            <<191,195,250,132,44,65,235,6>>, <<191,184,9,137,218,175,72,102>>, <<191,160,11,189,2,21,165,176>>, <<63,160,11,189,2,21,162,167>>,
            <<63,184,9,137,218,175,70,228>>, <<63,195,250,132,44,65,236,64>>, <<63,203,220,43,139,197,190,23>>, <<63,209,208,230,231,229,46,170>>,
            <<63,213,161,204,245,63,80,43>>, <<63,217,92,241,108,113,146,135>>, <<63,220,254,147,173,138,80,48>>, <<63,224,65,134,96,36,184,107>>,
            <<63,225,243,105,128,59,60,165>>, <<63,227,147,62,214,91,194,103>>, <<63,229,31,100,42,42,134,72>>, <<63,230,150,75,16,59,212,74>>,
            <<63,231,246,122,122,200,229,132>>, <<63,233,62,144,52,231,175,212>>, <<63,234,109,66,70,200,71,55>>, <<63,235,129,96,65,145,136,168>>,
            <<63,236,121,212,113,143,72,196>>, <<63,237,85,164,245,126,19,177>>, <<63,238,19,244,185,219,158,61>>, <<63,238,180,4,87,63,32,68>>,
            <<63,239,53,50,210,217,252,144>>, <<63,239,150,254,64,95,26,212>>, <<63,239,217,4,68,174,28,234>>, <<63,239,251,2,120,191,5,105>>,
            <<63,239,252,214,172,106,209,134>>, <<63,239,222,127,8,205,220,181>>, <<63,239,160,26,18,33,120,0>>, <<63,239,65,230,137,10,217,180>>,
            <<63,238,196,67,43,126,66,244>>, <<63,238,39,174,85,117,212,102>>, <<63,237,108,197,129,219,232,246>>, <<63,236,148,68,172,40,196,219>>,
            <<63,235,159,5,147,82,228,146>>, <<63,234,141,254,222,208,18,114>>, <<63,233,98,67,38,131,131,81>>, <<63,232,28,255,222,146,117,52>>,
            <<63,230,191,124,40,53,23,241>>, <<63,229,75,23,136,180,165,179>>, <<63,227,193,72,135,225,147,116>>, <<63,226,35,155,55,101,108,41>>,
            <<63,224,115,175,164,107,45,22>>, <<63,221,102,112,106,93,132,215>>, <<63,217,199,239,232,48,248,235>>, <<63,214,15,129,148,55,209,23>>,
            <<63,210,64,227,84,68,131,40>>, <<63,204,191,210,189,95,9,117>>, <<63,196,224,244,193,1,71,124>>, <<63,185,218,46,68,26,61,254>>,
            <<63,163,176,229,182,117,155,143>>, <<191,152,204,189,224,26,49,245>>, <<191,182,56,149,127,157,113,16>>, <<191,195,19,209,37,121,101,249>>,
            <<191,202,248,39,177,193,59,131>>, <<191,209,96,175,58,183,127,113>>, <<191,213,51,208,100,119,149,162>>, <<191,216,241,158,150,61,153,213>>,
            <<191,220,150,86,130,115,153,156>>, <<191,224,15,39,11,83,3,216>>, <<191,225,194,252,21,124,75,49>>, <<191,227,100,244,10,66,252,237>>,
            <<191,228,243,106,139,137,123,12>>, <<191,230,108,206,217,78,255,43>>, <<191,231,207,165,100,188,116,93>>, <<191,233,26,137,77,225,7,166>>,
            <<191,234,76,45,202,158,125,51>>, <<191,235,99,95,117,92,75,238>>, <<191,236,95,5,130,48,232,20>>, <<191,237,62,34,217,74,68,64>>,
            <<191,237,255,215,21,121,137,239>>, <<191,238,163,95,101,226,0,65>>, <<191,239,40,23,81,232,44,59>>, <<191,239,141,121,94,156,24,150>>,
            <<191,239,211,31,148,248,103,200>>, <<191,239,248,195,232,111,44,225>>, <<191,239,254,64,125,93,103,206>>, <<191,239,227,143,207,30,72,212>>,
            <<191,239,168,204,181,151,241,91>>, <<191,239,78,50,74,60,27,246>>, <<191,238,212,27,172,151,212,19>>, <<191,238,59,3,166,174,3,20>>,
            <<191,237,131,132,49,121,0,168>>, <<191,236,174,85,218,15,89,237>>, <<191,235,188,79,8,7,140,225>>, <<191,234,174,99,37,213,102,243>>,
            <<191,233,133,161,171,249,227,203>>, <<191,232,67,53,15,251,200,162>>, <<191,230,232,97,152,59,141,228>>, <<191,229,118,132,21,208,130,216>>,
            <<191,227,239,16,133,183,42,183>>, <<191,226,83,144,154,177,166,224>>, <<191,224,165,162,49,82,116,53>>, <<191,221,205,235,95,127,118,252>>,
            <<191,218,50,152,165,163,150,179>>, <<191,214,124,236,212,132,75,228>>, <<191,210,176,163,11,99,14,49>>, <<191,205,163,26,81,106,37,28>>,
            <<191,197,199,31,229,79,231,101>>, <<191,187,170,124,178,139,141,239>>, <<191,167,85,204,237,164,157,172>>, <<63,145,129,175,65,43,111,196>>,
            <<63,180,103,87,61,65,93,210>>, <<63,194,44,222,171,236,69,47>>, <<63,202,19,202,37,168,162,52>>, <<63,208,240,61,193,242,246,238>>,
            <<63,212,197,141,79,172,184,50>>, <<63,216,133,248,202,133,211,90>>, <<63,220,45,186,67,199,211,140>>, <<63,223,185,36,154,251,154,94>>,
            <<63,225,146,83,152,56,91,88>>, <<63,227,54,104,189,141,13,209>>, <<63,228,199,43,63,18,128,198>>, <<63,230,67,8,13,103,172,202>>,
            <<63,231,168,129,29,147,137,96>>, <<63,232,246,46,233,65,100,2>>, <<63,234,42,193,216,87,124,153>>, <<63,235,69,3,146,124,62,139>>,
            <<63,236,67,216,55,54,159,189>>, <<63,237,38,63,123,111,184,79>>, <<63,237,235,85,171,54,114,216>>, <<63,238,146,84,142,194,19,120>>,
            <<63,239,26,148,49,205,66,136>>, <<63,239,131,139,140,129,28,16>>, <<63,239,204,209,13,70,97,132>>, <<63,239,246,27,2,242,47,105>>,
            <<63,239,255,63,230,227,112,250>>, <<63,239,232,54,134,198,133,177>>, <<63,239,177,22,13,213,24,87>>, <<63,239,90,21,237,136,217,226>>,
            <<63,238,227,141,165,216,144,107>>, <<63,238,77,244,109,55,141,105>>, <<63,237,153,224,184,176,15,140>>, <<63,236,200,7,164,145,35,171>>,
            <<63,235,217,60,62,72,53,229>>, <<63,234,206,110,176,29,134,20>>, <<63,233,168,171,79,168,250,233>>, <<63,232,105,25,143,242,62,91>>,
            <<63,231,16,250,216,75,150,112>>, <<63,229,161,169,65,18,77,170>>, <<63,228,28,150,55,153,199,243>>, <<63,226,131,73,10,159,92,126>>,
            <<63,224,215,93,96,188,153,243>>, <<63,222,53,3,52,199,155,51>>, <<63,218,156,234,66,14,91,69>>, <<63,214,234,13,74,59,242,164>>,
            <<63,211,32,36,153,152,70,231>>, <<63,206,133,255,84,2,27,16>>, <<63,198,173,2,155,173,41,133>>, <<63,189,122,111,29,206,119,145>>,
            <<63,170,250,102,136,244,34,84>>, <<191,132,108,204,209,202,112,10>>, <<191,178,149,213,30,237,122,107>>, <<191,193,69,175,191,178,29,241>>,
            <<191,201,47,21,222,253,99,117>>, <<191,208,127,147,243,143,76,180>>, <<191,212,87,5,37,149,80,58>>, <<191,216,26,1,111,78,235,127>>,
            <<191,219,196,192,77,113,171,143>>, <<191,223,83,145,157,188,232,83>>, <<191,225,97,112,170,67,166,143>>, <<191,227,7,157,139,6,70,62>>,
            <<191,228,154,166,215,238,79,12>>, <<191,230,24,247,55,118,253,62>>, <<191,231,129,14,39,123,239,173>>, <<191,232,209,129,127,240,75,78>>,
            <<191,234,8,254,223,26,239,63>>, <<191,235,38,76,253,233,98,201>>, <<191,236,40,76,235,3,61,220>>, <<191,237,13,251,43,97,34,18>>,
            <<191,237,214,112,191,69,8,251>>, <<191,238,128,228,10,141,112,75>>, <<191,239,12,169,159,121,186,44>>, <<191,239,121,52,235,19,210,55>>,
            <<191,239,198,24,194,145,179,26>>, <<191,239,243,7,209,32,153,117>>, <<191,239,255,212,229,171,119,152>>, <<191,239,236,115,32,78,114,37>>,
            <<191,239,184,245,255,73,175,15>>, <<191,239,101,145,75,102,112,134>>, <<191,238,242,152,227,226,52,185>>, <<191,238,96,128,106,20,58,12>>,
            <<191,237,175,218,205,34,64,196>>, <<191,236,225,89,182,57,124,200>>, <<191,235,245,204,213,224,92,28>>, <<191,234,238,33,19,20,209,124>>,
            <<191,233,203,95,157,9,61,193>>, <<191,232,142,172,224,111,148,14>>, <<191,231,57,71,97,94,247,126>>, <<191,229,204,134,122,251,158,43>>,
            <<191,228,73,217,6,35,39,126>>, <<191,226,178,195,232,120,179,50>>, <<191,225,8,224,141,67,203,191>>, <<191,222,155,182,147,87,16,192>>,
            <<191,219,6,227,91,216,2,237>>, <<191,215,86,225,138,110,188,232>>, <<191,211,143,102,140,10,96,187>>, <<191,207,104,126,210,137,198,224>>,
            <<191,199,146,153,231,137,80,16>>, <<191,191,73,255,126,224,35,13>>, <<191,174,158,166,106,183,189,22>>, <<63,103,87,220,204,119,69,227>>,
            <<63,176,196,21,48,213,228,103>>, <<63,192,94,71,97,171,140,140>>, <<63,200,74,13,214,97,98,170>>, <<63,208,14,179,70,63,152,33>>,
            <<63,211,232,57,85,205,191,23>>, <<63,215,173,185,235,172,208,111>>, <<63,219,91,105,252,147,123,243>>, <<63,222,237,150,112,187,150,105>>,
            <<63,225,48,83,238,52,193,210>>, <<63,226,216,147,14,79,122,196>>, <<63,228,109,221,234,43,116,195>>, <<63,229,238,156,227,100,78,152>>,
            <<63,231,89,77,5,169,32,23>>, <<63,232,172,129,139,233,94,226>>, <<63,233,230,229,79,49,238,211>>, <<63,235,7,60,29,201,93,42>>,
            <<63,236,12,99,249,50,54,121>>, <<63,236,245,86,57,211,162,54>>, <<63,237,193,40,151,34,237,108>>, <<63,238,111,14,19,68,84,246>>,
            <<63,238,254,87,201,54,25,89>>, <<63,239,110,117,156,182,124,65>>, <<63,239,190,246,203,51,196,136>>, <<63,239,239,138,93,52,127,98>>,
            <<63,239,255,255,119,197,243,19>>, <<63,239,240,69,141,158,219,38>>, <<63,239,192,108,111,197,3,231>>, <<63,239,112,164,61,165,6,249>>,
            <<63,239,1,61,52,172,40,143>>, <<63,238,114,167,95,149,3,22>>, <<63,237,197,114,37,184,42,93>>, <<63,236,250,75,186,210,27,10>>,
            <<63,236,18,0,111,207,134,127>>, <<63,235,13,121,229,80,45,101>>, <<63,233,237,190,32,174,245,1>>, <<63,232,179,238,132,123,137,208>>,
            <<63,231,97,70,173,110,152,58>>, <<63,229,247,27,52,253,81,100>>, <<63,228,118,216,90,203,123,128>>, <<63,226,226,0,150,84,151,62>>,
            <<63,225,58,43,18,60,130,193>>, <<63,223,2,4,37,157,26,157>>, <<63,219,112,130,146,141,165,41>>, <<63,215,195,104,43,42,17,38>>,
            <<63,211,254,103,112,179,28,55>>, <<63,208,37,74,237,218,209,22>>, <<63,200,119,226,205,79,111,120>>, <<63,192,140,147,232,1,244,100>>,
            <<63,177,33,64,59,54,181,53>>, <<63,113,129,227,168,122,166,247>>, <<191,173,228,58,255,248,153,20>>, <<191,190,237,81,38,240,132,145>>,
            <<191,199,100,181,5,141,19,142>>, <<191,207,59,58,98,218,209,6>>, <<191,211,121,43,80,211,90,88>>, <<191,215,65,35,167,190,7,218>>,
            <<191,218,241,184,175,130,199,17>>, <<191,222,135,52,103,35,203,89>>, <<191,224,254,254,7,98,133,23>>, <<191,226,169,73,227,219,253,188>>,
            <<191,228,64,209,10,188,101,157>>, <<191,229,195,249,158,11,107,159>>, <<191,231,49,62,60,82,144,41>>, <<191,232,135,47,136,58,197,85>>,
            <<191,233,196,117,154,5,144,225>>, <<191,234,231,209,89,110,32,249>>, <<191,235,240,29,190,150,112,119>>, <<191,236,220,80,248,189,185,103>>,
            <<191,237,171,125,121,151,203,103>>, <<191,238,92,210,228,56,103,96>>, <<191,238,239,158,222,162,87,210>>, <<191,239,99,77,197,39,126,58>>,
            <<191,239,183,107,62,229,114,123>>, <<191,239,235,162,178,201,91,8>>, <<191,239,255,191,156,165,78,32>>, <<191,239,243,173,194,1,170,148>>,
            <<191,239,199,121,70,117,72,163>>, <<191,239,123,78,159,112,12,233>>, <<191,239,15,122,103,132,36,193>>, <<191,238,132,105,17,90,228,13>>,
            <<191,237,218,166,122,162,194,123>>, <<191,237,18,221,95,100,39,96>>, <<191,236,45,214,174,74,130,112>>, <<191,235,44,120,190,142,95,55>>,
            <<191,234,15,198,104,75,184,16>>, <<191,232,216,222,0,45,129,189>>, <<191,231,136,248,55,116,67,255>>, <<191,230,33,102,225,121,99,143>>,
            <<191,228,163,147,159,235,96,147>>, <<191,227,16,254,119,24,200,35>>, <<191,225,107,60,75,183,161,47>>, <<191,223,103,234,151,91,134,184>>,
            <<191,219,217,198,134,231,77,109>>, <<191,216,47,159,195,125,130,196>>, <<191,212,109,37,214,100,150,151>>, <<191,208,150,32,191,202,203,213>>,
            <<191,201,92,218,82,111,89,249>>, <<191,193,115,241,6,107,140,175>>, <<191,178,242,244,72,114,235,190>>, <<191,135,87,189,190,149,169,29>>,
            <<63,170,63,232,52,55,174,44>>, <<63,189,29,172,174,217,223,234>>, <<63,198,127,14,103,69,148,219>>, <<63,206,88,166,90,103,220,107>>,
            <<63,211,9,220,135,255,176,106>>, <<63,214,212,64,12,167,1,66>>, <<63,218,135,173,197,195,170,42>>, <<63,222,32,108,213,119,199,175>>,
            <<63,224,205,111,153,225,229,195>>, <<63,226,121,194,168,239,150,252>>, <<63,228,19,128,207,117,144,216>>, <<63,229,153,13,245,58,183,80>>,
            <<63,231,8,226,80,177,250,115>>, <<63,232,97,139,241,3,145,59>>, <<63,233,161,176,50,29,106,104>>, <<63,234,200,13,25,84,151,73>>,
            <<63,235,211,122,153,57,19,60>>, <<63,236,194,235,187,86,56,194>>, <<63,237,149,111,174,180,108,224>>, <<63,238,74,50,186,11,239,210>>,
            <<63,238,224,127,16,181,64,131>>, <<63,239,87,189,137,128,230,185>>, <<63,239,175,118,54,190,191,104>>, <<63,239,231,80,222,219,229,139>>,
            <<63,239,255,21,85,29,232,152>>, <<63,239,246,171,178,34,17,101>>, <<63,239,206,28,107,231,228,246>>, <<63,239,133,144,77,78,182,4>>,
            <<63,239,29,80,77,14,213,85>>, <<63,238,149,197,68,87,162,131>>, <<63,237,239,119,133,92,77,56>>, <<63,237,43,14,82,57,81,203>>,
            <<63,236,73,79,52,188,153,69>>, <<63,235,75,29,55,185,104,67>>, <<63,234,49,120,2,175,237,233>>, <<63,232,253,122,216,174,28,16>>,
            <<63,231,176,91,123,108,97,82>>, <<63,230,75,104,243,196,199,17>>, <<63,228,208,10,64,189,205,149>>, <<63,227,63,188,238,123,227,39>>,
            <<63,225,156,19,150,132,153,218>>, <<63,223,205,104,149,171,34,76>>, <<63,220,66,173,218,204,138,135>>, <<63,216,155,134,235,127,125,225>>,
            <<63,212,219,160,76,206,16,221>>, <<63,209,6,191,103,207,89,88>>, <<63,202,65,125,125,103,135,194>>, <<63,194,91,20,25,50,160,32>>,
            <<63,180,196,105,80,54,82,195>>, <<63,146,247,30,3,77,38,152>>, <<191,166,155,62,27,41,243,69>>, <<191,187,77,167,97,18,195,92>>,
            <<191,197,153,28,247,82,199,111>>, <<191,205,117,173,100,182,37,218>>, <<191,210,154,78,109,131,177,199>>, <<191,214,103,16,132,141,99,245>>,
            <<191,218,29,74,160,4,71,197>>, <<191,221,185,65,17,139,121,86>>, <<191,224,155,169,74,131,219,182>>, <<191,226,73,253,251,156,120,197>>,
            <<191,227,229,237,207,11,105,43>>, <<191,229,109,218,119,177,85,69>>, <<191,230,224,57,201,1,160,0>>, <<191,232,59,151,67,114,36,87>>,
            <<191,233,126,149,139,30,23,94>>, <<191,234,167,239,199,35,70,46>>, <<191,235,182,122,232,88,76,197>>, <<191,236,169,38,214,19,44,218>>,
            <<191,237,126,255,127,209,202,171>>, <<191,238,55,45,210,177,14,135>>, <<191,238,208,248,145,187,206,172>>, <<191,239,75,197,16,55,245,8>>,
            <<191,239,167,23,205,54,128,24>>, <<191,239,226,148,239,201,235,229>>, <<191,239,254,0,163,102,20,178>>, <<191,239,249,63,84,12,173,156>>,
            <<191,239,212,85,202,9,196,122>>, <<191,239,143,105,37,36,111,3>>, <<191,239,42,190,183,72,119,5>>, <<191,238,166,187,190,206,146,123>>,
            <<191,238,3,229,0,169,71,56>>, <<191,237,66,222,66,220,225,37>>, <<191,236,100,105,167,200,199,196>>, <<191,235,105,102,234,231,220,159>>,
            <<191,234,82,210,127,204,65,45>>, <<191,233,33,196,148,56,207,176>>, <<191,231,215,111,246,87,168,245>>, <<191,230,117,32,224,41,56,79>>,
            <<191,228,252,59,169,98,6,161>>, <<191,227,110,59,97,7,107,20>>, <<191,225,204,176,80,51,138,69>>, <<191,224,25,62,103,128,14,82>>,
            <<191,220,171,55,49,88,250,247>>, <<191,217,7,28,60,81,244,83>>, <<191,213,73,213,100,128,194,67>>, <<191,209,119,37,111,90,126,44>>,
            <<191,203,37,201,85,206,251,153>>, <<191,195,65,250,31,157,243,62>>, <<191,182,149,153,70,120,84,38>>, <<191,154,66,30,19,254,24,28>>,
            <<63,162,246,72,210,178,173,161>>, <<63,185,125,71,68,220,185,186>>, <<63,196,178,227,178,117,98,28>>, <<63,204,146,82,116,165,43,34>>,
            <<63,210,42,130,116,98,230,125>>, <<63,213,249,150,122,147,95,71>>, <<63,217,178,144,160,24,60,190>>, <<63,221,81,178,114,128,10,182>>,
            <<63,224,105,171,190,211,54,91>>, <<63,226,25,252,122,193,50,17>>, <<63,227,184,24,161,16,115,104>>, <<63,229,66,95,181,29,78,237>>,
            <<63,230,183,69,44,122,143,26>>, <<63,232,21,81,253,194,143,69>>, <<63,233,91,38,25,199,181,163>>, <<63,234,135,121,205,168,238,162>>,
            <<63,235,153,31,12,102,20,218>>, <<63,236,143,2,158,168,196,212>>, <<63,237,104,45,55,144,25,126>>, <<63,238,35,196,109,104,239,102>>,
            <<63,238,193,11,149,88,134,146>>, <<63,239,63,100,129,28,151,166>>, <<63,239,158,80,30,34,3,162>>, <<63,239,221,110,245,82,31,7>>,
            <<63,239,252,129,139,22,15,172>>, <<63,239,251,104,159,47,171,4>>, <<63,239,218,37,76,39,160,19>>, <<63,239,152,217,6,49,79,150>>,
            <<63,239,55,197,121,133,112,74>>, <<63,238,183,76,72,85,86,149>>, <<63,238,23,238,168,153,76,197>>, <<63,237,90,76,226,28,190,181>>,
            <<63,236,127,37,173,74,234,59>>, <<63,235,135,85,115,94,53,210>>, <<63,234,115,213,112,179,24,5>>, <<63,233,69,186,186,29,127,45>>,
            <<63,231,254,53,38,60,220,244>>, <<63,230,158,142,27,231,14,92>>, <<63,229,40,39,70,221,131,46>>, <<63,227,156,121,52,25,204,233>>,
            <<63,225,253,17,215,23,89,2>>, <<63,224,75,146,249,151,53,75>>, <<63,221,19,97,46,224,214,49>>, <<63,217,114,94,80,39,11,203>>,
            <<63,213,183,195,174,244,148,194>>, <<63,209,231,81,96,154,140,12>>, <<63,204,9,186,228,95,33,230>>, <<63,196,40,160,25,191,91,212>>,
            <<63,184,102,126,32,22,15,138>>, <<63,160,198,99,104,4,44,83>>, <<191,158,162,40,243,94,96,115>>, <<191,183,172,146,98,167,95,136>>,
            <<191,195,204,101,150,93,4,40>>, <<191,203,174,152,126,90,67,243>>, <<191,209,186,122,16,110,155,83>>, <<191,213,139,211,90,210,233,123>>,
            <<191,217,71,129,40,243,249,215>>, <<191,220,233,194,80,191,109,132>>, <<191,224,55,119,157,18,124,230>>, <<191,225,233,190,198,6,158,153>>,
            <<191,227,138,1,221,243,78,4>>, <<191,229,22,158,62,25,181,185>>, <<191,230,142,5,3,82,219,254>>, <<191,231,238,188,159,60,237,165>>,
            <<191,233,55,98,83,244,99,250>>, <<191,234,102,171,152,219,42,243>>, <<191,235,123,103,103,6,237,84>>, <<191,236,116,127,108,8,53,93>>,
            <<191,237,80,249,33,213,207,209>>, <<191,238,15,246,202,194,245,55>>, <<191,238,176,184,80,130,201,201>>, <<191,239,50,156,5,88,233,126>>,
            <<191,239,149,31,70,180,182,240>>, <<191,239,215,223,0,147,223,234>>, <<191,239,250,152,17,39,245,209>>, <<191,239,253,39,140,90,224,2>>,
            <<191,239,223,138,222,238,67,0>>, <<191,239,161,223,209,18,135,55>>, <<191,239,68,100,104,114,229,206>>, <<191,238,199,118,169,212,155,33>>,
            <<191,238,43,148,58,135,250,10>>, <<191,237,113,89,226,10,125,145>>, <<191,236,153,130,236,88,236,2>>, <<191,235,164,232,109,144,35,31>>,
            <<191,234,148,128,103,154,3,86>>, <<191,233,105,92,210,194,10,111>>, <<191,232,36,170,138,42,116,50>>, <<191,230,199,176,29,55,8,106>>,
            <<191,229,83,204,135,29,220,144>>, <<191,227,202,117,205,232,100,16>>, <<191,226,45,55,138,71,206,249>>, <<191,224,125,177,89,183,17,222>>,
            <<191,221,123,42,120,245,109,89>>, <<191,217,221,75,194,69,186,165>>, <<191,214,37,105,190,140,236,220>>, <<191,210,87,65,198,127,12,136>>,
            <<191,204,237,79,50,253,183,179>>, <<191,197,15,3,8,125,175,16>>, <<191,186,55,17,210,230,119,216>>, <<191,164,107,127,251,156,77,39>>,
            <<63,151,87,90,95,157,24,63>>, <<63,181,219,142,195,252,62,143>>, <<63,194,229,165,161,158,56,232>>, <<63,202,202,130,119,54,216,204>>,
            <<63,209,74,54,182,65,14,30>>, <<63,213,29,200,146,89,13,67>>, <<63,216,220,29,158,168,52,223>>, <<63,220,129,114,5,247,225,76>>,
            <<63,224,5,13,140,57,190,249>>, <<63,225,185,69,125,221,209,199>>, <<63,227,91,170,30,252,180,143>>, <<63,228,234,150,164,44,193,197>>,
            <<63,230,100,121,214,187,225,28>>, <<63,231,199,215,168,51,190,199>>, <<63,233,19,74,176,150,184,152>>, <<63,234,69,133,149,213,6,3>>,
            <<63,235,93,84,91,16,156,24>>, <<63,236,89,157,150,94,151,188>>, <<63,237,57,99,139,206,171,46>>, <<63,237,251,197,44,155,229,99>>,
            <<63,238,159,254,249,134,39,8>>, <<63,239,37,107,199,112,167,111>>, <<63,239,139,133,101,127,195,59>>, <<63,239,209,229,36,15,6,52>>,
            <<63,239,248,68,59,247,177,237>>, <<63,239,254,124,21,191,229,75>>, <<63,239,228,134,112,106,202,170>>, <<63,239,170,125,103,194,197,138>>,
            <<63,239,80,155,90,23,74,244>>, <<63,238,215,58,173,136,206,12>>, <<63,238,62,213,117,29,202,111>>, <<63,237,136,4,245,252,94,0>>,
            <<63,236,179,129,13,67,235,193>>, <<63,235,194,31,119,33,210,20>>, <<63,234,180,210,247,219,45,79>>, <<63,233,140,170,103,163,218,247>>,
            <<63,232,74,207,162,56,74,165>>, <<63,230,240,134,91,76,24,94>>, <<63,229,127,42,216,250,175,253>>, <<63,227,248,48,149,129,117,238>>,
            <<63,226,93,32,201,163,174,144>>, <<63,224,175,152,225,47,239,166>>, <<63,221,226,145,182,105,175,232>>, <<63,218,71,227,47,14,115,125>>,
            <<63,214,146,198,38,157,105,135>>, <<63,210,198,245,44,189,139,89>>, <<63,205,208,131,76,198,144,115>>, <<63,197,245,31,237,158,194,163>>,
            <<63,188,7,78,85,206,85,155>>, <<63,168,16,88,165,103,108,149>>, <<191,144,12,62,42,210,124,78>>, <<191,180,10,66,115,106,185,172>>,
            <<191,193,254,166,211,168,149,250>>, <<191,201,230,19,85,206,120,142>>, <<191,208,217,185,219,56,146,185>>, <<191,212,175,119,143,33,43,171>>,
            <<191,216,112,103,102,93,62,117>>, <<191,220,24,194,237,23,116,224>>, <<191,223,164,220,103,232,219,55>>, <<191,225,136,145,67,126,5,61>>,
            <<191,227,45,17,254,77,129,227>>, <<191,228,190,73,121,197,240,36>>, <<191,230,58,164,48,224,115,72>>, <<191,231,160,163,154,2,58,231>>,
            <<191,232,238,223,167,184,53,136>>, <<191,234,36,8,50,213,147,64>>, <<191,235,62,230,76,136,226,94>>, <<191,236,62,93,119,19,195,166>>,
            <<191,237,33,108,195,234,175,144>>, <<191,237,231,47,214,29,11,16>>, <<191,238,142,223,200,1,165,153>>, <<191,239,23,211,243,64,163,244>>,
            <<191,239,129,130,154,113,169,44>>, <<191,239,203,129,115,163,162,188>>, <<191,239,245,134,19,66,232,66>>, <<191,239,255,102,54,242,41,62>>,
            <<191,239,233,23,240,10,226,205>>, <<191,239,178,177,173,154,158,75>>, <<191,239,92,106,37,210,236,227>>, <<191,238,230,152,31,2,209,169>>,
            <<191,238,81,178,24,80,240,232>>, <<191,237,158,77,210,142,75,78>>, <<191,236,205,31,185,153,97,146>>, <<191,235,222,250,46,233,56,44>>,
            <<191,234,212,204,181,246,193,89>>, <<191,233,175,163,3,89,113,18>>, <<191,232,112,163,239,137,74,83>>, <<191,231,25,16,78,85,39,179>>,
            <<191,229,170,65,172,55,129,190>>, <<191,228,37,168,242,206,50,127>>, <<191,226,140,204,245,210,200,160>>, <<191,224,225,72,234,8,130,67>>,
            <<191,222,73,149,143,86,167,162>>, <<191,218,178,35,51,255,190,113>>, <<191,214,255,215,123,110,155,111>>, <<191,211,54,106,31,214,119,32>>,
            <<191,206,179,84,62,21,126,220>>, <<191,198,218,243,203,209,87,58>>, <<191,189,215,45,160,212,129,147>>, <<191,171,180,225,70,231,118,236>>,
            <<63,129,129,217,45,99,137,107>>, <<63,178,56,179,124,116,5,38>>, <<63,193,23,108,44,188,175,39>>, <<63,201,1,78,17,221,17,22>>,
            <<63,208,105,4,245,114,190,10>>, <<63,212,64,225,192,16,50,107>>, <<63,216,4,95,230,78,99,167>>, <<63,219,175,182,98,71,136,22>>,
            <<63,223,63,52,121,62,90,85>>, <<63,225,87,162,184,226,124,132>>, <<63,226,254,58,22,220,177,28>>, <<63,228,145,183,82,60,22,43>>,
            <<63,230,16,132,156,227,22,138>>, <<63,231,121,32,247,10,165,77>>, <<63,232,202,33,178,119,186,174>>, <<63,234,2,51,223,62,125,35>>,
            <<63,235,32,29,160,164,49,84>>, <<63,236,34,191,104,201,39,6>>, <<63,237,9,21,25,221,32,179>>, <<63,237,210,55,11,187,88,202>>,
            <<63,238,125,90,244,231,12,48>>, <<63,239,9,212,181,254,53,48>>, <<63,239,119,23,6,213,213,221>>, <<63,239,196,180,4,145,189,170>>,
            <<63,239,242,93,160,40,220,118>>, <<63,239,255,229,236,230,254,168>>, <<63,239,237,63,78,156,252,82>>, <<63,239,186,124,135,80,232,81>>,
            <<63,239,103,208,164,96,121,171>>, <<63,238,245,142,203,40,170,104>>, <<63,238,100,41,229,102,45,228>>, <<63,237,180,52,45,162,217,102>>,
            <<63,236,230,94,156,36,61,38>>, <<63,235,251,120,52,239,84,246>>, <<63,234,244,109,55,148,81,161>>, <<63,233,210,70,49,147,231,73>>,
            <<63,232,150,38,244,77,15,168>>, <<63,231,65,77,111,126,224,104>>, <<63,229,213,16,113,133,158,91>>, <<63,228,82,222,78,148,171,206>>,
            <<63,226,188,59,112,72,12,207>>, <<63,225,18,192,207,0,13,98>>, <<63,222,176,52,173,31,235,237>>, <<63,219,28,10,111,186,217,150>>,
            <<63,215,108,156,82,66,204,164>>, <<63,211,165,159,45,25,239,47>>, <<63,207,149,191,20,144,30,48>>, <<63,199,192,123,166,183,9,210>>,
            <<63,191,166,169,173,53,203,231>>, <<63,175,89,13,194,168,109,49>>, <<191,87,87,222,89,246,184,200>>, <<191,176,102,231,235,118,247,254>>,
            <<191,192,47,248,173,226,35,48>>, <<191,200,28,53,164,61,4,199>>, <<191,207,240,50,247,143,19,141>>, <<191,211,210,8,148,239,225,23>>,
            <<191,215,152,8,133,197,65,238>>, <<191,219,70,77,194,232,65,98>>, <<191,222,217,36,158,139,71,93>>, <<191,225,38,122,128,200,107,250>>,
            <<191,226,207,35,4,117,90,63>>, <<191,228,100,224,193,203,127,1>>, <<191,229,230,27,166,220,49,48>>, <<191,231,81,80,66,180,152,242>>,
            <<191,232,165,17,75,7,241,105>>, <<191,233,224,9,11,146,147,227>>, <<191,235,0,250,189,196,88,57>>, <<191,236,6,195,199,88,152,156>>,
            <<191,236,240,92,222,155,123,6>>, <<191,237,188,219,19,54,131,245>>, <<191,238,107,112,186,122,36,81>>, <<191,238,251,110,62,54,158,29>>,
            <<191,239,108,66,205,84,52,110>>, <<191,239,189,124,237,121,15,143>>, <<191,239,238,202,237,42,83,179>>, <<191,239,255,251,53,245,166,219>>,
            <<191,239,240,252,126,80,128,13>>, <<191,239,193,221,218,251,24,168>>, <<191,239,114,206,175,213,131,97>>, <<191,239,4,30,128,54,41,121>>,
            <<191,238,118,60,158,241,158,92>>, <<191,237,201,183,190,100,55,125>>, <<191,236,255,61,96,238,2,65>>, <<191,236,23,153,42,113,112,71>>,
            <<191,235,19,180,19,132,58,43>>, <<191,233,244,147,127,32,119,5>>, <<191,232,187,88,51,193,141,129>>, <<191,231,105,61,56,245,102,115>>,
            <<191,229,255,150,154,133,247,55>>, <<191,228,127,208,18,121,206,213>>, <<191,226,235,107,155,67,154,229>>, <<191,225,67,255,235,144,140,116>>,
            <<191,223,22,109,186,120,25,182>>, <<191,219,133,151,130,8,71,43>>, <<191,215,217,19,65,90,164,81>>, <<191,212,20,146,226,172,153,41>>,
            <<191,208,59,224,111,151,203,174>>, <<191,200,165,180,130,238,75,188>>, <<191,192,186,222,58,188,141,131>>, <<191,177,126,104,254,52,107,252>>,
            <<191,119,87,214,150,123,135,86>>, <<63,173,41,203,155,55,220,162>>, <<63,190,144,158,177,187,80,43>>, <<63,199,54,205,6,221,83,214>>,
            <<63,207,13,241,203,136,225,244>>, <<63,211,98,237,126,105,252,67>>, <<63,215,43,98,173,21,32,220>>, <<63,218,220,138,109,140,3,216>>,
            <<63,222,114,174,43,64,141,59>>, <<63,224,245,25,62,172,221,177>>, <<63,226,159,205,99,180,170,15>>, <<63,228,55,198,93,147,248,231>>,
            <<63,229,187,105,219,216,56,12>>, <<63,231,41,50,1,107,86,227>>, <<63,232,127,174,236,173,182,34>>, <<63,233,189,136,41,116,88,189>>,
            <<63,234,225,126,11,119,49,119>>, <<63,235,234,106,239,211,37,78>>, <<63,236,215,68,100,92,101,47>>, <<63,237,167,28,51,152,29,177>>,
            <<63,238,89,33,84,79,246,254>>, <<63,238,236,160,187,206,115,178>>, <<63,239,97,6,17,240,187,61>>, <<63,239,181,220,70,88,182,108>>,
            <<63,239,234,206,6,41,113,92>>, <<63,239,255,166,17,215,87,40>>, <<63,239,244,79,114,181,252,89>>, <<63,239,200,213,144,13,152,188>>,
            <<63,239,125,100,35,162,253,184>>, <<63,239,18,71,13,189,145,167>>, <<63,238,135,234,8,215,137,174>>, <<63,237,222,216,61,69,37,45>>,
            <<63,237,23,187,181,63,222,225>>, <<63,236,51,92,177,226,87,206>>, <<63,235,50,160,225,192,253,72>>, <<63,234,22,138,121,233,245,162>>,
            <<63,232,224,55,50,52,170,131>>, <<63,231,144,223,37,230,26,15>>, <<63,230,41,211,153,202,250,150>>, <<63,228,172,125,169,3,85,161>>,
            <<63,227,26,92,217,212,207,112>>, <<63,225,117,5,155,240,211,191>>, <<63,223,124,63,99,101,62,45>>, <<63,219,238,201,11,220,106,21>>,
            <<63,216,69,58,223,249,231,223>>, <<63,212,131,67,207,140,106,79>>, <<63,208,172,171,87,37,62,103>>, <<63,201,138,155,102,28,67,167>>,
            <<63,193,162,47,250,193,181,51>>, <<63,179,80,16,236,160,243,55>>, <<63,138,66,171,144,103,37,172>>, <<191,169,133,102,97,129,122,17>>,
            <<191,188,192,230,96,77,218,102>>, <<191,198,81,23,52,183,162,148>>, <<191,206,43,73,87,79,39,158>>, <<191,210,243,145,238,3,136,39>>,
            <<191,214,190,111,197,150,67,192>>, <<191,218,114,109,193,242,229,194>>, <<191,222,11,210,116,36,80,73>>, <<191,224,195,127,150,202,139,93>>,
            <<191,226,112,57,210,7,219,51>>, <<191,228,10,104,187,150,231,246>>, <<191,229,144,111,201,213,219,50>>, <<191,231,0,198,184,156,10,116>>,
            <<191,232,89,251,19,190,127,234>>, <<191,233,154,177,171,164,127,156>>, <<191,234,193,167,242,117,71,137>>, <<191,235,205,181,64,127,219,215>>,
            <<191,236,189,203,254,150,159,175>>, <<191,237,144,250,181,50,166,166>>, <<191,238,70,108,255,78,8,22>>, <<191,238,221,108,96,0,254,20>>,
            <<191,239,85,96,250,10,242,177>>, <<191,239,173,210,40,142,229,158>>, <<191,239,230,102,248,105,143,163>>, <<191,239,254,230,129,167,57,220>>,
            <<191,239,247,56,32,191,78,204>>, <<191,239,207,99,143,92,23,173>>, <<191,239,135,144,220,149,184,37>>, <<191,239,32,8,68,168,57,17>>,
            <<191,238,153,49,232,77,40,149>>, <<191,237,243,149,100,1,223,118>>, <<191,237,47,217,71,163,190,98>>, <<191,236,78,194,110,235,147,204>>,
            <<191,235,81,51,59,112,158,220>>, <<191,234,56,42,176,250,84,60>>, <<191,233,4,195,117,5,222,21>>, <<191,231,184,50,178,129,79,185>>,
            <<191,230,83,198,226,218,106,4>>, <<191,228,216,230,125,153,184,120>>, <<191,227,73,14,143,220,75,181>>, <<191,225,165,209,61,22,179,154>>,
            <<191,223,225,168,85,69,69,214>>, <<191,220,87,157,175,92,15,242>>, <<191,216,177,17,198,108,38,4>>, <<191,212,241,176,131,149,114,203>>,
            <<191,209,29,62,201,207,61,125>>, <<191,202,111,45,86,246,190,231>>, <<191,194,137,71,21,85,240,56>>, <<191,181,33,120,159,231,236,89>>,
            <<191,148,108,138,63,137,163,205>>, <<63,165,224,172,70,200,246,160>>, <<63,186,240,206,109,189,128,249>>, <<63,197,107,23,41,198,99,143>>,
            <<63,205,72,60,140,181,158,200>>, <<63,210,131,247,86,23,246,229>>, <<63,214,81,49,57,161,51,59>>, <<63,218,7,249,33,6,26,54>>,
            <<63,221,164,146,207,77,128,255>>, <<63,224,145,174,46,23,196,147>>, <<63,226,64,104,237,170,40,153>>, <<63,227,220,200,114,181,80,219>>,
            <<63,229,101,45,255,196,43,227>>, <<63,230,216,14,238,180,14,211>>, <<63,232,51,246,61,158,193,96>>, <<63,233,119,134,6,0,119,87>>,
            <<63,234,161,120,220,160,123,101>>, <<63,235,176,163,24,218,145,252>>, <<63,236,163,244,1,255,238,59>>, <<63,237,122,118,225,160,157,138>>,
            <<63,238,51,83,249,169,138,224>>, <<63,238,205,209,93,95,148,230>>, <<63,239,73,83,172,93,122,217>>, <<63,239,165,94,174,216,145,111>>,
            <<63,239,225,149,210,143,19,154>>, <<63,239,253,188,135,226,106,137>>, <<63,239,249,182,126,191,200,204>>, <<63,239,213,135,195,25,215,172>>,
            <<63,239,145,84,184,214,210,13>>, <<63,239,45,97,247,55,37,187>>, <<63,238,170,20,3,217,105,116>>, <<63,238,7,238,237,161,9,188>>,
            <<63,237,71,149,199,229,89,110>>, <<63,236,105,202,6,110,155,158>>, <<63,235,111,106,186,229,249,33>>, <<63,234,89,115,180,124,17,138>>,
            <<63,233,40,252,130,167,200,50>>, <<63,231,223,55,91,252,4,234>>, <<63,230,125,111,234,47,46,249>>, <<63,229,5,9,252,138,29,243>>,
            <<63,227,119,128,34,13,254,242>>, <<63,225,214,98,44,185,18,125>>, <<63,224,35,83,159,105,49,99>>, <<63,220,192,20,15,225,1,44>>,
            <<63,217,28,150,142,9,95,104>>, <<63,213,95,215,143,134,170,199>>, <<63,209,141,153,81,45,16,163>>, <<63,203,83,103,93,78,11,143>>,
            <<63,195,112,32,137,231,210,31>>, <<63,182,242,154,12,45,30,153>>, <<63,155,183,122,201,156,253,107>>, <<191,162,59,169,105,38,227,185>>,
            <<191,185,32,92,225,137,216,41>>, <<191,196,132,207,226,250,222,226>>, <<191,204,100,206,94,221,186,51>>, <<191,210,20,31,41,212,88,200>>,
            <<191,213,227,168,116,138,12,202>>, <<191,217,157,45,236,211,97,201>>, <<191,221,60,240,148,31,101,198>>, <<191,224,95,165,170,68,67,211>>,
            <<191,226,16,91,85,162,193,62>>, <<191,227,174,230,26,173,230,250>>, <<191,229,57,165,13,128,193,37>>, <<191,230,175,11,43,31,49,190>>,
            <<191,232,13,160,232,192,73,73>>, <<191,233,84,5,173,128,227,237>>, <<191,234,128,241,53,2,162,183>>, <<191,235,147,52,217,146,168,55>>,
            <<191,236,137,188,196,139,253,248>>, <<191,237,99,145,3,195,139,67>>, <<191,238,31,214,130,230,148,72>>, <<191,238,189,207,231,208,246,113>>,
            <<191,239,60,222,80,253,137,43>>, <<191,239,156,129,245,81,22,117>>, <<191,239,220,90,164,159,60,25>>, <<191,239,252,40,40,103,237,181>>,
            <<191,239,251,202,132,108,79,197>>, <<191,239,219,66,22,217,246,59>>, <<191,239,154,175,151,236,44,52>>, <<191,239,58,83,249,3,165,28>>,
            <<191,238,186,144,35,85,174,185>>, <<191,238,27,228,150,116,148,240>>, <<191,237,94,240,231,19,63,186>>, <<191,236,132,115,30,134,3,44>>,
            <<191,235,141,70,251,162,14,211>>, <<191,234,122,101,21,187,178,44>>, <<191,233,76,225,226,161,196,105>>, <<191,232,5,236,160,145,152,27>>,
            <<191,230,166,206,37,59,42,220>>, <<191,229,48,231,147,8,68,78>>, <<191,227,165,176,245,243,40,217>>, <<191,226,6,183,201,82,12,238>>,
            <<191,224,85,157,104,19,180,253>>, <<191,221,40,42,209,254,132,3>>, <<191,217,135,199,209,58,184,179>>, <<191,213,205,183,133,6,179,37>>,
            <<191,209,253,185,119,147,78,57>>, <<191,204,55,70,130,22,216,191>>, <<191,196,86,185,88,178,254,189>>, <<191,184,195,111,38,126,0,86>>,
            <<191,161,129,7,146,166,9,16>>, <<63,157,44,211,207,75,129,161>>, <<63,183,79,151,196,92,122,251>>, <<63,195,158,68,94,51,76,3>>,
            <<63,203,129,1,194,44,213,186>>, <<63,209,164,10,221,50,142,148>>, <<63,213,117,214,226,155,196,202>>, <<63,217,50,13,136,136,99,73>>,
            <<63,220,212,237,27,69,41,95>>, <<63,224,45,102,177,183,9,146>>, <<63,225,224,17,169,194,183,77>>, <<63,227,128,194,76,27,15,213>>,
            <<63,229,13,213,131,213,219,40>>, <<63,230,133,187,246,69,235,213>>, <<63,231,230,251,148,160,156,97>>, <<63,233,48,49,24,56,27,143>>,
            <<63,234,96,17,103,204,37,67>>, <<63,235,117,106,228,137,200,49>>, <<63,236,111,38,157,107,72,187>>, <<63,237,76,73,103,195,8,181>>,
            <<63,238,11,244,219,215,69,40>>, <<63,238,173,104,52,144,155,177>>, <<63,239,48,1,17,90,99,171>>, <<63,239,147,60,25,113,220,28>>,
            <<63,239,214,181,127,255,236,223>>, <<63,239,250,41,104,120,164,17>>, <<63,239,253,116,42,219,120,208>>, <<63,239,224,146,119,143,176,90>>,
            <<63,239,163,161,90,184,212,96>>, <<63,239,70,222,30,255,224,96>>, <<63,238,202,166,15,238,137,166>>, <<63,238,47,118,28,26,158,229>>,
            <<63,237,117,234,87,127,223,142>>, <<63,236,158,189,94,134,169,79>>, <<63,235,170,199,154,85,90,117>>, <<63,234,154,254,103,41,47,99>>,
            <<63,233,112,115,29,145,122,147>>, <<63,232,44,81,255,133,113,172>>, <<63,230,207,225,10,105,2,95>>, <<63,229,92,126,175,48,107,228>>,
            <<63,227,211,160,113,236,93,77>>, <<63,226,54,209,114,33,13,2>>, <<63,224,135,176,221,98,26,109>>, <<63,221,143,224,155,133,224,21>>,
            <<63,217,242,164,43,127,22,155>>, <<63,214,59,78,246,168,156,154>>, <<63,210,109,157,200,24,176,85>>, <<63,205,26,199,207,116,24,243>>,
            <<63,197,61,14,130,202,25,186>>, <<63,186,147,241,228,229,223,238>>, <<63,165,38,23,137,83,172,97>>, <<191,149,225,243,196,51,70,102>>,
            <<191,181,126,133,31,244,226,3>>, <<191,194,183,119,154,48,212,194>>, <<191,202,156,217,172,66,86,247>>, <<191,209,51,187,228,244,111,151>>,
            <<191,213,7,189,241,19,116,72>>, <<191,216,198,153,88,110,32,203>>, <<191,220,108,137,190,173,92,23>>, <<191,223,245,227,215,24,105,247>>,
            <<191,225,175,140,138,162,235,95>>, <<191,227,82,93,160,112,233,120>>, <<191,228,225,191,244,120,128,63>>, <<191,230,92,33,217,139,162,84>>,
            <<191,231,192,6,193,199,77,6>>, <<191,233,12,8,189,80,156,30>>, <<191,234,62,217,226,82,147,177>>, <<191,235,87,69,156,210,157,176>>,
            <<191,236,84,49,229,9,241,242>>, <<191,237,52,160,91,11,195,114>>, <<191,237,247,175,70,154,246,6>>, <<191,238,156,154,122,46,6,150>>,
            <<191,239,34,188,24,60,215,183>>, <<191,239,137,141,58,17,242,64>>, <<191,239,208,166,119,119,116,127>>, <<191,239,247,192,78,183,56,239>>,
            <<191,239,254,179,108,133,159,133>>, <<191,239,229,120,211,142,161,237>>, <<191,239,172,41,227,125,108,141>>, <<191,239,83,0,63,119,106,245>>,
            <<191,238,218,85,148,36,113,125>>, <<191,238,66,163,61,126,80,35>>, <<191,237,140,129,204,194,135,34>>, <<191,236,184,168,111,0,218,44>>,
            <<191,235,199,236,52,225,24,150>>, <<191,234,187,63,60,89,98,17>>, <<191,233,147,175,189,44,109,101>>, <<191,232,82,102,249,36,181,14>>,
            <<191,230,248,168,17,29,230,199>>, <<191,229,135,206,192,9,56,70>>, <<191,228,1,77,253,51,131,169>>, <<191,226,102,174,135,44,223,96>>,
            <<191,224,185,141,88,200,250,66>>, <<191,221,247,52,19,138,227,3>>, <<191,218,93,42,57,111,197,24>>, <<191,214,168,156,119,240,162,83>>,
            <<191,210,221,68,206,154,251,92>>, <<191,205,253,232,80,192,228,66>>, <<191,198,35,29,10,32,189,72>>, <<191,188,100,28,62,129,249,80>>,
            <<191,168,202,225,41,161,73,140>>, <<63,141,45,149,227,224,204,165>>, <<63,179,173,42,255,20,122,83>>, <<63,193,208,108,150,141,157,41>>,
            <<63,201,184,89,19,237,231,26>>, <<63,208,195,51,182,158,247,188>>, <<63,212,153,95,14,27,143,238>>, <<63,216,90,210,193,228,72,15>>,
            <<63,220,3,199,217,133,121,189>>, <<63,223,144,143,255,37,163,90>>, <<63,225,126,204,153,161,244,63>>, <<63,227,35,184,177,251,76,32>>,
            <<63,228,181,100,242,6,152,66>>, <<63,230,50,61,95,76,215,21>>, <<63,231,152,194,241,196,83,13>>, <<63,232,231,141,21,11,130,59>>,
            <<63,234,29,75,19,15,60,49>>, <<63,235,56,197,102,175,143,101>>, <<63,236,56,222,245,14,161,242>>, <<63,237,28,150,44,78,122,12>>,
            <<63,237,227,6,6,157,88,120>>, <<63,238,139,102,240,140,13,63>>, <<63,239,21,15,145,198,170,2>>, <<63,239,127,117,119,101,170,251>>,
            <<63,239,202,45,159,44,78,6>>, <<63,239,244,236,227,40,12,47>>, <<63,239,255,136,69,68,248,148>>, <<63,239,233,245,26,139,0,14>>,
            <<63,239,180,73,21,216,142,138>>, <<63,239,94,186,50,15,206,50>>, <<63,238,233,158,123,204,116,49>>, <<63,238,85,107,186,216,179,91>>,
            <<63,237,162,182,251,184,98,240>>, <<63,236,210,51,249,193,117,156>>, <<63,235,228,180,106,88,141,31>>, <<63,234,219,39,42,7,111,122>>,
            <<63,233,182,151,76,65,130,83>>, <<63,232,120,43,14,199,231,35>>, <<63,231,33,34,177,187,95,186>>, <<63,229,178,215,53,133,151,252>>,
            <<63,228,46,184,255,221,206,241>>, <<63,226,150,78,105,69,202,255>>, <<63,224,235,50,52,115,198,172>>, <<63,222,94,35,226,104,83,164>>,
            <<63,218,199,88,152,197,15,234>>, <<63,215,21,158,157,88,231,30>>, <<63,211,76,173,23,195,193,118>>, <<63,206,224,165,18,154,49,146>>,
            <<63,199,8,225,241,149,119,181>>, <<63,190,51,232,43,149,116,42>>, <<63,172,111,88,85,66,223,162>>, <<191,125,45,198,105,126,248,181>>,
            <<191,177,219,143,109,106,81,115>>, <<191,192,233,38,83,178,222,99>>, <<191,200,211,130,241,37,131,179>>, <<191,208,82,115,200,117,100,148>>,
            <<191,212,42,187,168,199,47,168>>, <<191,215,238,187,43,92,152,14>>, <<191,219,154,168,200,53,103,232>>, <<191,223,42,211,44,149,99,164>>,
            <<191,225,77,210,120,226,12,18>>, <<191,226,244,212,27,219,199,13>>, <<191,228,136,197,16,5,6,216>>, <<191,230,8,15,18,221,97,183>>,
            <<191,231,113,48,167,46,87,221>>, <<191,232,194,190,152,190,244,172>>, <<191,233,251,101,105,157,187,12>>, <<191,235,25,234,167,145,110,227>>,
            <<191,236,29,46,40,89,89,184>>, <<191,237,4,43,43,126,248,207>>, <<191,237,205,249,96,149,152,211>>, <<191,238,121,205,208,224,32,82>>,
            <<191,239,6,251,171,114,5,249>>, <<191,239,116,244,242,254,47,8>>, <<191,239,195,75,12,164,221,181>>, <<191,239,241,175,47,49,23,181>>,
            <<191,239,255,242,178,85,159,101>>, <<191,239,238,7,61,153,207,231>>, <<191,239,187,254,214,199,41,240>>, <<191,239,106,11,207,201,14,250>>,
            <<191,238,248,128,148,16,229,64>>, <<191,238,103,207,85,177,138,252>>, <<191,237,184,137,154,133,119,66>>, <<191,236,235,95,169,211,11,109>>,
            <<191,236,1,31,219,2,69,126>>, <<191,234,250,181,198,22,40,188>>, <<191,233,217,41,86,186,137,33>>, <<191,232,157,157,194,212,149,112>>,
            <<191,231,73,80,101,161,9,17>>, <<191,229,221,151,128,134,158,102>>, <<191,228,91,224,226,221,188,240>>, <<191,226,197,176,122,7,160,128>>,
            <<191,225,28,158,203,70,240,218>>, <<191,222,196,174,177,196,113,197>>, <<191,219,49,45,232,90,229,21>>, <<191,215,130,83,252,86,46,119>>,
            <<191,211,187,213,49,13,63,40>>, <<191,207,194,251,34,232,184,114>>, <<191,199,238,90,60,251,170,105>>, <<191,192,1,167,210,206,206,233>>,
            <<191,176,9,184,119,127,52,221>>, <<61,3,221,197,188,226,0,187>>, <<63,176,9,184,119,127,49,214>>, <<63,192,1,167,210,206,205,104>>,
            <<63,199,238,90,60,251,168,235>>, <<63,207,194,251,34,232,186,218>>, <<63,211,187,213,49,13,64,86>>, <<63,215,130,83,252,86,47,158>>,
            <<63,219,49,45,232,90,230,52>>, <<63,222,196,174,177,196,114,220>>, <<63,225,28,158,203,70,241,96>>, <<63,226,197,176,122,7,161,1>>,
            <<63,228,91,224,226,221,188,165>>, <<63,229,221,151,128,134,158,32>>, <<63,231,73,80,101,161,9,126>>, <<63,232,157,157,194,212,149,50>>,
            <<63,233,217,41,86,186,136,231>>, <<63,234,250,181,198,22,40,136>>, <<63,236,1,31,219,2,69,203>>, <<63,236,235,95,169,211,11,177>>,
            <<63,237,184,137,154,133,119,219>>, <<63,238,103,207,85,177,139,46>>, <<63,238,248,128,148,16,229,104>>, <<63,239,106,11,207,201,15,25>>,
            <<63,239,187,254,214,199,42,5>>, <<63,239,238,7,61,153,207,225>>, <<63,239,255,242,178,85,159,101>>, <<63,239,241,175,47,49,23,187>>,
            <<63,239,195,75,12,164,221,192>>, <<63,239,116,244,242,254,47,26>>, <<63,239,6,251,171,114,6,17>>, <<63,238,121,205,208,224,32,33>>,
            <<63,237,205,249,96,149,152,153>>, <<63,237,4,43,43,126,248,32>>, <<63,236,29,46,40,89,89,108>>, <<63,235,25,234,167,145,110,143>>,
            <<63,233,251,101,105,157,186,176>>, <<63,232,194,190,152,190,244,71>>, <<63,231,113,48,167,46,88,31>>, <<63,230,8,15,18,221,97,253>>,
            <<63,228,136,197,16,5,7,35>>, <<63,226,244,212,27,219,199,91>>, <<63,225,77,210,120,226,12,100>>, <<63,223,42,211,44,149,100,77>>,
            <<63,219,154,168,200,53,102,201>>, <<63,215,238,187,43,92,150,232>>, <<63,212,42,187,168,199,46,122>>, <<63,208,82,115,200,117,99,96>>,
            <<63,200,211,130,241,37,129,67>>, <<63,192,233,38,83,178,219,236>>, <<63,177,219,143,109,106,76,127>>, <<63,125,45,198,105,127,41,61>>,
            <<191,172,111,88,85,66,217,147>>, <<191,190,51,232,43,149,121,24>>, <<191,199,8,225,241,149,118,55>>, <<191,206,224,165,18,154,48,25>>,
            <<191,211,76,173,23,195,192,189>>, <<191,215,21,158,157,88,230,105>>, <<191,218,199,88,152,197,17,10>>, <<191,222,94,35,226,104,84,188>>,
            <<191,224,235,50,52,115,199,51>>, <<191,226,150,78,105,69,203,129>>, <<191,228,46,184,255,221,207,108>>, <<191,229,178,215,53,133,152,113>>,
            <<191,231,33,34,177,187,96,40>>, <<191,232,120,43,14,199,231,138>>, <<191,233,182,151,76,65,130,178>>, <<191,234,219,39,42,7,111,69>>,
            <<191,235,228,180,106,88,140,239>>, <<191,236,210,51,249,193,117,114>>, <<191,237,162,182,251,184,98,204>>, <<191,238,85,107,186,216,179,141>>,
            <<191,238,233,158,123,204,116,24>>, <<191,239,94,186,50,15,206,81>>, <<191,239,180,73,21,216,142,159>>, <<191,239,233,245,26,139,0,26>>,
            <<191,239,255,136,69,68,248,149>>, <<191,239,244,236,227,40,12,39>>, <<191,239,202,45,159,44,77,244>>, <<191,239,127,117,119,101,170,223>>,
            <<191,239,21,15,145,198,170,25>>, <<191,238,139,102,240,140,13,92>>, <<191,237,227,6,6,157,88,155>>, <<191,237,28,150,44,78,122,52>>,
            <<191,236,56,222,245,14,161,167>>, <<191,235,56,197,102,175,143,152>>, <<191,234,29,75,19,15,59,214>>, <<191,232,231,141,21,11,129,215>>,
            <<191,231,152,194,241,196,82,162>>, <<191,230,50,61,95,76,214,163>>, <<191,228,181,100,242,6,151,201>>, <<191,227,35,184,177,251,75,160>>,
            <<191,225,126,204,153,161,243,186>>, <<191,223,144,143,255,37,164,3>>, <<191,220,3,199,217,133,122,108>>, <<191,216,90,210,193,228,72,195>>,
            <<191,212,153,95,14,27,144,166>>, <<191,208,195,51,182,158,246,137>>, <<191,201,184,89,19,237,232,150>>, <<191,193,208,108,150,141,158,170>>,
            <<191,179,173,42,255,20,117,96>>, <<191,141,45,149,227,224,164,234>>, <<63,168,202,225,41,161,83,120>>, <<63,188,100,28,62,129,254,64>>,
            <<63,198,35,29,10,32,191,186>>, <<63,205,253,232,80,192,230,172>>, <<63,210,221,68,206,154,252,140>>, <<63,214,168,156,119,240,161,157>>,
            <<63,218,93,42,57,111,196,103>>, <<63,221,247,52,19,138,226,87>>, <<63,224,185,141,88,200,250,201>>, <<63,226,102,174,135,44,223,17>>,
            <<63,228,1,77,253,51,131,93>>, <<63,229,135,206,192,9,56,188>>, <<63,230,248,168,17,29,231,54>>, <<63,232,82,102,249,36,181,117>>,
            <<63,233,147,175,189,44,109,196>>, <<63,234,187,63,60,89,98,105>>, <<63,235,199,236,52,225,24,228>>, <<63,236,184,168,111,0,218,114>>,
            <<63,237,140,129,204,194,134,253>>, <<63,238,66,163,61,126,80,3>>, <<63,238,218,85,148,36,113,99>>, <<63,239,83,0,63,119,107,22>>,
            <<63,239,172,41,227,125,108,127>>, <<63,239,229,120,211,142,161,229>>, <<63,239,254,179,108,133,159,136>>, <<63,239,247,192,78,183,56,232>>,
            <<63,239,208,166,119,119,116,109>>, <<63,239,137,141,58,17,242,37>>, <<63,239,34,188,24,60,215,146>>, <<63,238,156,154,122,46,6,103>>,
            <<63,237,247,175,70,154,245,206>>, <<63,237,52,160,91,11,195,154>>, <<63,236,84,49,229,9,242,31>>, <<63,235,87,69,156,210,157,226>>,
            <<63,234,62,217,226,82,147,86>>, <<63,233,12,8,189,80,156,91>>, <<63,231,192,6,193,199,77,71>>, <<63,230,92,33,217,139,161,227>>,
            <<63,228,225,191,244,120,127,199>>, <<63,227,82,93,160,112,232,250>>, <<63,225,175,140,138,162,234,5>>, <<63,223,245,227,215,24,104,227>>,
            <<63,220,108,137,190,173,90,250>>, <<63,216,198,153,88,110,31,166>>, <<63,213,7,189,241,19,116,255>>, <<63,209,51,187,228,244,112,82>>,
            <<63,202,156,217,172,66,88,114>>, <<63,194,183,119,154,48,214,66>>, <<63,181,126,133,31,244,229,9>>, <<63,149,225,243,196,51,82,136>>,
            <<191,165,38,23,137,83,166,81>>, <<191,186,147,241,228,229,228,222>>, <<191,197,61,14,130,202,28,45>>, <<191,205,26,199,207,116,31,67>>,
            <<191,210,109,157,200,24,177,134>>, <<191,214,59,78,246,168,157,196>>, <<191,217,242,164,43,127,23,189>>, <<191,221,143,224,155,133,225,47>>,
            <<191,224,135,176,221,98,26,26>>, <<191,226,54,209,114,33,12,178>>, <<191,227,211,160,113,236,93,1>>, <<191,229,92,126,175,48,107,156>>,
            <<191,230,207,225,10,105,2,27>>, <<191,232,44,81,255,133,113,192>>, <<191,233,112,115,29,145,122,166>>, <<191,234,154,254,103,41,47,116>>,
            <<191,235,170,199,154,85,91,5>>, <<191,236,158,189,94,134,169,93>>, <<191,237,117,234,87,127,223,204>>, <<191,238,47,118,28,26,159,26>>,
            <<191,238,202,166,15,238,137,209>>, <<191,239,70,222,30,255,224,75>>, <<191,239,163,161,90,184,212,81>>, <<191,239,224,146,119,143,176,82>>,
            <<191,239,253,116,42,219,120,206>>, <<191,239,250,41,104,120,164,16>>, <<191,239,214,181,127,255,236,220>>, <<191,239,147,60,25,113,220,23>>,
            <<191,239,48,1,17,90,99,164>>, <<191,238,173,104,52,144,155,96>>, <<191,238,11,244,219,215,69,30>>, <<191,237,76,73,103,195,8,168>>,
            <<191,236,111,38,157,107,72,114>>, <<191,235,117,106,228,137,199,223>>, <<191,234,96,17,103,204,37,122>>, <<191,233,48,49,24,56,27,45>>,
            <<191,231,230,251,148,160,156,162>>, <<191,230,133,187,246,69,236,26>>, <<191,229,13,213,131,213,219,17>>, <<191,227,128,194,76,27,15,189>>,
            <<191,225,224,17,169,194,183,52>>, <<191,224,45,102,177,183,9,119>>, <<191,220,212,237,27,69,41,40>>, <<191,217,50,13,136,136,99,16>>,
            <<191,213,117,214,226,155,196,144>>, <<191,209,164,10,221,50,141,98>>, <<191,203,129,1,194,44,211,77>>, <<191,195,158,68,94,51,77,131>>,
            <<191,183,79,151,196,92,118,9>>, <<191,157,44,211,207,75,109,198>>, <<63,161,129,7,146,166,3,0>>, <<63,184,195,111,38,126,1,77>>,
            <<63,196,86,185,88,178,255,55>>, <<63,204,55,70,130,22,217,55>>, <<63,209,253,185,119,147,78,117>>, <<63,213,205,183,133,6,179,95>>,
            <<63,217,135,199,209,58,184,236>>, <<63,221,40,42,209,254,132,59>>, <<63,224,85,157,104,19,181,134>>, <<63,226,6,183,201,82,13,113>>,
            <<63,227,165,176,245,243,41,86>>, <<63,229,48,231,147,8,68,197>>, <<63,230,166,206,37,59,43,76>>, <<63,232,5,236,160,145,151,219>>,
            <<63,233,76,225,226,161,196,45>>, <<63,234,122,101,21,187,178,61>>, <<63,235,141,70,251,162,14,227>>, <<63,236,132,115,30,134,3,174>>,
            <<63,237,94,240,231,19,63,198>>, <<63,238,27,228,150,116,148,250>>, <<63,238,186,144,35,85,174,194>>, <<63,239,58,83,249,3,165,62>>,
            <<63,239,154,175,151,236,44,76>>, <<63,239,219,66,22,217,246,74>>, <<63,239,251,202,132,108,79,202>>, <<63,239,252,40,40,103,237,176>>,
            <<63,239,220,90,164,159,60,34>>, <<63,239,156,129,245,81,22,132>>, <<63,239,60,222,80,253,137,36>>, <<63,238,189,207,231,208,246,105>>,
            <<63,238,31,214,130,230,147,231>>, <<63,237,99,145,3,195,139,54>>, <<63,236,137,188,196,139,253,234>>, <<63,235,147,52,217,146,168,39>>,
            <<63,234,128,241,53,2,162,166>>, <<63,233,84,5,173,128,227,140>>, <<63,232,13,160,232,192,72,224>>, <<63,230,175,11,43,31,49,78>>,
            <<63,229,57,165,13,128,192,174>>, <<63,227,174,230,26,173,231,71>>, <<63,226,16,91,85,162,193,142>>, <<63,224,95,165,170,68,67,184>>,
            <<63,221,60,240,148,31,101,143>>, <<63,217,157,45,236,211,95,187>>, <<63,213,227,168,116,138,12,144>>, <<63,210,20,31,41,212,88,141>>,
            <<63,204,100,206,94,221,185,186>>, <<63,196,132,207,226,250,222,104>>, <<63,185,32,92,225,137,211,56>>, <<63,162,59,169,105,38,217,204>>,
            <<191,155,183,122,201,157,17,71>>, <<191,182,242,154,12,45,35,139>>, <<191,195,112,32,137,231,212,148>>, <<191,203,83,103,93,78,10,19>>,
            <<191,209,141,153,81,45,16,222>>, <<191,213,95,215,143,134,171,1>>, <<191,217,28,150,142,9,96,140>>, <<191,220,192,20,15,225,1,99>>,
            <<191,224,35,83,159,105,49,125>>, <<191,225,214,98,44,185,18,151>>, <<191,227,119,128,34,13,255,10>>, <<191,229,5,9,252,138,30,107>>,
            <<191,230,125,111,234,47,47,197>>, <<191,231,223,55,91,252,5,84>>, <<191,233,40,252,130,167,200,148>>, <<191,234,89,115,180,124,17,228>>,
            <<191,235,111,106,186,229,248,239>>, <<191,236,105,202,6,110,155,114>>, <<191,237,71,149,199,229,89,123>>, <<191,238,7,238,237,161,9,154>>,
            <<191,238,170,20,3,217,105,125>>, <<191,239,45,97,247,55,37,194>>, <<191,239,145,84,184,214,210,18>>, <<191,239,213,135,195,25,215,175>>,
            <<191,239,249,182,126,191,200,211>>, <<191,239,253,188,135,226,106,130>>, <<191,239,225,149,210,143,19,151>>, <<191,239,165,94,174,216,145,88>>,
            <<191,239,73,83,172,93,122,184>>, <<191,238,205,209,93,95,149,0>>, <<191,238,51,83,249,169,139,0>>, <<191,237,122,118,225,160,157,126>>,
            <<191,236,163,244,1,255,238,103>>, <<191,235,176,163,24,218,145,236>>, <<191,234,161,120,220,160,123,84>>, <<191,233,119,134,6,0,119,69>>,
            <<191,232,51,246,61,158,193,76>>, <<191,230,216,14,238,180,14,190>>, <<191,229,101,45,255,196,43,14>>, <<191,227,220,200,114,181,80,195>>,
            <<191,226,64,104,237,170,40,23>>, <<191,224,145,174,46,23,196,11>>, <<191,221,164,146,207,77,129,171>>, <<191,218,7,249,33,6,26,232>>,
            <<191,214,81,49,57,161,51,1>>, <<191,210,131,247,86,23,247,159>>, <<191,205,72,60,140,181,158,79>>, <<191,197,107,23,41,198,99,21>>,
            <<191,186,240,206,109,189,128,3>>, <<191,165,224,172,70,200,244,178>>, <<63,148,108,138,63,137,167,171>>, <<63,181,33,120,159,231,245,72>>,
            <<63,194,137,71,21,85,240,178>>, <<63,202,111,45,86,246,193,85>>, <<63,209,29,62,201,207,62,176>>, <<63,212,241,176,131,149,115,247>>,
            <<63,216,177,17,198,108,37,81>>, <<63,220,87,157,175,92,17,15>>, <<63,223,225,168,85,69,69,46>>, <<63,225,165,209,61,22,179,73>>,
            <<63,227,73,14,143,220,75,206>>, <<63,228,216,230,125,153,184,143>>, <<63,230,83,198,226,218,106,26>>, <<63,231,184,50,178,129,79,206>>,
            <<63,233,4,195,117,5,222,40>>, <<63,234,56,42,176,250,84,78>>, <<63,235,81,51,59,112,159,47>>, <<63,236,78,194,110,235,148,22>>,
            <<63,237,47,217,71,163,190,163>>, <<63,237,243,149,100,1,223,84>>, <<63,238,153,49,232,77,40,195>>, <<63,239,32,8,68,168,56,251>>,
            <<63,239,135,144,220,149,184,20>>, <<63,239,207,99,143,92,23,176>>, <<63,239,247,56,32,191,78,205>>, <<63,239,254,230,129,167,57,220>>,
            <<63,239,230,102,248,105,143,161>>, <<63,239,173,210,40,142,229,153>>, <<63,239,85,96,250,10,242,171>>, <<63,238,221,108,96,0,254,12>>,
            <<63,238,70,108,255,78,7,227>>, <<63,237,144,250,181,50,166,106>>, <<63,236,189,203,254,150,159,218>>, <<63,235,205,181,64,127,219,136>>,
            <<63,234,193,167,242,117,71,190>>, <<63,233,154,177,171,164,127,214>>, <<63,232,89,251,19,190,127,214>>, <<63,231,0,198,184,156,10,94>>,
            <<63,229,144,111,201,213,219,27>>, <<63,228,10,104,187,150,231,22>>, <<63,226,112,57,210,7,219,26>>, <<63,224,195,127,150,202,139,66>>,
            <<63,222,11,210,116,36,80,19>>, <<63,218,114,109,193,242,228,160>>, <<63,214,190,111,197,150,66,151>>, <<63,210,243,145,238,3,136,224>>,
            <<63,206,43,73,87,79,37,52>>, <<63,198,81,23,52,183,164,19>>, <<63,188,192,230,96,77,221,106>>, <<63,169,133,102,97,129,120,34>>,
            <<191,138,66,171,144,103,45,103>>, <<191,179,80,16,236,160,244,45>>, <<191,193,162,47,250,193,185,163>>, <<191,201,138,155,102,28,68,33>>,
            <<191,208,172,171,87,37,62,163>>, <<191,212,131,67,207,140,106,138>>, <<191,216,69,58,223,249,233,5>>, <<191,219,238,201,11,220,107,51>>,
            <<191,223,124,63,99,101,61,132>>, <<191,225,117,5,155,240,212,68>>, <<191,227,26,92,217,212,207,239>>, <<191,228,172,125,169,3,85,87>>,
            <<191,230,41,211,153,202,250,80>>, <<191,231,144,223,37,230,26,36>>, <<191,232,224,55,50,52,170,151>>, <<191,234,22,138,121,233,246,72>>,
            <<191,235,50,160,225,192,253,88>>, <<191,236,51,92,177,226,87,221>>, <<191,237,23,187,181,63,222,238>>, <<191,237,222,216,61,69,37,102>>,
            <<191,238,135,234,8,215,137,221>>, <<191,239,18,71,13,189,145,205>>, <<191,239,125,100,35,162,253,212>>, <<191,239,200,213,144,13,152,207>>,
            <<191,239,244,79,114,181,252,84>>, <<191,239,255,166,17,215,87,41>>, <<191,239,234,206,6,41,113,90>>, <<191,239,181,220,70,88,182,104>>,
            <<191,239,97,6,17,240,187,5>>, <<191,238,236,160,187,206,115,170>>, <<191,238,89,33,84,79,246,244>>, <<191,237,167,28,51,152,29,165>>,
            <<191,236,215,68,100,92,101,33>>, <<191,235,234,106,239,211,37,1>>, <<191,234,225,126,11,119,48,219>>, <<191,233,189,136,41,116,88,95>>,
            <<191,232,127,174,236,173,181,187>>, <<191,231,41,50,1,107,87,38>>, <<191,229,187,105,219,216,56,83>>, <<191,228,55,198,93,147,248,207>>,
            <<191,226,159,205,99,180,169,246>>, <<191,224,245,25,62,172,221,151>>, <<191,222,114,174,43,64,141,4>>, <<191,218,220,138,109,140,3,160>>,
            <<191,215,43,98,173,21,32,162>>, <<191,211,98,237,126,105,252,8>>, <<191,207,13,241,203,136,223,139>>, <<191,199,54,205,6,221,79,109>>,
            <<191,190,144,158,177,187,75,61>>, <<191,173,41,203,155,55,210,183>>, <<63,119,87,214,150,123,86,205>>, <<63,177,126,104,254,52,104,245>>,
            <<63,192,186,222,58,188,141,254>>, <<63,200,165,180,130,238,76,54>>, <<63,208,59,224,111,151,202,242>>, <<63,212,20,146,226,172,153,100>>,
            <<63,215,217,19,65,90,164,138>>, <<63,219,133,151,130,8,71,99>>, <<63,223,22,109,186,120,25,236>>, <<63,225,67,255,235,144,140,250>>,
            <<63,226,235,107,155,67,155,204>>, <<63,228,127,208,18,121,207,79>>, <<63,229,255,150,154,133,247,170>>, <<63,231,105,61,56,245,102,224>>,
            <<63,232,187,88,51,193,141,68>>, <<63,233,244,147,127,32,118,204>>, <<63,235,19,180,19,132,58,60>>, <<63,236,23,153,42,113,112,24>>,
            <<63,236,255,61,96,238,2,78>>, <<63,237,201,183,190,100,55,137>>, <<63,238,118,60,158,241,158,102>>, <<63,239,4,30,128,54,41,129>>,
            <<63,239,114,206,175,213,131,126>>, <<63,239,193,221,218,251,24,203>>, <<63,239,240,252,126,80,128,14>>, <<63,239,255,251,53,245,166,218>>,
            <<63,239,238,202,237,42,83,169>>, <<63,239,189,124,237,121,15,155>>, <<63,239,108,66,205,84,52,128>>, <<63,238,251,110,62,54,157,246>>,
            <<63,238,107,112,186,122,36,111>>, <<63,237,188,219,19,54,131,234>>, <<63,236,240,92,222,155,122,249>>, <<63,236,6,195,199,88,152,141>>,
            <<63,235,0,250,189,196,88,41>>, <<63,233,224,9,11,146,147,209>>, <<63,232,165,17,75,7,241,85>>, <<63,231,81,80,66,180,152,221>>,
            <<63,229,230,27,166,220,48,188>>, <<63,228,100,224,193,203,126,134>>, <<63,226,207,35,4,117,90,141>>, <<63,225,38,122,128,200,108,76>>,
            <<63,222,217,36,158,139,70,70>>, <<63,219,70,77,194,232,66,17>>, <<63,215,152,8,133,197,65,181>>, <<63,211,210,8,148,239,224,220>>,
            <<63,207,240,50,247,143,19,21>>, <<63,200,28,53,164,61,4,77>>, <<63,192,47,248,173,226,34,181>>, <<63,176,102,231,235,118,247,7>>,
            <<63,87,87,222,89,246,122,236>>, <<191,175,89,13,194,168,119,27>>, <<191,191,166,169,173,53,208,213>>, <<191,199,192,123,166,183,8,85>>,
            <<191,207,149,191,20,144,28,183>>, <<191,211,165,159,45,25,240,93>>, <<191,215,108,156,82,66,203,239>>, <<191,219,28,10,111,186,216,230>>,
            <<191,222,176,52,173,31,236,35>>, <<191,225,18,192,207,0,13,124>>, <<191,226,188,59,112,72,12,232>>, <<191,228,82,222,78,148,172,171>>,
            <<191,229,213,16,113,133,158,114>>, <<191,231,65,77,111,126,224,125>>, <<191,232,150,38,244,77,16,14>>, <<191,233,210,70,49,147,231,167>>,
            <<191,234,244,109,55,148,81,246>>, <<191,235,251,120,52,239,84,199>>, <<191,236,230,94,156,36,61,106>>, <<191,237,180,52,45,162,217,66>>,
            <<191,238,100,41,229,102,45,198>>, <<191,238,245,142,203,40,170,112>>, <<191,239,103,208,164,96,121,177>>, <<191,239,186,124,135,80,232,85>>,
            <<191,239,237,63,78,156,252,101>>, <<191,239,255,229,236,230,254,168>>, <<191,239,242,93,160,40,220,117>>, <<191,239,196,180,4,145,189,151>>,
            <<191,239,119,23,6,213,213,192>>, <<191,239,9,212,181,254,53,9>>, <<191,238,125,90,244,231,12,78>>, <<191,237,210,55,11,187,88,145>>,
            <<191,237,9,21,25,221,32,220>>, <<191,236,34,191,104,201,39,52>>, <<191,235,32,29,160,164,49,68>>, <<191,234,2,51,223,62,125,17>>,
            <<191,232,202,33,178,119,186,154>>, <<191,231,121,32,247,10,164,138>>, <<191,230,16,132,156,227,22,116>>, <<191,228,145,183,82,60,22,20>>,
            <<191,226,254,58,22,220,177,3>>, <<191,225,87,162,184,226,123,255>>, <<191,223,63,52,121,62,89,63>>, <<191,219,175,182,98,71,136,197>>,
            <<191,216,4,95,230,78,98,129>>, <<191,212,64,225,192,16,51,35>>, <<191,208,105,4,245,114,190,197>>, <<191,201,1,78,17,221,16,157>>,
            <<191,193,23,108,44,188,174,172>>, <<191,178,56,179,124,116,4,47>>, <<191,129,129,217,45,99,65,176>>, <<63,171,180,225,70,231,120,219>>,
            <<63,189,215,45,160,212,130,137>>, <<63,198,218,243,203,209,87,180>>, <<63,206,179,84,62,21,129,70>>, <<63,211,54,106,31,214,120,79>>,
            <<63,214,255,215,123,110,156,152>>, <<63,218,178,35,51,255,191,145>>, <<63,222,73,149,143,86,168,186>>, <<63,224,225,72,234,8,129,241>>,
            <<63,226,140,204,245,210,200,81>>, <<63,228,37,168,242,206,50,151>>, <<63,229,170,65,172,55,129,213>>, <<63,231,25,16,78,85,39,200>>,
            <<63,232,112,163,239,137,74,103>>, <<63,233,175,163,3,89,113,37>>, <<63,234,212,204,181,246,193,105>>, <<63,235,222,250,46,233,56,122>>,
            <<63,236,205,31,185,153,97,215>>, <<63,237,158,77,210,142,75,236>>, <<63,238,81,178,24,80,241,27>>, <<63,238,230,152,31,2,209,210>>,
            <<63,239,92,106,37,210,236,207>>, <<63,239,178,177,173,154,158,62>>, <<63,239,233,23,240,10,226,207>>, <<63,239,255,102,54,242,41,62>>,
            <<63,239,245,134,19,66,232,65>>, <<63,239,203,129,115,163,162,184>>, <<63,239,129,130,154,113,169,38>>, <<63,239,23,211,243,64,163,236>>,
            <<63,238,142,223,200,1,165,106>>, <<63,237,231,47,214,29,10,215>>, <<63,237,33,108,195,234,175,26>>, <<63,236,62,93,119,19,195,91>>,
            <<63,235,62,230,76,136,226,11>>, <<63,234,36,8,50,213,147,120>>, <<63,232,238,223,167,184,53,197>>, <<63,231,160,163,154,2,58,210>>,
            <<63,230,58,164,48,224,114,213>>, <<63,228,190,73,121,197,240,13>>, <<63,227,45,17,254,77,129,202>>, <<63,225,136,145,67,126,5,35>>,
            <<63,223,164,220,103,232,219,1>>, <<63,220,24,194,237,23,116,169>>, <<63,216,112,103,102,93,61,79>>, <<63,212,175,119,143,33,43,113>>,
            <<63,208,217,185,219,56,145,135>>, <<63,201,230,19,85,206,118,31>>, <<63,193,254,166,211,168,151,123>>, <<63,180,10,66,115,106,188,179>>,
            <<63,144,12,62,42,210,120,112>>, <<191,168,16,88,165,103,118,129>>, <<191,188,7,78,85,206,82,151>>, <<191,197,245,31,237,158,195,29>>,
            <<191,205,208,131,76,198,144,236>>, <<191,210,198,245,44,189,139,148>>, <<191,214,146,198,38,157,105,192>>, <<191,218,71,227,47,14,116,159>>,
            <<191,221,226,145,182,105,176,31>>, <<191,224,175,152,225,47,240,46>>, <<191,226,93,32,201,163,175,18>>, <<191,227,248,48,149,129,118,106>>,
            <<191,229,127,42,216,250,175,181>>, <<191,230,240,134,91,76,24,26>>, <<191,232,74,207,162,56,75,12>>, <<191,233,140,170,103,163,218,189>>,
            <<191,234,180,210,247,219,45,96>>, <<191,235,194,31,119,33,210,35>>, <<191,236,179,129,13,67,235,207>>, <<191,237,136,4,245,252,94,12>>,
            <<191,238,62,213,117,29,202,163>>, <<191,238,215,58,173,136,206,20>>, <<191,239,80,155,90,23,75,20>>, <<191,239,170,125,103,194,197,161>>,
            <<191,239,228,134,112,106,202,183>>, <<191,239,254,124,21,191,229,73>>, <<191,239,248,68,59,247,177,241>>, <<191,239,209,229,36,15,6,36>>,
            <<191,239,139,133,101,127,195,75>>, <<191,239,37,107,199,112,167,104>>, <<191,238,159,254,249,134,38,255>>, <<191,237,251,197,44,155,229,88>>,
            <<191,237,57,99,139,206,171,33>>, <<191,236,89,157,150,94,151,55>>, <<191,235,93,84,91,16,156,8>>, <<191,234,69,133,149,213,5,242>>,
            <<191,233,19,74,176,150,184,53>>, <<191,231,199,215,168,51,190,92>>, <<191,230,100,121,214,187,225,97>>, <<191,228,234,150,164,44,194,14>>,
            <<191,227,91,170,30,252,180,220>>, <<191,225,185,69,125,221,210,24>>, <<191,224,5,13,140,57,190,223>>, <<191,220,129,114,5,247,225,21>>,
            <<191,216,220,29,158,168,52,166>>, <<191,213,29,200,146,89,13,8>>, <<191,209,74,54,182,65,11,246>>, <<191,202,202,130,119,54,216,83>>,
            <<191,194,229,165,161,158,56,110>>, <<191,181,219,142,195,252,57,156>>, <<191,151,87,90,95,157,4,98>>, <<63,164,107,127,251,156,71,23>>,
            <<63,186,55,17,210,230,116,212>>, <<63,197,15,3,8,125,177,131>>, <<63,204,237,79,50,253,182,56>>, <<63,210,87,65,198,127,11,206>>,
            <<63,214,37,105,190,140,237,22>>, <<63,217,221,75,194,69,186,221>>, <<63,221,123,42,120,245,109,144>>, <<63,224,125,177,89,183,18,212>>,
            <<63,226,45,55,138,71,207,19>>, <<63,227,202,117,205,232,100,40>>, <<63,229,83,204,135,29,221,6>>, <<63,230,199,176,29,55,8,218>>,
            <<63,232,36,170,138,42,116,155>>, <<63,233,105,92,210,194,10,52>>, <<63,234,148,128,103,154,3,175>>, <<63,235,164,232,109,144,34,238>>,
            <<63,236,153,130,236,88,235,214>>, <<63,237,113,89,226,10,125,157>>, <<63,238,43,148,58,135,250,20>>, <<63,238,199,118,169,212,155,42>>,
            <<63,239,68,100,104,114,230,11>>, <<63,239,161,223,209,18,135,59>>, <<63,239,223,138,222,238,67,3>>, <<63,239,253,39,140,90,224,6>>,
            <<63,239,250,152,17,39,245,203>>, <<63,239,215,223,0,147,223,218>>, <<63,239,149,31,70,180,182,215>>, <<63,239,50,156,5,88,233,90>>,
            <<63,238,176,184,80,130,201,229>>, <<63,238,15,246,202,194,245,89>>, <<63,237,80,249,33,213,207,197>>, <<63,236,116,127,108,8,53,79>>,
            <<63,235,123,103,103,6,237,68>>, <<63,234,102,171,152,219,42,225>>, <<63,233,55,98,83,244,99,230>>, <<63,231,238,188,159,60,237,144>>,
            <<63,230,142,5,3,82,219,232>>, <<63,229,22,158,62,25,181,65>>, <<63,227,138,1,221,243,77,134>>, <<63,225,233,190,198,6,158,21>>,
            <<63,224,55,119,157,18,124,93>>, <<63,220,233,194,80,191,110,49>>, <<63,217,71,129,40,243,250,137>>, <<63,213,139,211,90,210,233,64>>,
            <<63,209,186,122,16,110,155,23>>, <<63,203,174,152,126,90,67,122>>, <<63,195,204,101,150,93,3,173>>, <<63,183,172,146,98,167,94,145>>,
            <<63,158,162,40,243,94,92,149>>, <<191,160,198,99,104,4,46,65>>, <<191,184,102,126,32,22,20,124>>, <<191,196,40,160,25,191,94,72>>,
            <<191,204,9,186,228,95,36,83>>, <<191,209,231,81,96,154,141,62>>, <<191,213,183,195,174,244,149,237>>, <<191,217,114,94,80,39,11,25>>,
            <<191,221,19,97,46,224,213,132>>, <<191,224,75,146,249,151,53,101>>, <<191,225,253,17,215,23,89,133>>, <<191,227,156,121,52,25,205,1>>,
            <<191,229,40,39,70,221,131,70>>, <<191,230,158,142,27,231,14,114>>, <<191,231,254,53,38,60,221,8>>, <<191,233,69,186,186,29,127,142>>,
            <<191,234,115,213,112,179,24,94>>, <<191,235,135,85,115,94,54,35>>, <<191,236,127,37,173,74,234,131>>, <<191,237,90,76,226,28,190,244>>,
            <<191,238,23,238,168,153,76,164>>, <<191,238,183,76,72,85,86,122>>, <<191,239,55,197,121,133,112,80>>, <<191,239,152,217,6,49,79,175>>,
            <<191,239,218,37,76,39,160,22>>, <<191,239,251,104,159,47,171,5>>, <<191,239,252,129,139,22,15,171>>, <<191,239,221,110,245,82,31,4>>,
            <<191,239,158,80,30,34,3,137>>, <<191,239,63,100,129,28,151,131>>, <<191,238,193,11,149,88,134,138>>, <<191,238,35,196,109,104,239,49>>,
            <<191,237,104,45,55,144,25,63>>, <<191,236,143,2,158,168,197,0>>, <<191,235,153,31,12,102,21,11>>, <<191,234,135,121,205,168,238,145>>,
            <<191,233,91,38,25,199,181,66>>, <<191,232,21,81,253,194,143,133>>, <<191,230,183,69,44,122,143,4>>, <<191,229,66,95,181,29,78,214>>,
            <<191,227,184,24,161,16,115,80>>, <<191,226,25,252,122,193,49,142>>, <<191,224,105,171,190,211,53,210>>, <<191,221,81,178,114,128,10,127>>,
            <<191,217,178,144,160,24,59,155>>, <<191,213,249,150,122,147,94,28>>, <<191,210,42,130,116,98,231,56>>, <<191,204,146,82,116,165,42,170>>,
            <<191,196,178,227,178,117,97,161>>, <<191,185,125,71,68,220,180,201>>, <<191,162,246,72,210,178,179,177>>, <<63,154,66,30,19,254,27,249>>,
            <<63,182,149,153,70,120,85,28>>, <<63,195,65,250,31,157,243,185>>, <<63,203,37,201,85,206,254,6>>, <<63,209,119,37,111,90,127,94>>,
            <<63,213,73,213,100,128,194,125>>, <<63,217,7,28,60,81,245,119>>, <<63,220,171,55,49,88,252,19>>, <<63,224,25,62,103,128,14,219>>,
            <<63,225,204,176,80,51,138,95>>, <<63,227,110,59,97,7,107,45>>, <<63,228,252,59,169,98,5,247>>, <<63,230,117,32,224,41,56,10>>,
            <<63,231,215,111,246,87,169,10>>, <<63,233,33,196,148,56,207,195>>, <<63,234,82,210,127,204,65,62>>, <<63,235,105,102,234,231,220,241>>,
            <<63,236,100,105,167,200,200,13>>, <<63,237,66,222,66,220,225,50>>, <<63,238,3,229,0,169,71,111>>, <<63,238,166,187,190,206,146,169>>,
            <<63,239,42,190,183,72,119,41>>, <<63,239,143,105,37,36,111,8>>, <<63,239,212,85,202,9,196,126>>, <<63,239,249,63,84,12,173,147>>,
            <<63,239,254,0,163,102,20,180>>, <<63,239,226,148,239,201,235,226>>, <<63,239,167,23,205,54,128,19>>, <<63,239,75,197,16,55,244,231>>,
            <<63,238,208,248,145,187,206,129>>, <<63,238,55,45,210,177,14,82>>, <<63,237,126,255,127,209,202,209>>, <<63,236,169,38,214,19,44,204>>,
            <<63,235,182,122,232,88,76,117>>, <<63,234,167,239,199,35,69,214>>, <<63,233,126,149,139,30,23,75>>, <<63,232,59,151,67,114,36,67>>,
            <<63,230,224,57,201,1,160,157>>, <<63,229,109,218,119,177,85,141>>, <<63,227,229,237,207,11,105,19>>, <<63,226,73,253,251,156,120,172>>,
            <<63,224,155,169,74,131,219,46>>, <<63,221,185,65,17,139,120,61>>, <<63,218,29,74,160,4,70,162>>, <<63,214,103,16,132,141,100,171>>,
            <<63,210,154,78,109,131,177,140>>, <<63,205,117,173,100,182,35,111>>, <<63,197,153,28,247,82,196,253>>, <<63,187,77,167,97,18,194,102>>,
            <<63,166,155,62,27,41,241,86>>, <<191,146,247,30,3,77,42,117>>, <<191,180,196,105,80,54,79,189>>, <<191,194,91,20,25,50,158,160>>,
            <<191,202,65,125,125,103,136,59>>, <<191,209,6,191,103,207,90,138>>, <<191,212,219,160,76,206,18,10>>, <<191,216,155,134,235,127,125,46>>,
            <<191,220,66,173,218,204,138,191>>, <<191,223,205,104,149,171,34,130>>, <<191,225,156,19,150,132,154,95>>, <<191,227,63,188,238,123,227,166>>,
            <<191,228,208,10,64,189,206,111>>, <<191,230,75,104,243,196,199,39>>, <<191,231,176,91,123,108,97,103>>, <<191,232,253,122,216,174,27,211>>,
            <<191,234,49,120,2,175,237,177>>, <<191,235,75,29,55,185,104,83>>, <<191,236,73,79,52,188,153,144>>, <<191,237,43,14,82,57,82,12>>,
            <<191,237,239,119,133,92,77,22>>, <<191,238,149,197,68,87,162,140>>, <<191,239,29,80,77,14,213,92>>, <<191,239,133,144,77,78,182,31>>,
            <<191,239,206,28,107,231,229,8>>, <<191,239,246,171,178,34,17,114>>, <<191,239,255,21,85,29,232,151>>, <<191,239,231,80,222,219,229,137>>,
            <<191,239,175,118,54,190,191,117>>, <<191,239,87,189,137,128,230,204>>, <<191,238,224,127,16,181,64,123>>, <<191,238,74,50,186,11,239,159>>,
            <<191,237,149,111,174,180,108,164>>, <<191,236,194,235,187,86,56,237>>, <<191,235,211,122,153,57,19,45>>, <<191,234,200,13,25,84,151,56>>,
            <<191,233,161,176,50,29,106,85>>, <<191,232,97,139,241,3,144,212>>, <<191,231,8,226,80,177,249,172>>, <<191,229,153,13,245,58,183,57>>,
            <<191,228,19,128,207,117,144,92>>, <<191,226,121,194,168,239,151,76>>, <<191,224,205,111,153,225,230,21>>, <<191,222,32,108,213,119,199,121>>,
            <<191,218,135,173,197,195,169,9>>, <<191,214,212,64,12,167,0,25>>, <<191,211,9,220,135,255,177,36>>, <<191,206,88,166,90,103,219,243>>,
            <<191,198,127,14,103,69,148,97>>, <<191,189,29,172,174,217,222,244>>, <<191,170,63,232,52,55,164,64>>, <<63,135,87,189,190,149,240,215>>,
            <<63,178,242,244,72,114,236,180>>, <<63,193,115,241,6,107,143,37>>, <<63,201,92,218,82,111,92,104>>, <<63,208,150,32,191,202,203,26>>,
            <<63,212,109,37,214,100,149,223>>, <<63,216,47,159,195,125,130,254>>, <<63,219,217,198,134,231,78,140>>, <<63,223,103,234,151,91,134,15>>,
            <<63,225,107,60,75,183,161,73>>, <<63,227,16,254,119,24,200,60>>, <<63,228,163,147,159,235,96,171>>, <<63,230,33,102,225,121,100,2>>,
            <<63,231,136,248,55,116,68,194>>, <<63,232,216,222,0,45,129,208>>, <<63,234,15,198,104,75,184,108>>, <<63,235,44,120,190,142,95,138>>,
            <<63,236,45,214,174,74,130,66>>, <<63,237,18,221,95,100,39,108>>, <<63,237,218,166,122,162,194,134>>, <<63,238,132,105,17,90,228,61>>,
            <<63,239,15,122,103,132,36,169>>, <<63,239,123,78,159,112,12,239>>, <<63,239,199,121,70,117,72,167>>, <<63,239,243,173,194,1,170,149>>,
            <<63,239,255,191,156,165,78,31>>, <<63,239,235,162,178,201,90,253>>, <<63,239,183,107,62,229,114,119>>, <<63,239,99,77,197,39,126,27>>,
            <<63,238,239,158,222,162,87,170>>, <<63,238,92,210,228,56,103,127>>, <<63,237,171,125,121,151,203,92>>, <<63,236,220,80,248,189,185,90>>,
            <<63,235,240,29,190,150,112,167>>, <<63,234,231,209,89,110,32,94>>, <<63,233,196,117,154,5,144,207>>, <<63,232,135,47,136,58,196,157>>,
            <<63,231,49,62,60,82,144,19>>, <<63,229,195,249,158,11,107,230>>, <<63,228,64,209,10,188,101,34>>, <<63,226,169,73,227,219,253,163>>,
            <<63,224,254,254,7,98,132,144>>, <<63,222,135,52,103,35,202,65>>, <<63,218,241,184,175,130,199,193>>, <<63,215,65,35,167,190,7,160>>,
            <<63,211,121,43,80,211,90,29>>, <<63,207,59,58,98,218,206,157>>, <<63,199,100,181,5,141,21,12>>, <<63,190,237,81,38,240,123,171>>,
            <<63,173,228,58,255,248,151,38>>, <<191,113,129,227,168,122,118,110>>, <<191,177,33,64,59,54,186,41>>, <<191,192,140,147,232,1,242,227>>,
            <<191,200,119,226,205,79,115,222>>, <<191,208,37,74,237,218,210,74>>, <<191,211,254,103,112,179,29,101>>, <<191,215,195,104,43,42,18,77>>,
            <<191,219,112,130,146,141,165,96>>, <<191,223,2,4,37,157,26,211>>, <<191,225,58,43,18,60,130,3>>, <<191,226,226,0,150,84,151,190>>,
            <<191,228,118,216,90,203,123,152>>, <<191,229,247,27,52,253,80,192>>, <<191,231,97,70,173,110,152,167>>, <<191,232,179,238,132,123,137,147>>,
            <<191,233,237,190,32,174,245,94>>, <<191,235,13,121,229,80,45,117>>, <<191,236,18,0,111,207,135,71>>, <<191,236,250,75,186,210,27,77>>,
            <<191,237,197,114,37,184,42,58>>, <<191,238,114,167,95,149,3,31>>, <<191,239,1,61,52,172,40,151>>, <<191,239,112,164,61,165,6,255>>,
            <<191,239,192,108,111,197,3,219>>, <<191,239,240,69,141,158,219,55>>, <<191,239,255,255,119,197,243,19>>, <<191,239,239,138,93,52,127,105>>,
            <<191,239,190,246,203,51,196,116>>, <<191,239,110,117,156,182,124,83>>, <<191,238,254,87,201,54,25,18>>, <<191,238,111,14,19,68,84,237>>,
            <<191,237,193,40,151,34,237,50>>, <<191,236,245,86,57,211,161,242>>, <<191,236,12,99,249,50,54,107>>, <<191,235,7,60,29,201,93,26>>,
            <<191,233,230,229,79,49,239,88>>, <<191,232,172,129,139,233,94,125>>, <<191,231,89,77,5,169,32,2>>, <<191,229,238,156,227,100,79,60>>,
            <<191,228,109,221,234,43,116,73>>, <<191,226,216,147,14,79,123,18>>, <<191,225,48,83,238,52,193,76>>, <<191,222,237,150,112,187,150,51>>,
            <<191,219,91,105,252,147,121,236>>, <<191,215,173,185,235,172,207,72>>, <<191,211,232,57,85,205,190,220>>, <<191,208,14,179,70,63,151,229>>,
            <<191,200,74,13,214,97,98,49>>, <<191,192,94,71,97,171,140,18>>, <<191,176,196,21,48,213,231,110>>, <<191,103,87,220,204,118,166,245>>,
            <<63,174,158,166,106,183,191,4>>, <<63,191,73,255,126,224,32,11>>, <<63,199,146,153,231,137,82,128>>, <<63,207,104,126,210,137,197,104>>,
            <<63,211,143,102,140,10,98,221>>, <<63,215,86,225,138,110,189,34>>, <<63,219,6,227,91,216,2,61>>, <<63,222,155,182,147,87,18,184>>,
            <<63,225,8,224,141,67,203,217>>, <<63,226,178,195,232,120,179,75>>, <<63,228,73,217,6,35,39,249>>, <<63,229,204,134,122,251,158,159>>,
            <<63,231,57,71,97,94,247,59>>, <<63,232,142,172,224,111,147,126>>, <<63,233,203,95,157,9,62,31>>, <<63,234,238,33,19,20,209,71>>,
            <<63,235,245,204,213,224,92,105>>, <<63,236,225,89,182,57,124,213>>, <<63,237,175,218,205,34,65,47>>, <<63,238,96,128,106,20,58,62>>,
            <<63,238,242,152,227,226,52,160>>, <<63,239,101,145,75,102,112,189>>, <<63,239,184,245,255,73,175,19>>, <<63,239,236,115,32,78,114,48>>,
            <<63,239,255,212,229,171,119,151>>, <<63,239,243,7,209,32,153,122>>, <<63,239,198,24,194,145,179,22>>, <<63,239,121,52,235,19,210,72>>,
            <<63,239,12,169,159,121,186,6>>, <<63,238,128,228,10,141,112,104>>, <<63,237,214,112,191,69,8,147>>, <<63,237,13,251,43,97,34,5>>,
            <<63,236,40,76,235,3,62,71>>, <<63,235,38,76,253,233,98,117>>, <<63,234,8,254,223,26,239,45>>, <<63,232,209,129,127,240,75,59>>,
            <<63,231,129,14,39,123,239,65>>, <<63,230,24,247,55,118,252,203>>, <<63,228,154,166,215,238,79,86>>, <<63,227,7,157,139,6,70,37>>,
            <<63,225,97,112,170,67,166,10>>, <<63,223,83,145,157,188,232,252>>, <<63,219,196,192,77,113,170,113>>, <<63,216,26,1,111,78,235,70>>,
            <<63,212,87,5,37,149,78,26>>, <<63,208,127,147,243,143,76,120>>, <<63,201,47,21,222,253,100,242>>, <<63,193,69,175,191,178,25,128>>,
            <<63,178,149,213,30,237,121,117>>, <<63,132,108,204,209,202,72,79>>, <<191,170,250,102,136,244,44,64>>, <<191,189,122,111,29,206,116,141>>,
            <<191,198,173,2,155,173,41,255>>, <<191,206,133,255,84,2,23,166>>, <<191,211,32,36,153,152,72,22>>, <<191,214,234,13,74,59,242,222>>,
            <<191,218,156,234,66,14,93,79>>, <<191,222,53,3,52,199,155,106>>, <<191,224,215,93,96,188,153,52>>, <<191,226,131,73,10,159,93,0>>,
            <<191,228,28,150,55,153,200,11>>, <<191,229,161,169,65,18,78,126>>, <<191,231,16,250,216,75,150,222>>, <<191,232,105,25,143,242,62,194>>,
            <<191,233,168,171,79,168,250,175>>, <<191,234,206,110,176,29,134,37>>, <<191,235,217,60,62,72,53,244>>, <<191,236,200,7,164,145,35,129>>,
            <<191,237,153,224,184,176,15,249>>, <<191,238,77,244,109,55,141,115>>, <<191,238,227,141,165,216,144,49>>, <<191,239,90,21,237,136,218,2>>,
            <<191,239,177,22,13,213,24,73>>, <<191,239,232,54,134,198,133,198>>, <<191,239,255,63,230,227,112,250>>, <<191,239,246,27,2,242,47,97>>,
            <<191,239,204,209,13,70,97,114>>, <<191,239,131,139,140,129,28,33>>, <<191,239,26,148,49,205,66,129>>, <<191,238,146,84,142,194,19,186>>,
            <<191,237,235,85,171,54,114,160>>, <<191,237,38,63,123,111,184,67>>, <<191,236,67,216,55,54,159,54>>, <<191,235,69,3,146,124,62,123>>,
            <<191,234,42,193,216,87,124,209>>, <<191,232,246,46,233,65,99,158>>, <<191,231,168,129,29,147,137,162>>, <<191,230,67,8,13,103,171,252>>,
            <<191,228,199,43,63,18,128,77>>, <<191,227,54,104,189,141,13,82>>, <<191,225,146,83,152,56,91,169>>, <<191,223,185,36,154,251,154,41>>,
            <<191,220,45,186,67,199,211,84>>, <<191,216,133,248,202,133,212,13>>, <<191,212,197,141,79,172,182,20>>, <<191,208,240,61,193,242,246,178>>,
            <<191,202,19,202,37,168,165,165>>, <<191,194,44,222,171,236,66,186>>, <<191,180,103,87,61,65,96,216>>, <<191,145,129,175,65,43,91,231>>,
            <<63,167,85,204,237,164,159,155>>, <<63,187,170,124,178,139,146,223>>, <<63,197,199,31,229,79,233,215>>, <<63,205,163,26,81,106,35,163>>,
            <<63,210,176,163,11,99,14,108>>, <<63,214,124,236,212,132,76,30>>, <<63,218,50,152,165,163,150,235>>, <<63,221,205,235,95,127,118,80>>,
            <<63,224,165,162,49,82,117,42>>, <<63,226,83,144,154,177,166,250>>, <<63,227,239,16,133,183,42,107>>, <<63,229,118,132,21,208,131,77>>,
            <<63,230,232,97,152,59,141,160>>, <<63,232,67,53,15,251,201,93>>, <<63,233,133,161,171,249,228,43>>, <<63,234,174,99,37,213,102,189>>,
            <<63,235,188,79,8,7,141,112>>, <<63,236,174,85,218,15,89,251>>, <<63,237,131,132,49,121,0,180>>, <<63,238,59,3,166,174,2,202>>,
            <<63,238,212,27,172,151,212,62>>, <<63,239,78,50,74,60,27,252>>, <<63,239,168,204,181,151,241,58>>, <<63,239,227,143,207,30,72,226>>,
            <<63,239,254,64,125,93,103,204>>, <<63,239,248,195,232,111,44,218>>, <<63,239,211,31,148,248,103,197>>, <<63,239,141,121,94,156,24,102>>,
            <<63,239,40,23,81,232,44,23>>, <<63,238,163,95,101,226,0,56>>, <<63,237,255,215,21,121,137,228>>, <<63,237,62,34,217,74,68,51>>,
            <<63,236,95,5,130,48,231,203>>, <<63,235,99,95,117,92,76,32>>, <<63,234,76,45,202,158,124,144>>, <<63,233,26,137,77,225,7,147>>,
            <<63,231,207,165,100,188,116,157>>, <<63,230,108,206,217,78,254,185>>, <<63,228,243,106,139,137,123,85>>, <<63,227,100,244,10,66,252,9>>,
            <<63,225,194,252,21,124,75,24>>, <<63,224,15,39,11,83,4,44>>, <<63,220,150,86,130,115,151,155>>, <<63,216,241,158,150,61,153,156>>,
            <<63,213,51,208,100,119,149,103>>, <<63,209,96,175,58,183,126,63>>, <<63,202,248,39,177,193,57,21>>, <<63,195,19,209,37,121,101,127>>,
            <<63,182,56,149,127,157,120,18>>, <<63,152,204,189,224,26,30,25>>, <<191,163,176,229,182,117,149,127>>, <<191,185,218,46,68,26,66,239>>,
            <<191,196,224,244,193,1,71,246>>, <<191,204,191,210,189,95,13,212>>, <<191,210,64,227,84,68,132,89>>, <<191,214,15,129,148,55,209,81>>,
            <<191,217,199,239,232,48,250,249>>, <<191,221,102,112,106,93,133,14>>, <<191,224,115,175,164,107,45,158>>, <<191,226,35,155,55,101,107,217>>,
            <<191,227,193,72,135,225,147,40>>, <<191,229,75,23,136,180,165,202>>, <<191,230,191,124,40,53,23,173>>, <<191,232,28,255,222,146,117,157>>,
            <<191,233,98,67,38,131,131,22>>, <<191,234,141,254,222,208,19,18>>, <<191,235,159,5,147,82,228,162>>, <<191,236,148,68,172,40,196,175>>,
            <<191,237,108,197,129,219,233,103>>, <<191,238,39,174,85,117,212,112>>, <<191,238,196,67,43,126,66,252>>, <<191,239,65,230,137,10,217,214>>,
            <<191,239,160,26,18,33,120,24>>, <<191,239,222,127,8,205,220,172>>, <<191,239,252,214,172,106,209,128>>, <<191,239,251,2,120,191,5,100>>,
            <<191,239,217,4,68,174,28,243>>, <<191,239,150,254,64,95,26,166>>, <<191,239,53,50,210,217,252,137>>, <<191,238,180,4,87,63,31,243>>,
            <<191,238,19,244,185,219,158,50>>, <<191,237,85,164,245,126,19,216>>, <<191,236,121,212,113,143,72,65>>, <<191,235,129,96,65,145,136,152>>,
            <<191,234,109,66,70,200,70,221>>, <<191,233,62,144,52,231,176,15>>, <<191,231,246,122,122,200,229,196>>, <<191,230,150,75,16,59,212,52>>,
            <<191,229,31,100,42,42,134,145>>, <<191,227,147,62,214,91,193,233>>, <<191,225,243,105,128,59,60,140>>, <<191,224,65,134,96,36,183,115>>,
            <<191,220,254,147,173,138,79,248>>, <<191,217,92,241,108,113,147,57>>, <<191,213,161,204,245,63,79,0>>, <<191,209,208,230,231,229,46,111>>,
            <<191,203,220,43,139,197,189,158>>, <<191,195,250,132,44,65,233,204>>, <<191,184,9,137,218,175,65,242>>, <<191,160,11,189,2,21,168,184>>,
            <<63,160,11,189,2,21,167,158>>, <<63,184,9,137,218,175,73,93>>, <<63,195,250,132,44,65,233,134>>, <<63,203,220,43,139,197,193,65>>,
            <<63,209,208,230,231,229,46,77>>, <<63,213,161,204,245,63,78,223>>, <<63,217,92,241,108,113,147,25>>, <<63,220,254,147,173,138,79,217>>,
            <<63,224,65,134,96,36,185,29>>, <<63,225,243,105,128,59,60,125>>, <<63,227,147,62,214,91,194,166>>, <<63,229,31,100,42,42,134,131>>,
            <<63,230,150,75,16,59,212,39>>, <<63,231,246,122,122,200,229,185>>, <<63,233,62,144,52,231,175,103>>, <<63,234,109,66,70,200,71,100>>,
            <<63,235,129,96,65,145,136,143>>, <<63,236,121,212,113,143,73,34>>, <<63,237,85,164,245,126,19,209>>, <<63,238,19,244,185,219,158,44>>,
            <<63,238,180,4,87,63,32,126>>, <<63,239,53,50,210,217,252,133>>, <<63,239,150,254,64,95,26,245>>, <<63,239,217,4,68,174,28,241>>,
            <<63,239,251,2,120,191,5,108>>, <<63,239,252,214,172,106,209,136>>, <<63,239,222,127,8,205,220,174>>, <<63,239,160,26,18,33,119,243>>,
            <<63,239,65,230,137,10,217,218>>, <<63,238,196,67,43,126,66,187>>, <<63,238,39,174,85,117,212,118>>, <<63,237,108,197,129,219,233,110>>,
            <<63,236,148,68,172,40,196,183>>, <<63,235,159,5,147,82,228,170>>, <<63,234,141,254,222,208,17,254>>, <<63,233,98,67,38,131,131,33>>,
            <<63,232,28,255,222,146,117,0>>, <<63,230,191,124,40,53,23,185>>, <<63,229,75,23,136,180,165,215>>, <<63,227,193,72,135,225,147,54>>,
            <<63,226,35,155,55,101,107,232>>, <<63,224,115,175,164,107,44,210>>, <<63,221,102,112,106,93,133,45>>, <<63,217,199,239,232,48,247,112>>,
            <<63,214,15,129,148,55,209,114>>, <<63,210,64,227,84,68,132,122>>, <<63,204,191,210,189,95,6,77>>, <<63,196,224,244,193,1,72,60>>,
            <<63,185,218,46,68,26,51,144>>, <<63,163,176,229,182,117,150,153>>, <<191,152,204,189,224,26,27,229>>, <<191,182,56,149,127,157,119,133>>,
            <<191,195,19,209,37,121,101,57>>, <<191,202,248,39,177,193,60,185>>, <<191,209,96,175,58,183,126,29>>, <<191,213,51,208,100,119,151,41>>,
            <<191,216,241,158,150,61,153,124>>, <<191,220,150,86,130,115,151,123>>, <<191,224,15,39,11,83,4,29>>, <<191,225,194,252,21,124,75,9>>,
            <<191,227,100,244,10,66,253,146>>, <<191,228,243,106,139,137,123,72>>, <<191,230,108,206,217,79,0,26>>, <<191,231,207,165,100,188,116,146>>,
            <<191,233,26,137,77,225,7,136>>, <<191,234,76,45,202,158,125,24>>, <<191,235,99,95,117,92,76,23>>, <<191,236,95,5,130,48,232,57>>,
            <<191,237,62,34,217,74,68,44>>, <<191,237,255,215,21,121,137,133>>, <<191,238,163,95,101,226,0,51>>, <<191,239,40,23,81,232,44,19>>,
            <<191,239,141,121,94,156,24,185>>, <<191,239,211,31,148,248,103,195>>, <<191,239,248,195,232,111,44,239>>, <<191,239,254,64,125,93,103,204>>,
            <<191,239,227,143,207,30,72,227>>, <<191,239,168,204,181,151,241,61>>, <<191,239,78,50,74,60,28,0>>, <<191,238,212,27,172,151,211,254>>,
            <<191,238,59,3,166,174,3,36>>, <<191,237,131,132,49,121,0,88>>, <<191,236,174,85,218,15,90,2>>, <<191,235,188,79,8,7,141,121>>,
            <<191,234,174,99,37,213,102,199>>, <<191,233,133,161,171,249,228,54>>, <<191,232,67,53,15,251,200,27>>, <<191,230,232,97,152,59,141,173>>,
            <<191,229,118,132,21,208,129,223>>, <<191,227,239,16,133,183,42,121>>, <<191,226,83,144,154,177,167,8>>, <<191,224,165,162,49,82,116,94>>,
            <<191,221,205,235,95,127,118,111>>, <<191,218,50,152,165,163,149,56>>, <<191,214,124,236,212,132,76,63>>, <<191,210,176,163,11,99,14,142>>,
            <<191,205,163,26,81,106,35,231>>, <<191,197,199,31,229,79,234,29>>, <<191,187,170,124,178,139,139,119>>, <<191,167,85,204,237,164,160,180>>,
            <<63,145,129,175,65,43,153,177>>, <<63,180,103,87,61,65,96,76>>, <<63,194,44,222,171,236,66,116>>, <<63,202,19,202,37,168,165,96>>,
            <<63,208,240,61,193,242,246,144>>, <<63,212,197,141,79,172,183,215>>, <<63,216,133,248,202,133,211,237>>, <<63,220,45,186,67,199,213,0>>,
            <<63,223,185,36,154,251,154,10>>, <<63,225,146,83,152,56,90,196>>, <<63,227,54,104,189,141,14,17>>, <<63,228,199,43,63,18,128,63>>,
            <<63,230,67,8,13,103,173,95>>, <<63,231,168,129,29,147,137,150>>, <<63,232,246,46,233,65,99,147>>, <<63,234,42,193,216,87,124,199>>,
            <<63,235,69,3,146,124,62,113>>, <<63,236,67,216,55,54,160,30>>, <<63,237,38,63,123,111,184,59>>, <<63,237,235,85,171,54,114,245>>,
            <<63,238,146,84,142,194,19,105>>, <<63,239,26,148,49,205,66,125>>, <<63,239,131,139,140,129,28,30>>, <<63,239,204,209,13,70,97,112>>,
            <<63,239,246,27,2,242,47,109>>, <<63,239,255,63,230,227,112,250>>, <<63,239,232,54,134,198,133,161>>, <<63,239,177,22,13,213,24,76>>,
            <<63,239,90,21,237,136,218,6>>, <<63,238,227,141,165,216,144,53>>, <<63,238,77,244,109,55,141,121>>, <<63,237,153,224,184,176,15,158>>,
            <<63,236,200,7,164,145,35,136>>, <<63,235,217,60,62,72,53,127>>, <<63,234,206,110,176,29,134,46>>, <<63,233,168,171,79,168,250,185>>,
            <<63,232,105,25,143,242,62,40>>, <<63,231,16,250,216,75,150,234>>, <<63,229,161,169,65,18,77,17>>, <<63,228,28,150,55,153,200,25>>,
            <<63,226,131,73,10,159,93,14>>, <<63,224,215,93,96,188,153,67>>, <<63,222,53,3,52,199,155,137>>, <<63,218,156,234,66,14,89,204>>,
            <<63,214,234,13,74,59,242,255>>, <<63,211,32,36,153,152,70,79>>, <<63,206,133,255,84,2,23,234>>, <<63,198,173,2,155,173,42,68>>,
            <<63,189,122,111,29,206,117,25>>, <<63,170,250,102,136,244,45,89>>, <<191,132,108,204,209,202,131,231>>, <<191,178,149,213,30,237,120,232>>,
            <<191,193,69,175,191,178,33,40>>, <<191,201,47,21,222,253,100,173>>, <<191,208,127,147,243,143,76,86>>, <<191,212,87,5,37,149,81,195>>,
            <<191,216,26,1,111,78,235,37>>, <<191,219,196,192,77,113,173,236>>, <<191,223,83,145,157,188,232,222>>, <<191,225,97,112,170,67,165,251>>,
            <<191,227,7,157,139,6,70,23>>, <<191,228,154,166,215,238,79,73>>, <<191,230,24,247,55,118,253,119>>, <<191,231,129,14,39,123,239,53>>,
            <<191,232,209,129,127,240,75,209>>, <<191,234,8,254,223,26,239,35>>, <<191,235,38,76,253,233,98,107>>, <<191,236,40,76,235,3,62,63>>,
            <<191,237,13,251,43,97,33,254>>, <<191,237,214,112,191,69,9,70>>, <<191,238,128,228,10,141,112,99>>, <<191,239,12,169,159,121,186,63>>,
            <<191,239,121,52,235,19,210,69>>, <<191,239,198,24,194,145,179,20>>, <<191,239,243,7,209,32,153,121>>, <<191,239,255,212,229,171,119,153>>,
            <<191,239,236,115,32,78,114,32>>, <<191,239,184,245,255,73,175,22>>, <<191,239,101,145,75,102,112,94>>, <<191,238,242,152,227,226,52,165>>,
            <<191,238,96,128,106,20,58,67>>, <<191,237,175,218,205,34,64,119>>, <<191,236,225,89,182,57,124,221>>, <<191,235,245,204,213,224,91,121>>,
            <<191,234,238,33,19,20,209,81>>, <<191,233,203,95,157,9,62,41>>, <<191,232,142,172,224,111,148,45>>, <<191,231,57,71,97,94,247,71>>,
            <<191,229,204,134,122,251,157,240>>, <<191,228,73,217,6,35,40,7>>, <<191,226,178,195,232,120,178,138>>, <<191,225,8,224,141,67,203,232>>,
            <<191,222,155,182,147,87,18,215>>, <<191,219,6,227,91,216,2,92>>, <<191,215,86,225,138,110,189,66>>, <<191,211,143,102,140,10,95,48>>,
            <<191,207,104,126,210,137,197,172>>, <<191,199,146,153,231,137,78,215>>, <<191,191,73,255,126,224,32,150>>, <<191,174,158,166,106,183,192,29>>,
            <<63,103,87,220,204,119,149,90>>, <<63,176,196,21,48,213,230,225>>, <<63,192,94,71,97,171,143,196>>, <<63,200,74,13,214,97,97,236>>,
            <<63,208,14,179,70,63,149,211>>, <<63,211,232,57,85,205,190,187>>, <<63,215,173,185,235,172,207,39>>, <<63,219,91,105,252,147,125,106>>,
            <<63,222,237,150,112,187,150,20>>, <<63,225,48,83,238,52,194,237>>, <<63,226,216,147,14,79,123,4>>, <<63,228,109,221,234,43,116,60>>,
            <<63,229,238,156,227,100,79,47>>, <<63,231,89,77,5,169,31,245>>, <<63,232,172,129,139,233,95,21>>, <<63,233,230,229,79,49,238,183>>,
            <<63,235,7,60,29,201,93,153>>, <<63,236,12,99,249,50,54,98>>, <<63,236,245,86,57,211,161,235>>, <<63,237,193,40,151,34,237,138>>,
            <<63,238,111,14,19,68,84,231>>, <<63,238,254,87,201,54,25,141>>, <<63,239,110,117,156,182,124,80>>, <<63,239,190,246,203,51,196,178>>,
            <<63,239,239,138,93,52,127,103>>, <<63,239,255,255,119,197,243,19>>, <<63,239,240,69,141,158,219,41>>, <<63,239,192,108,111,197,3,221>>,
            <<63,239,112,164,61,165,6,210>>, <<63,239,1,61,52,172,40,155>>, <<63,238,114,167,95,149,3,115>>, <<63,237,197,114,37,184,42,64>>,
            <<63,236,250,75,186,210,27,85>>, <<63,236,18,0,111,207,134,89>>, <<63,235,13,121,229,80,45,127>>, <<63,233,237,190,32,174,244,61>>,
            <<63,232,179,238,132,123,137,158>>, <<63,231,97,70,173,110,152,179>>, <<63,229,247,27,52,253,80,205>>, <<63,228,118,216,90,203,123,166>>,
            <<63,226,226,0,150,84,150,253>>, <<63,225,58,43,18,60,130,234>>, <<63,223,2,4,37,157,25,50>>, <<63,219,112,130,146,141,165,128>>,
            <<63,215,195,104,43,42,18,109>>, <<63,211,254,103,112,179,27,160>>, <<63,208,37,74,237,218,210,108>>, <<63,200,119,226,205,79,108,73>>,
            <<63,192,140,147,232,1,243,40>>, <<63,177,33,64,59,54,186,182>>, <<63,113,129,227,168,122,127,60>>, <<191,173,228,58,255,248,150,12>>,
            <<191,190,237,81,38,240,131,16>>, <<191,199,100,181,5,141,20,199>>, <<191,207,59,58,98,218,210,58>>, <<191,211,121,43,80,211,89,251>>,
            <<191,215,65,35,167,190,7,127>>, <<191,218,241,184,175,130,199,161>>, <<191,222,135,52,103,35,202,34>>, <<191,224,254,254,7,98,133,90>>,
            <<191,226,169,73,227,219,253,149>>, <<191,228,64,209,10,188,102,161>>, <<191,229,195,249,158,11,107,217>>, <<191,231,49,62,60,82,144,7>>,
            <<191,232,135,47,136,58,197,218>>, <<191,233,196,117,154,5,144,197>>, <<191,234,231,209,89,110,32,223>>, <<191,235,240,29,190,150,112,158>>,
            <<191,236,220,80,248,189,185,83>>, <<191,237,171,125,121,151,203,85>>, <<191,238,92,210,228,56,103,40>>, <<191,238,239,158,222,162,87,231>>,
            <<191,239,99,77,197,39,126,23>>, <<191,239,183,107,62,229,114,150>>, <<191,239,235,162,178,201,91,13>>, <<191,239,255,191,156,165,78,31>>,
            <<191,239,243,173,194,1,170,136>>, <<191,239,199,121,70,117,72,169>>, <<191,239,123,78,159,112,12,196>>, <<191,239,15,122,103,132,36,174>>,
            <<191,238,132,105,17,90,227,246>>, <<191,237,218,166,122,162,194,140>>, <<191,237,18,221,95,100,39,116>>, <<191,236,45,214,174,74,130,75>>,
            <<191,235,44,120,190,142,95,148>>, <<191,234,15,198,104,75,183,226>>, <<191,232,216,222,0,45,129,220>>, <<191,231,136,248,55,116,67,115>>,
            <<191,230,33,102,225,121,99,86>>, <<191,228,163,147,159,235,96,184>>, <<191,227,16,254,119,24,199,125>>, <<191,225,107,60,75,183,161,88>>,
            <<191,223,103,234,151,91,134,46>>, <<191,219,217,198,134,231,76,222>>, <<191,216,47,159,195,125,131,30>>, <<191,212,109,37,214,100,150,1>>,
            <<191,208,150,32,191,202,203,60>>, <<191,201,92,218,82,111,88,193>>, <<191,193,115,241,6,107,143,107>>, <<191,178,242,244,72,114,229,70>>,
            <<191,135,87,189,190,149,181,63>>, <<63,170,63,232,52,55,163,39>>, <<63,189,29,172,174,217,230,91>>, <<63,198,127,14,103,69,148,28>>,
            <<63,206,88,166,90,103,223,146>>, <<63,211,9,220,135,255,177,2>>, <<63,214,212,64,12,167,1,215>>, <<63,218,135,173,197,195,170,186>>,
            <<63,222,32,108,213,119,199,90>>, <<63,224,205,111,153,225,230,6>>, <<63,226,121,194,168,239,150,108>>, <<63,228,19,128,207,117,145,22>>,
            <<63,229,153,13,245,58,183,44>>, <<63,231,8,226,80,177,249,160>>, <<63,232,97,139,241,3,145,111>>, <<63,233,161,176,50,29,106,75>>,
            <<63,234,200,13,25,84,151,187>>, <<63,235,211,122,153,57,19,36>>, <<63,236,194,235,187,86,57,85>>, <<63,237,149,111,174,180,108,255>>,
            <<63,238,74,50,186,11,239,153>>, <<63,238,224,127,16,181,64,119>>, <<63,239,87,189,137,128,230,201>>, <<63,239,175,118,54,190,191,115>>,
            <<63,239,231,80,222,219,229,136>>, <<63,239,255,21,85,29,232,155>>, <<63,239,246,171,178,34,17,103>>, <<63,239,206,28,107,231,229,10>>,
            <<63,239,133,144,77,78,181,246>>, <<63,239,29,80,77,14,213,96>>, <<63,238,149,197,68,87,162,70>>, <<63,237,239,119,133,92,77,28>>,
            <<63,237,43,14,82,57,81,170>>, <<63,236,73,79,52,188,153,32>>, <<63,235,75,29,55,185,104,92>>, <<63,234,49,120,2,175,237,187>>,
            <<63,232,253,122,216,174,28,126>>, <<63,231,176,91,123,108,96,199>>, <<63,230,75,104,243,196,199,52>>, <<63,228,208,10,64,189,206,124>>,
            <<63,227,63,188,238,123,226,231>>, <<63,225,156,19,150,132,154,109>>, <<63,223,205,104,149,171,32,228>>, <<63,220,66,173,218,204,138,222>>,
            <<63,216,155,134,235,127,123,118>>, <<63,212,219,160,76,206,16,71>>, <<63,209,6,191,103,207,90,172>>, <<63,202,65,125,125,103,136,128>>,
            <<63,194,91,20,25,50,158,230>>, <<63,180,196,105,80,54,80,73>>, <<63,146,247,30,3,77,44,169>>, <<191,166,155,62,27,42,0,57>>,
            <<191,187,77,167,97,18,193,218>>, <<191,197,153,28,247,82,196,183>>, <<191,205,117,173,100,182,39,15>>, <<191,210,154,78,109,131,177,106>>,
            <<191,214,103,16,132,141,102,106>>, <<191,218,29,74,160,4,72,86>>, <<191,221,185,65,17,139,120,30>>, <<191,224,155,169,74,131,219,250>>,
            <<191,226,73,253,251,156,120,158>>, <<191,227,229,237,207,11,105,5>>, <<191,229,109,218,119,177,85,128>>, <<191,230,224,57,201,1,160,145>>,
            <<191,232,59,151,67,114,36,56>>, <<191,233,126,149,139,30,22,166>>, <<191,234,167,239,199,35,70,90>>, <<191,235,182,122,232,88,76,109>>,
            <<191,236,169,38,214,19,45,54>>, <<191,237,126,255,127,209,202,202>>, <<191,238,55,45,210,177,14,245>>, <<191,238,208,248,145,187,206,193>>,
            <<191,239,75,197,16,55,244,227>>, <<191,239,167,23,205,54,128,54>>, <<191,239,226,148,239,201,235,224>>, <<191,239,254,0,163,102,20,180>>,
            <<191,239,249,63,84,12,173,158>>, <<191,239,212,85,202,9,196,101>>, <<191,239,143,105,37,36,111,11>>, <<191,239,42,190,183,72,119,45>>,
            <<191,238,166,187,190,206,146,100>>, <<191,238,3,229,0,169,71,117>>, <<191,237,66,222,66,220,224,209>>, <<191,236,100,105,167,200,199,159>>,
            <<191,235,105,102,234,231,220,250>>, <<191,234,82,210,127,204,64,183>>, <<191,233,33,196,148,56,207,206>>, <<191,231,215,111,246,87,169,22>>,
            <<191,230,117,32,224,41,56,23>>, <<191,228,252,59,169,98,6,5>>, <<191,227,110,59,97,7,107,59>>, <<191,225,204,176,80,51,138,109>>,
            <<191,224,25,62,103,128,14,13>>, <<191,220,171,55,49,88,252,50>>, <<191,217,7,28,60,81,243,192>>, <<191,213,73,213,100,128,194,158>>,
            <<191,209,119,37,111,90,123,166>>, <<191,203,37,201,85,206,250,98>>, <<191,195,65,250,31,157,243,254>>, <<191,182,149,153,70,120,77,176>>,
            <<191,154,66,30,19,254,30,44>>, <<63,162,246,72,210,178,178,151>>, <<63,185,125,71,68,220,188,51>>, <<63,196,178,227,178,117,97,92>>,
            <<63,204,146,82,116,165,42,101>>, <<63,210,42,130,116,98,229,43>>, <<63,213,249,150,122,147,95,220>>, <<63,217,178,144,160,24,59,123>>,
            <<63,221,81,178,114,128,12,39>>, <<63,224,105,171,190,211,54,159>>, <<63,226,25,252,122,193,49,127>>, <<63,227,184,24,161,16,116,11>>,
            <<63,229,66,95,181,29,78,201>>, <<63,230,183,69,44,122,143,172>>, <<63,232,21,81,253,194,143,122>>, <<63,233,91,38,25,199,181,211>>,
            <<63,234,135,121,205,168,238,135>>, <<63,235,153,31,12,102,21,3>>, <<63,236,143,2,158,168,196,248>>, <<63,237,104,45,55,144,25,56>>,
            <<63,238,35,196,109,104,239,129>>, <<63,238,193,11,149,88,134,133>>, <<63,239,63,100,129,28,151,238>>, <<63,239,158,80,30,34,3,174>>,
            <<63,239,221,110,245,82,31,3>>, <<63,239,252,129,139,22,15,178>>, <<63,239,251,104,159,47,171,5>>, <<63,239,218,37,76,39,160,24>>,
            <<63,239,152,217,6,49,79,137>>, <<63,239,55,197,121,133,112,84>>, <<63,238,183,76,72,85,86,127>>, <<63,238,23,238,168,153,77,1>>,
            <<63,237,90,76,226,28,190,150>>, <<63,236,127,37,173,74,234,139>>, <<63,235,135,85,115,94,53,169>>, <<63,234,115,213,112,179,23,216>>,
            <<63,233,69,186,186,29,127,153>>, <<63,231,254,53,38,60,220,106>>, <<63,230,158,142,27,231,14,127>>, <<63,229,40,39,70,221,130,147>>,
            <<63,227,156,121,52,25,205,15>>, <<63,225,253,17,215,23,88,192>>, <<63,224,75,146,249,151,53,117>>, <<63,221,19,97,46,224,213,163>>,
            <<63,217,114,94,80,39,11,57>>, <<63,213,183,195,174,244,150,15>>, <<63,209,231,81,96,154,139,116>>, <<63,204,9,186,228,95,36,151>>,
            <<63,196,40,160,25,191,94,141>>, <<63,184,102,126,32,22,13,17>>, <<63,160,198,99,104,4,47,91>>, <<191,158,162,40,243,94,122,94>>,
            <<191,183,172,146,98,167,94,5>>, <<191,195,204,101,150,93,3,104>>, <<191,203,174,152,126,90,71,29>>, <<191,209,186,122,16,110,154,245>>,
            <<191,213,139,211,90,210,233,31>>, <<191,217,71,129,40,243,250,105>>, <<191,220,233,194,80,191,110,18>>, <<191,224,55,119,157,18,124,78>>,
            <<191,225,233,190,198,6,158,219>>, <<191,227,138,1,221,243,78,67>>, <<191,229,22,158,62,25,181,52>>, <<191,230,142,5,3,82,220,146>>,
            <<191,231,238,188,159,60,237,133>>, <<191,233,55,98,83,244,100,121>>, <<191,234,102,171,152,219,42,216>>, <<191,235,123,103,103,6,237,59>>,
            <<191,236,116,127,108,8,53,188>>, <<191,237,80,249,33,213,207,190>>, <<191,238,15,246,202,194,245,83>>, <<191,238,176,184,80,130,201,151>>,
            <<191,239,50,156,5,88,233,143>>, <<191,239,149,31,70,180,182,212>>, <<191,239,215,223,0,147,223,216>>, <<191,239,250,152,17,39,245,212>>,
            <<191,239,253,39,140,90,224,7>>, <<191,239,223,138,222,238,66,238>>, <<191,239,161,223,209,18,135,62>>, <<191,239,68,100,104,114,229,162>>,
            <<191,238,199,118,169,212,154,232>>, <<191,238,43,148,58,135,250,26>>, <<191,237,113,89,226,10,125,164>>, <<191,236,153,130,236,88,235,222>>,
            <<191,235,164,232,109,144,34,247>>, <<191,234,148,128,103,154,3,184>>, <<191,233,105,92,210,194,9,163>>, <<191,232,36,170,138,42,115,254>>,
            <<191,230,199,176,29,55,8,230>>, <<191,229,83,204,135,29,220,85>>, <<191,227,202,117,205,232,100,54>>, <<191,226,45,55,138,71,206,78>>,
            <<191,224,125,177,89,183,18,8>>, <<191,221,123,42,120,245,109,175>>, <<191,217,221,75,194,69,185,41>>, <<191,214,37,105,190,140,237,55>>,
            <<191,210,87,65,198,127,11,240>>, <<191,204,237,79,50,253,182,125>>, <<191,197,15,3,8,125,173,214>>, <<191,186,55,17,210,230,117,96>>,
            <<191,164,107,127,251,156,88,46>>, <<63,151,87,90,95,157,34,45>>, <<63,181,219,142,195,252,57,16>>, <<63,194,229,165,161,158,60,29>>,
            <<63,202,202,130,119,54,216,14>>, <<63,209,74,54,182,65,15,174>>, <<63,213,29,200,146,89,14,202>>, <<63,216,220,29,158,168,52,134>>,
            <<63,220,129,114,5,247,226,192>>, <<63,224,5,13,140,57,190,207>>, <<63,225,185,69,125,221,210,9>>, <<63,227,91,170,30,252,180,3>>,
            <<63,228,234,150,164,44,194,1>>, <<63,230,100,121,214,187,225,85>>, <<63,231,199,215,168,51,190,81>>, <<63,233,19,74,176,150,184,201>>,
            <<63,234,69,133,149,213,5,232>>, <<63,235,93,84,91,16,156,131>>, <<63,236,89,157,150,94,151,166>>, <<63,237,57,99,139,206,171,26>>,
            <<63,237,251,197,44,155,229,171>>, <<63,238,159,254,249,134,38,250>>, <<63,239,37,107,199,112,167,100>>, <<63,239,139,133,101,127,195,72>>,
            <<63,239,209,229,36,15,6,61>>, <<63,239,248,68,59,247,177,241>>, <<63,239,254,124,21,191,229,78>>, <<63,239,228,134,112,106,202,163>>,
            <<63,239,170,125,103,194,197,163>>, <<63,239,80,155,90,23,74,227>>, <<63,238,215,58,173,136,206,25>>, <<63,238,62,213,117,29,202,1>>,
            <<63,237,136,4,245,252,93,176>>, <<63,236,179,129,13,67,235,214>>, <<63,235,194,31,119,33,209,172>>, <<63,234,180,210,247,219,45,106>>,
            <<63,233,140,170,103,163,218,199>>, <<63,232,74,207,162,56,75,24>>, <<63,230,240,134,91,76,24,38>>, <<63,229,127,42,216,250,175,194>>,
            <<63,227,248,48,149,129,118,120>>, <<63,226,93,32,201,163,174,78>>, <<63,224,175,152,225,47,240,61>>, <<63,221,226,145,182,105,174,121>>,
            <<63,218,71,227,47,14,114,236>>, <<63,214,146,198,38,157,105,225>>, <<63,210,198,245,44,189,137,205>>, <<63,205,208,131,76,198,145,48>>,
            <<63,197,245,31,237,158,195,99>>, <<63,188,7,78,85,206,83,35>>, <<63,168,16,88,165,103,103,159>>, <<191,144,12,62,42,210,118,61>>,
            <<191,180,10,66,115,106,188,38>>, <<191,193,254,166,211,168,151,53>>, <<191,201,230,19,85,206,117,218>>, <<191,208,217,185,219,56,147,83>>,
            <<191,212,175,119,143,33,43,80>>, <<191,216,112,103,102,93,61,47>>, <<191,220,24,194,237,23,118,85>>, <<191,223,164,220,103,232,218,226>>,
            <<191,225,136,145,67,126,5,234>>, <<191,227,45,17,254,77,129,188>>, <<191,228,190,73,121,197,239,255>>, <<191,230,58,164,48,224,115,129>>,
            <<191,231,160,163,154,2,58,199>>, <<191,232,238,223,167,184,53,186>>, <<191,234,36,8,50,213,146,218>>, <<191,235,62,230,76,136,226,136>>,
            <<191,236,62,93,119,19,195,83>>, <<191,237,33,108,195,234,175,230>>, <<191,237,231,47,214,29,11,44>>, <<191,238,142,223,200,1,165,100>>,
            <<191,239,23,211,243,64,164,37>>, <<191,239,129,130,154,113,169,35>>, <<191,239,203,129,115,163,162,211>>, <<191,239,245,134,19,66,232,64>>,
            <<191,239,255,102,54,242,41,59>>, <<191,239,233,23,240,10,226,208>>, <<191,239,178,177,173,154,158,64>>, <<191,239,92,106,37,210,236,211>>,
            <<191,238,230,152,31,2,209,215>>, <<191,238,81,178,24,80,240,206>>, <<191,237,158,77,210,142,75,145>>, <<191,236,205,31,185,153,97,223>>,
            <<191,235,222,250,46,233,56,5>>, <<191,234,212,204,181,246,193,115>>, <<191,233,175,163,3,89,112,150>>, <<191,232,112,163,239,137,74,114>>,
            <<191,231,25,16,78,85,39,213>>, <<191,229,170,65,172,55,129,37>>, <<191,228,37,168,242,206,50,165>>, <<191,226,140,204,245,210,200,96>>,
            <<191,224,225,72,234,8,130,0>>, <<191,222,73,149,143,86,167,22>>, <<191,218,178,35,51,255,191,177>>, <<191,214,255,215,123,110,154,219>>,
            <<191,211,54,106,31,214,118,136>>, <<191,206,179,84,62,21,129,138>>, <<191,198,218,243,203,209,84,10>>, <<191,189,215,45,160,212,131,21>>,
            <<191,171,180,225,70,231,105,250>>, <<63,129,129,217,45,99,125,73>>, <<63,178,56,179,124,116,3,163>>, <<63,193,23,108,44,188,178,93>>,
            <<63,201,1,78,17,221,16,88>>, <<63,208,105,4,245,114,190,163>>, <<63,212,64,225,192,16,49,28>>, <<63,216,4,95,230,78,100,59>>,
            <<63,219,175,182,98,71,136,165>>, <<63,223,63,52,121,62,89,33>>, <<63,225,87,162,184,226,124,199>>, <<63,226,254,58,22,220,176,245>>,
            <<63,228,145,183,82,60,22,202>>, <<63,230,16,132,156,227,22,103>>, <<63,231,121,32,247,10,165,218>>, <<63,232,202,33,178,119,187,49>>,
            <<63,234,2,51,223,62,125,7>>, <<63,235,32,29,160,164,49,58>>, <<63,236,34,191,104,201,39,44>>, <<63,237,9,21,25,221,32,213>>,
            <<63,237,210,55,11,187,88,138>>, <<63,238,125,90,244,231,12,150>>, <<63,239,9,212,181,254,53,67>>, <<63,239,119,23,6,213,213,189>>,
            <<63,239,196,180,4,145,189,180>>, <<63,239,242,93,160,40,220,116>>, <<63,239,255,229,236,230,254,167>>, <<63,239,237,63,78,156,252,85>>,
            <<63,239,186,124,135,80,232,87>>, <<63,239,103,208,164,96,121,131>>, <<63,238,245,142,203,40,170,117>>, <<63,238,100,41,229,102,45,204>>,
            <<63,237,180,52,45,162,217,168>>, <<63,236,230,94,156,36,61,3>>, <<63,235,251,120,52,239,84,207>>, <<63,234,244,109,55,148,82,0>>,
            <<63,233,210,70,49,147,231,26>>, <<63,232,150,38,244,77,16,25>>, <<63,231,65,77,111,126,223,217>>, <<63,229,213,16,113,133,158,127>>,
            <<63,228,82,222,78,148,171,45>>, <<63,226,188,59,112,72,12,39>>, <<63,225,18,192,207,0,13,139>>, <<63,222,176,52,173,31,236,66>>,
            <<63,219,28,10,111,186,217,6>>, <<63,215,108,156,82,66,204,16>>, <<63,211,165,159,45,25,240,127>>, <<63,207,149,191,20,144,28,252>>,
            <<63,199,192,123,166,183,8,154>>, <<63,191,166,169,173,53,209,96>>, <<63,175,89,13,194,168,104,60>>, <<191,87,87,222,89,246,87,183>>,
            <<191,176,102,231,235,118,254,119>>, <<191,192,47,248,173,226,38,103>>, <<191,200,28,53,164,61,4,8>>, <<191,207,240,50,247,143,22,176>>,
            <<191,211,210,8,148,239,224,187>>, <<191,215,152,8,133,197,65,148>>, <<191,219,70,77,194,232,65,241>>, <<191,222,217,36,158,139,71,232>>,
            <<191,225,38,122,128,200,108,61>>, <<191,226,207,35,4,117,89,176>>, <<191,228,100,224,193,203,127,62>>, <<191,229,230,27,166,220,48,175>>,
            <<191,231,81,80,66,180,153,128>>, <<191,232,165,17,75,7,241,74>>, <<191,233,224,9,11,146,148,243>>, <<191,235,0,250,189,196,88,169>>,
            <<191,236,6,195,199,88,152,132>>, <<191,236,240,92,222,155,123,95>>, <<191,237,188,219,19,54,131,227>>, <<191,238,107,112,186,122,36,106>>,
            <<191,238,251,110,62,54,157,241>>, <<191,239,108,66,205,84,52,125>>, <<191,239,189,124,237,121,15,153>>, <<191,239,238,202,237,42,83,168>>,
            <<191,239,255,251,53,245,166,219>>, <<191,239,240,252,126,80,128,15>>, <<191,239,193,221,218,251,24,142>>, <<191,239,114,206,175,213,131,82>>,
            <<191,239,4,30,128,54,41,133>>, <<191,238,118,60,158,241,158,29>>, <<191,237,201,183,190,100,55,143>>, <<191,236,255,61,96,238,2,85>>,
            <<191,236,23,153,42,113,112,33>>, <<191,235,19,180,19,132,57,189>>, <<191,233,244,147,127,32,118,214>>, <<191,232,187,88,51,193,141,79>>,
            <<191,231,105,61,56,245,102,61>>, <<191,229,255,150,154,133,247,183>>, <<191,228,127,208,18,121,206,152>>, <<191,226,235,107,155,67,155,12>>,
            <<191,225,67,255,235,144,141,9>>, <<191,223,22,109,186,120,24,76>>, <<191,219,133,151,130,8,71,131>>, <<191,215,217,19,65,90,162,208>>,
            <<191,212,20,146,226,172,153,133>>, <<191,208,59,224,111,151,203,20>>, <<191,200,165,180,130,238,72,142>>, <<191,192,186,222,58,188,142,68>>,
            <<191,177,126,104,254,52,105,130>>, <<191,119,87,214,150,123,223,154>>, <<63,173,41,203,155,55,225,151>>, <<63,190,144,158,177,187,74,177>>,
            <<63,199,54,205,6,221,87,6>>, <<63,207,13,241,203,136,227,40>>, <<63,211,98,237,126,105,251,231>>, <<63,215,43,98,173,21,34,94>>,
            <<63,218,220,138,109,140,3,128>>, <<63,222,114,174,43,64,142,168>>, <<63,224,245,25,62,172,221,136>>, <<63,226,159,205,99,180,169,231>>,
            <<63,228,55,198,93,147,248,194>>, <<63,229,187,105,219,216,56,70>>, <<63,231,41,50,1,107,87,26>>, <<63,232,127,174,236,173,181,176>>,
            <<63,233,189,136,41,116,88,237>>, <<63,234,225,126,11,119,49,92>>, <<63,235,234,106,239,211,36,248>>, <<63,236,215,68,100,92,101,137>>,
            <<63,237,167,28,51,152,29,159>>, <<63,238,89,33,84,79,247,64>>, <<63,238,236,160,187,206,115,166>>, <<63,239,97,6,17,240,187,52>>,
            <<63,239,181,220,70,88,182,136>>, <<63,239,234,206,6,41,113,89>>, <<63,239,255,166,17,215,87,41>>, <<63,239,244,79,114,181,252,99>>,
            <<63,239,200,213,144,13,152,179>>, <<63,239,125,100,35,162,253,215>>, <<63,239,18,71,13,189,145,87>>, <<63,238,135,234,8,215,137,150>>,
            <<63,237,222,216,61,69,37,109>>, <<63,237,23,187,181,63,222,139>>, <<63,236,51,92,177,226,87,229>>, <<63,235,50,160,225,192,252,218>>,
            <<63,234,22,138,121,233,245,190>>, <<63,232,224,55,50,52,170,162>>, <<63,231,144,223,37,230,26,48>>, <<63,230,41,211,153,202,250,93>>,
            <<63,228,172,125,169,3,85,100>>, <<63,227,26,92,217,212,207,253>>, <<63,225,117,5,155,240,211,124>>, <<63,223,124,63,99,101,61,162>>,
            <<63,219,238,201,11,220,107,83>>, <<63,216,69,58,223,249,231,76>>, <<63,212,131,67,207,140,106,171>>, <<63,208,172,171,87,37,60,215>>,
            <<63,201,138,155,102,28,68,102>>, <<63,193,162,47,250,193,181,243>>, <<63,179,80,16,236,160,236,192>>, <<63,138,66,171,144,103,49,206>>,
            <<191,169,133,102,97,129,119,9>>, <<191,188,192,230,96,77,220,222>>, <<191,198,81,23,52,183,163,205>>, <<191,206,43,73,87,79,36,239>>,
            <<191,210,243,145,238,3,134,213>>, <<191,214,190,111,197,150,68,85>>, <<191,218,114,109,193,242,228,128>>, <<191,222,11,210,116,36,81,184>>,
            <<191,224,195,127,150,202,139,51>>, <<191,226,112,57,210,7,219,221>>, <<191,228,10,104,187,150,231,208>>, <<191,229,144,111,201,213,219,14>>,
            <<191,231,0,198,184,156,11,4>>, <<191,232,89,251,19,190,127,202>>, <<191,233,154,177,171,164,127,204>>, <<191,234,193,167,242,117,71,40>>,
            <<191,235,205,181,64,127,219,254>>, <<191,236,189,203,254,150,159,210>>, <<191,237,144,250,181,50,166,99>>, <<191,238,70,108,255,78,8,48>>,
            <<191,238,221,108,96,0,254,7>>, <<191,239,85,96,250,10,242,219>>, <<191,239,173,210,40,142,229,151>>, <<191,239,230,102,248,105,143,200>>,
            <<191,239,254,230,129,167,57,220>>, <<191,239,247,56,32,191,78,206>>, <<191,239,207,99,143,92,23,178>>, <<191,239,135,144,220,149,184,23>>,
            <<191,239,32,8,68,168,56,255>>, <<191,238,153,49,232,77,40,125>>, <<191,237,243,149,100,1,223,180>>, <<191,237,47,217,71,163,189,216>>,
            <<191,236,78,194,110,235,148,30>>, <<191,235,81,51,59,112,159,56>>, <<191,234,56,42,176,250,84,88>>, <<191,233,4,195,117,5,222,51>>,
            <<191,231,184,50,178,129,79,46>>, <<191,230,83,198,226,218,106,222>>, <<191,228,216,230,125,153,183,218>>, <<191,227,73,14,143,220,76,168>>,
            <<191,225,165,209,61,22,178,130>>, <<191,223,225,168,85,69,71,8>>, <<191,220,87,157,175,92,13,152>>, <<191,216,177,17,198,108,37,113>>,
            <<191,212,241,176,131,149,114,53>>, <<191,209,29,62,201,207,60,228>>, <<191,202,111,45,86,246,189,176>>, <<191,194,137,71,21,85,237,3>>,
            <<191,181,33,120,159,231,245,213>>, <<191,148,108,138,63,137,169,222>>, <<63,165,224,172,70,200,243,152>>, <<63,186,240,206,109,189,127,119>>,
            <<63,197,107,23,41,198,98,208>>, <<63,205,72,60,140,181,158,11>>, <<63,210,131,247,86,23,247,125>>, <<63,214,81,49,57,161,52,192>>,
            <<63,218,7,249,33,6,24,244>>, <<63,221,164,146,207,77,131,81>>, <<63,224,145,174,46,23,195,252>>, <<63,226,64,104,237,170,40,8>>,
            <<63,227,220,200,114,181,80,181>>, <<63,229,101,45,255,196,43,191>>, <<63,230,216,14,238,180,15,101>>, <<63,232,51,246,61,158,193,232>>,
            <<63,233,119,134,6,0,119,213>>, <<63,234,161,120,220,160,122,189>>, <<63,235,176,163,24,218,146,100>>, <<63,236,163,244,1,255,237,237>>,
            <<63,237,122,118,225,160,158,62>>, <<63,238,51,83,249,169,138,250>>, <<63,238,205,209,93,95,148,251>>, <<63,239,73,83,172,93,122,234>>,
            <<63,239,165,94,174,216,145,123>>, <<63,239,225,149,210,143,19,172>>, <<63,239,253,188,135,226,106,141>>, <<63,239,249,182,126,191,200,211>>,
            <<63,239,213,135,195,25,215,177>>, <<63,239,145,84,184,214,210,21>>, <<63,239,45,97,247,55,37,198>>, <<63,238,170,20,3,217,105,130>>,
            <<63,238,7,238,237,161,9,160>>, <<63,237,71,149,199,229,89,26>>, <<63,236,105,202,6,110,155,240>>, <<63,235,111,106,186,229,248,117>>,
            <<63,234,89,115,180,124,17,238>>, <<63,233,40,252,130,167,199,98>>, <<63,231,223,55,91,252,5,95>>, <<63,230,125,111,234,47,47,28>>,
            <<63,229,5,9,252,138,29,183>>, <<63,227,119,128,34,13,254,77>>, <<63,225,214,98,44,185,17,209>>, <<63,224,35,83,159,105,50,106>>,
            <<63,220,192,20,15,224,255,185>>, <<63,217,28,150,142,9,96,173>>, <<63,213,95,215,143,134,171,35>>, <<63,209,141,153,81,45,17,0>>,
            <<63,203,83,103,93,78,10,88>>, <<63,195,112,32,137,231,208,229>>, <<63,182,242,154,12,45,28,32>>, <<63,155,183,122,201,156,243,125>>,
            <<191,162,59,169,105,38,248,173>>, <<191,185,32,92,225,137,210,172>>, <<191,196,132,207,226,250,222,34>>, <<191,204,100,206,94,221,185,118>>,
            <<191,210,20,31,41,212,88,107>>, <<191,213,227,168,116,138,12,111>>, <<191,217,157,45,236,211,97,112>>, <<191,221,60,240,148,31,103,56>>,
            <<191,224,95,165,170,68,66,205>>, <<191,226,16,91,85,162,194,83>>, <<191,227,174,230,26,173,230,111>>, <<191,229,57,165,13,128,194,32>>,
            <<191,230,175,11,43,31,49,66>>, <<191,232,13,160,232,192,73,125>>, <<191,233,84,5,173,128,228,30>>, <<191,234,128,241,53,2,163,44>>,
            <<191,235,147,52,217,146,168,160>>, <<191,236,137,188,196,139,253,110>>, <<191,237,99,145,3,195,139,149>>, <<191,238,31,214,130,230,147,225>>,
            <<191,238,189,207,231,208,246,100>>, <<191,239,60,222,80,253,137,32>>, <<191,239,156,129,245,81,22,129>>, <<191,239,220,90,164,159,60,33>>,
            <<191,239,252,40,40,103,237,184>>, <<191,239,251,202,132,108,79,195>>, <<191,239,219,66,22,217,246,27>>, <<191,239,154,175,151,236,44,79>>,
            <<191,239,58,83,249,3,165,66>>, <<191,238,186,144,35,85,174,198>>, <<191,238,27,228,150,116,149,0>>, <<191,237,94,240,231,19,63,205>>,
            <<191,236,132,115,30,134,3,66>>, <<191,235,141,70,251,162,14,106>>, <<191,234,122,101,21,187,178,215>>, <<191,233,76,225,226,161,195,155>>,
            <<191,232,5,236,160,145,152,143>>, <<191,230,166,206,37,59,41,239>>, <<191,229,48,231,147,8,68,210>>, <<191,227,165,176,245,243,40,154>>,
            <<191,226,6,183,201,82,12,172>>, <<191,224,85,157,104,19,180,185>>, <<191,221,40,42,209,254,130,146>>, <<191,217,135,199,209,58,186,225>>,
            <<191,213,205,183,133,6,177,159>>, <<191,209,253,185,119,147,78,150>>, <<191,204,55,70,130,22,217,124>>, <<191,196,86,185,88,178,255,124>>,
            <<191,184,195,111,38,126,1,217>>, <<191,161,129,7,146,166,4,25>>, <<63,157,44,211,207,75,139,143>>, <<63,183,79,151,196,92,125,116>>,
            <<63,195,158,68,94,51,81,49>>, <<63,203,129,1,194,44,211,8>>, <<63,209,164,10,221,50,141,64>>, <<63,213,117,214,226,155,196,111>>,
            <<63,217,50,13,136,136,98,240>>, <<63,220,212,237,27,69,41,8>>, <<63,224,45,102,177,183,10,69>>, <<63,225,224,17,169,194,183,249>>,
            <<63,227,128,194,76,27,14,228>>, <<63,229,13,213,131,213,219,196>>, <<63,230,133,187,246,69,235,88>>, <<63,231,230,251,148,160,157,65>>,
            <<63,233,48,49,24,56,27,34>>, <<63,234,96,17,103,204,37,112>>, <<63,235,117,106,228,137,200,90>>, <<63,236,111,38,157,107,72,223>>,
            <<63,237,76,73,103,195,9,8>>, <<63,238,11,244,219,215,69,112>>, <<63,238,173,104,52,144,155,236>>, <<63,239,48,1,17,90,99,161>>,
            <<63,239,147,60,25,113,220,21>>, <<63,239,214,181,127,255,236,219>>, <<63,239,250,41,104,120,164,16>>, <<63,239,253,116,42,219,120,206>>,
            <<63,239,224,146,119,143,176,83>>, <<63,239,163,161,90,184,212,46>>, <<63,239,70,222,30,255,224,25>>, <<63,238,202,166,15,238,137,214>>,
            <<63,238,47,118,28,26,158,117>>, <<63,237,117,234,87,127,223,211>>, <<63,236,158,189,94,134,169,101>>, <<63,235,170,199,154,85,90,142>>,
            <<63,234,154,254,103,41,46,240>>, <<63,233,112,115,29,145,122,21>>, <<63,232,44,81,255,133,114,115>>, <<63,230,207,225,10,105,1,116>>,
            <<63,229,92,126,175,48,108,103>>, <<63,227,211,160,113,236,92,70>>, <<63,226,54,209,114,33,12,193>>, <<63,224,135,176,221,98,26,41>>,
            <<63,221,143,224,155,133,223,136>>, <<63,217,242,164,43,127,22,10>>, <<63,214,59,78,246,168,156,5>>, <<63,210,109,157,200,24,175,189>>,
            <<63,205,26,199,207,116,23,189>>, <<63,197,61,14,130,202,28,114>>, <<63,186,147,241,228,229,229,107>>, <<63,165,38,23,137,83,167,107>>,
            <<191,149,225,243,196,51,80,85>>, <<191,181,126,133,31,244,228,124>>, <<191,194,183,119,154,48,213,252>>, <<191,202,156,217,172,66,84,68>>,
            <<191,209,51,187,228,244,114,30>>, <<191,213,7,189,241,19,114,250>>, <<191,216,198,153,88,110,35,54>>, <<191,220,108,137,190,173,90,219>>,
            <<191,223,245,227,215,24,104,197>>, <<191,225,175,140,138,162,234,204>>, <<191,227,82,93,160,112,233,184>>, <<191,228,225,191,244,120,128,123>>,
            <<191,230,92,33,217,139,161,31>>, <<191,231,192,6,193,199,77,231>>, <<191,233,12,8,189,80,155,176>>, <<191,234,62,217,226,82,148,113>>,
            <<191,235,87,69,156,210,157,217>>, <<191,236,84,49,229,9,242,23>>, <<191,237,52,160,91,11,195,146>>, <<191,237,247,175,70,154,246,34>>,
            <<191,238,156,154,122,46,6,173>>, <<191,239,34,188,24,60,215,201>>, <<191,239,137,141,58,17,242,121>>, <<191,239,208,166,119,119,116,108>>,
            <<191,239,247,192,78,183,56,231>>, <<191,239,254,179,108,133,159,136>>, <<191,239,229,120,211,142,161,230>>, <<191,239,172,41,227,125,108,130>>,
            <<191,239,83,0,63,119,106,229>>, <<191,238,218,85,148,36,113,171>>, <<191,238,66,163,61,126,79,182>>, <<191,237,140,129,204,194,135,102>>,
            <<191,236,184,168,111,0,217,152>>, <<191,235,199,236,52,225,24,237>>, <<191,234,187,63,60,89,98,115>>, <<191,233,147,175,189,44,109,53>>,
            <<191,232,82,102,249,36,180,218>>, <<191,230,248,168,17,29,230,144>>, <<191,229,135,206,192,9,57,134>>, <<191,228,1,77,253,51,130,163>>,
            <<191,226,102,174,135,44,223,241>>, <<191,224,185,141,88,200,249,36>>, <<191,221,247,52,19,138,226,118>>, <<191,218,93,42,57,111,196,135>>,
            <<191,214,168,156,119,240,161,190>>, <<191,210,221,68,206,154,250,197>>, <<191,205,253,232,80,192,227,13>>, <<191,198,35,29,10,32,188,14>>,
            <<191,188,100,28,62,129,254,204>>, <<191,168,202,225,41,161,84,145>>, <<63,141,45,149,227,224,160,131>>, <<63,179,173,42,255,20,116,211>>,
            <<63,193,208,108,150,141,158,100>>, <<63,201,184,89,19,237,232,81>>, <<63,208,195,51,182,158,248,85>>, <<63,212,153,95,14,27,142,159>>,
            <<63,216,90,210,193,228,74,124>>, <<63,220,3,199,217,133,120,128>>, <<63,223,144,143,255,37,165,161>>, <<63,225,126,204,153,161,243,172>>,
            <<63,227,35,184,177,251,75,146>>, <<63,228,181,100,242,6,152,127>>, <<63,230,50,61,95,76,215,78>>, <<63,231,152,194,241,196,83,67>>,
            <<63,232,231,141,21,11,130,108>>, <<63,234,29,75,19,15,60,95>>, <<63,235,56,197,102,175,143,8>>, <<63,236,56,222,245,14,162,144>>,
            <<63,237,28,150,44,78,122,45>>, <<63,237,227,6,6,157,88,148>>, <<63,238,139,102,240,140,13,87>>, <<63,239,21,15,145,198,170,21>>,
            <<63,239,127,117,119,101,171,9>>, <<63,239,202,45,159,44,78,15>>, <<63,239,244,236,227,40,12,38>>, <<63,239,255,136,69,68,248,144>>,
            <<63,239,233,245,26,139,0,27>>, <<63,239,180,73,21,216,142,162>>, <<63,239,94,186,50,15,206,85>>, <<63,238,233,158,123,204,116,28>>,
            <<63,238,85,107,186,216,179,65>>, <<63,237,162,182,251,184,99,51>>, <<63,236,210,51,249,193,117,10>>, <<63,235,228,180,106,88,141,118>>,
            <<63,234,219,39,42,7,110,195>>, <<63,233,182,151,76,65,130,188>>, <<63,232,120,43,14,199,230,75>>, <<63,231,33,34,177,187,95,131>>,
            <<63,229,178,215,53,133,151,194>>, <<63,228,46,184,255,221,206,179>>, <<63,226,150,78,105,69,202,191>>, <<63,224,235,50,52,115,198,105>>,
            <<63,222,94,35,226,104,84,219>>, <<63,218,199,88,152,197,17,42>>, <<63,215,21,158,157,88,230,138>>, <<63,211,76,173,23,195,192,222>>,
            <<63,206,224,165,18,154,48,94>>, <<63,199,8,225,241,149,118,124>>, <<63,190,51,232,43,149,113,178>>, <<63,172,111,88,85,66,202,178>>,
            <<191,125,45,198,105,126,160,113>>, <<191,177,219,143,109,106,91,232>>, <<191,192,233,38,83,178,219,167>>, <<191,200,211,130,241,37,128,254>>,
            <<191,208,82,115,200,117,99,62>>, <<191,212,42,187,168,199,48,63>>, <<191,215,238,187,43,92,152,162>>, <<191,219,154,168,200,53,100,219>>,
            <<191,223,42,211,44,149,101,238>>, <<191,225,77,210,120,226,11,126>>, <<191,226,244,212,27,219,200,28>>, <<191,228,136,197,16,5,6,81>>,
            <<191,230,8,15,18,221,99,100>>, <<191,231,113,48,167,46,88,19>>, <<191,232,194,190,152,190,244,222>>, <<191,233,251,101,105,157,187,59>>,
            <<191,235,25,234,167,145,111,13>>, <<191,236,29,46,40,89,89,222>>, <<191,237,4,43,43,126,248,25>>, <<191,237,205,249,96,149,152,147>>,
            <<191,238,121,205,208,224,32,28>>, <<191,239,6,251,171,114,6,12>>, <<191,239,116,244,242,254,47,22>>, <<191,239,195,75,12,164,221,190>>,
            <<191,239,241,175,47,49,23,186>>, <<191,239,255,242,178,85,159,100>>, <<191,239,238,7,61,153,207,243>>, <<191,239,187,254,214,199,41,197>>,
            <<191,239,106,11,207,201,15,28>>, <<191,238,248,128,148,16,229,108>>, <<191,238,103,207,85,177,139,51>>, <<191,237,184,137,154,133,119,131>>,
            <<191,236,235,95,169,211,11,75>>, <<191,236,1,31,219,2,70,79>>, <<191,234,250,181,198,22,40,8>>, <<191,233,217,41,86,186,137,137>>,
            <<191,232,157,157,194,212,148,153>>, <<191,231,73,80,101,161,9,138>>, <<191,229,221,151,128,134,158,44>>, <<191,228,91,224,226,221,188,179>>,
            <<191,226,197,176,122,7,160,64>>, <<191,225,28,158,203,70,240,151>>, <<191,222,196,174,177,196,113,58>>, <<191,219,49,45,232,90,228,133>>,
            <<191,215,130,83,252,86,47,191>>, <<191,211,187,213,49,13,64,120>>, <<191,207,194,251,34,232,187,30>>, <<191,199,238,90,60,251,169,48>>,
            <<191,192,1,167,210,206,205,174>>, <<191,176,9,184,119,127,50,99>>, <<61,19,221,197,188,226,0,187>>, <<63,176,9,184,119,127,60,77>>,
            <<63,192,1,167,210,206,202,171>>, <<63,199,238,90,60,251,174,17>>, <<63,207,194,251,34,232,184,46>>, <<63,211,187,213,49,13,63,7>>,
            <<63,215,130,83,252,86,46,86>>, <<63,219,49,45,232,90,230,196>>, <<63,222,196,174,177,196,115,103>>, <<63,225,28,158,203,70,241,163>>,
            <<63,226,197,176,122,7,161,65>>, <<63,228,91,224,226,221,188,29>>, <<63,229,221,151,128,134,159,20>>, <<63,231,73,80,101,161,9,5>>,
            <<63,232,157,157,194,212,149,101>>, <<63,233,217,41,86,186,137,22>>, <<63,234,250,181,198,22,40,179>>, <<63,236,1,31,219,2,69,241>>,
            <<63,236,235,95,169,211,11,211>>, <<63,237,184,137,154,133,119,249>>, <<63,238,103,207,85,177,139,150>>, <<63,238,248,128,148,16,229,59>>,
            <<63,239,106,11,207,201,14,247>>, <<63,239,187,254,214,199,41,238>>, <<63,239,238,7,61,153,207,230>>, <<63,239,255,242,178,85,159,101>>,
            <<63,239,241,175,47,49,23,167>>, <<63,239,195,75,12,164,221,152>>, <<63,239,116,244,242,254,47,58>>, <<63,239,6,251,171,114,5,190>>,
            <<63,238,121,205,208,224,32,87>>, <<63,237,205,249,96,149,152,31>>, <<63,237,4,43,43,126,248,106>>, <<63,236,29,46,40,89,89,70>>,
            <<63,235,25,234,167,145,110,100>>, <<63,233,251,101,105,157,186,129>>, <<63,232,194,190,152,190,244,21>>, <<63,231,113,48,167,46,88,151>>,
            <<63,230,8,15,18,221,97,10>>, <<63,228,136,197,16,5,6,230>>, <<63,226,244,212,27,219,199,27>>, <<63,225,77,210,120,226,12,33>>,
            <<63,223,42,211,44,149,99,194>>, <<63,219,154,168,200,53,102,57>>, <<63,215,238,187,43,92,150,84>>, <<63,212,42,187,168,199,45,227>>,
            <<63,208,82,115,200,117,96,216>>, <<63,200,211,130,241,37,131,248>>, <<63,192,233,38,83,178,222,168>>, <<63,177,219,143,109,106,82,0>>,
            <<63,125,45,198,105,127,1,130>>, <<191,172,111,88,85,66,222,136>>, <<191,190,51,232,43,149,107,172>>, <<191,199,8,225,241,149,123,95>>,
            <<191,206,224,165,18,154,45,108>>, <<191,211,76,173,23,195,195,61>>, <<191,215,21,158,157,88,229,32>>, <<191,218,199,88,152,197,19,108>>,
            <<191,222,94,35,226,104,83,133>>, <<191,224,235,50,52,115,199,119>>, <<191,226,150,78,105,69,203,193>>, <<191,228,46,184,255,221,207,170>>,
            <<191,229,178,215,53,133,152,171>>, <<191,231,33,34,177,187,94,253>>, <<191,232,120,43,14,199,232,98>>, <<191,233,182,151,76,65,130,73>>,
            <<191,234,219,39,42,7,111,112>>, <<191,235,228,180,106,88,141,22>>, <<191,236,210,51,249,193,117,149>>, <<191,237,162,182,251,184,98,234>>,
            <<191,238,85,107,186,216,179,167>>, <<191,238,233,158,123,204,116,110>>, <<191,239,94,186,50,15,206,147>>, <<191,239,180,73,21,216,142,135>>,
            <<191,239,233,245,26,139,0,13>>, <<191,239,255,136,69,68,248,147>>, <<191,239,244,236,227,40,12,48>>, <<191,239,202,45,159,44,77,235>>,
            <<191,239,127,117,119,101,171,43>>, <<191,239,21,15,145,198,169,201>>, <<191,238,139,102,240,140,13,145>>, <<191,237,227,6,6,157,88,35>>,
            <<191,237,28,150,44,78,122,125>>, <<191,236,56,222,245,14,161,9>>, <<191,235,56,197,102,175,143,110>>, <<191,234,29,75,19,15,59,168>>,
            <<191,232,231,141,21,11,129,165>>, <<191,231,152,194,241,196,82,108>>, <<191,230,50,61,95,76,214,106>>, <<191,228,181,100,242,6,153,19>>,
            <<191,227,35,184,177,251,74,147>>, <<191,225,126,204,153,161,244,78>>, <<191,223,144,143,255,37,163,120>>, <<191,220,3,199,217,133,121,221>>,
            <<191,216,90,210,193,228,72,48>>, <<191,212,153,95,14,27,144,15>>, <<191,208,195,51,182,158,245,239>>, <<191,201,184,89,19,237,235,74>>,
            <<191,193,208,108,150,141,153,121>>, <<191,179,173,42,255,20,122,224>>, <<191,141,45,149,227,224,209,11>>, <<63,168,202,225,41,161,72,115>>,
            <<63,188,100,28,62,129,248,196>>, <<63,198,35,29,10,32,192,243>>, <<63,205,253,232,80,192,231,225>>, <<63,210,221,68,206,154,253,36>>,
            <<63,214,168,156,119,240,160,83>>, <<63,218,93,42,57,111,198,202>>, <<63,221,247,52,19,138,225,31>>, <<63,224,185,141,88,200,251,231>>,
            <<63,226,102,174,135,44,223,82>>, <<63,228,1,77,253,51,131,155>>, <<63,229,135,206,192,9,56,247>>, <<63,230,248,168,17,29,231,109>>,
            <<63,232,82,102,249,36,181,169>>, <<63,233,147,175,189,44,109,244>>, <<63,234,187,63,60,89,99,33>>, <<63,235,199,236,52,225,24,141>>,
            <<63,236,184,168,111,0,218,36>>, <<63,237,140,129,204,194,135,27>>, <<63,238,66,163,61,126,80,29>>, <<63,238,218,85,148,36,113,120>>,
            <<63,239,83,0,63,119,107,38>>, <<63,239,172,41,227,125,108,102>>, <<63,239,229,120,211,142,162,0>>, <<63,239,254,179,108,133,159,132>>,
            <<63,239,247,192,78,183,56,217>>, <<63,239,208,166,119,119,116,128>>, <<63,239,137,141,58,17,242,67>>, <<63,239,34,188,24,60,215,128>>,
            <<63,238,156,154,122,46,6,80>>, <<63,237,247,175,70,154,245,178>>, <<63,237,52,160,91,11,195,226>>, <<63,236,84,49,229,9,241,131>>,
            <<63,235,87,69,156,210,158,62>>, <<63,234,62,217,226,82,146,150>>, <<63,233,12,8,189,80,156,41>>, <<63,231,192,6,193,199,77,18>>,
            <<63,230,92,33,217,139,161,170>>, <<63,228,225,191,244,120,127,138>>, <<63,227,82,93,160,112,232,186>>, <<63,225,175,140,138,162,233,195>>,
            <<63,223,245,227,215,24,106,21>>, <<63,220,108,137,190,173,92,55>>, <<63,216,198,153,88,110,32,235>>, <<63,213,7,189,241,19,116,105>>,
            <<63,209,51,187,228,244,111,185>>, <<63,202,156,217,172,66,87,60>>, <<63,194,183,119,154,48,209,19>>, <<63,181,126,133,31,244,234,136>>,
            <<63,149,225,243,196,51,40,155>>, <<191,165,38,23,137,83,155,75>>, <<191,186,147,241,228,229,239,76>>, <<191,197,61,14,130,202,25,117>>,
            <<191,205,26,199,207,116,28,147>>, <<191,210,109,157,200,24,178,30>>, <<191,214,59,78,246,168,158,89>>, <<191,217,242,164,43,127,24,79>>,
            <<191,221,143,224,155,133,222,47>>, <<191,224,135,176,221,98,27,57>>, <<191,226,54,209,114,33,12,33>>, <<191,227,211,160,113,236,94,209>>,
            <<191,229,92,126,175,48,107,215>>, <<191,230,207,225,10,105,2,83>>, <<191,232,44,81,255,133,113,244>>, <<191,233,112,115,29,145,122,214>>,
            <<191,234,154,254,103,41,47,160>>, <<191,235,170,199,154,85,91,45>>, <<191,236,158,189,94,134,169,14>>, <<191,237,117,234,87,127,223,135>>,
            <<191,238,47,118,28,26,158,223>>, <<191,238,202,166,15,238,137,161>>, <<191,239,70,222,30,255,224,92>>, <<191,239,163,161,90,184,212,93>>,
            <<191,239,224,146,119,143,176,111>>, <<191,239,253,116,42,219,120,201>>, <<191,239,250,41,104,120,164,4>>, <<191,239,214,181,127,255,236,238>>,
            <<191,239,147,60,25,113,219,225>>, <<191,239,48,1,17,90,99,204>>, <<191,238,173,104,52,144,155,146>>, <<191,238,11,244,219,215,69,2>>,
            <<191,237,76,73,103,195,8,136>>, <<191,236,111,38,157,107,72,78>>, <<191,235,117,106,228,137,200,189>>, <<191,234,96,17,103,204,36,188>>,
            <<191,233,48,49,24,56,27,154>>, <<191,231,230,251,148,160,156,109>>, <<191,230,133,187,246,69,235,226>>, <<191,229,13,213,131,213,218,213>>,
            <<191,227,128,194,76,27,15,126>>, <<191,225,224,17,169,194,182,242>>, <<191,224,45,102,177,183,9,51>>, <<191,220,212,237,27,69,38,209>>,
            <<191,217,50,13,136,136,100,84>>, <<191,213,117,214,226,155,197,221>>, <<191,209,164,10,221,50,142,182>>, <<191,203,129,1,194,44,213,255>>,
            <<191,195,158,68,94,51,76,73>>, <<191,183,79,151,196,92,115,143>>, <<191,157,44,211,207,75,99,216>>, <<63,161,129,7,146,165,247,249>>,
            <<63,184,195,111,38,126,11,188>>, <<63,196,86,185,88,178,252,126>>, <<63,204,55,70,130,22,222,84>>, <<63,209,253,185,119,147,77,34>>,
            <<63,213,205,183,133,6,179,244>>, <<63,217,135,199,209,58,185,125>>, <<63,221,40,42,209,254,132,200>>, <<63,224,85,157,104,19,181,202>>,
            <<63,226,6,183,201,82,13,179>>, <<63,227,165,176,245,243,41,149>>, <<63,229,48,231,147,8,68,64>>, <<63,230,166,206,37,59,42,207>>,
            <<63,232,5,236,160,145,152,15>>, <<63,233,76,225,226,161,196,94>>, <<63,234,122,101,21,187,178,106>>, <<63,235,141,70,251,162,15,11>>,
            <<63,236,132,115,30,134,3,210>>, <<63,237,94,240,231,19,64,75>>, <<63,238,27,228,150,116,148,190>>, <<63,238,186,144,35,85,175,31>>,
            <<63,239,58,83,249,3,165,24>>, <<63,239,154,175,151,236,44,49>>, <<63,239,219,66,22,217,246,57>>, <<63,239,251,202,132,108,79,205>>,
            <<63,239,252,40,40,103,237,174>>, <<63,239,220,90,164,159,60,51>>, <<63,239,156,129,245,81,22,80>>, <<63,239,60,222,80,253,137,74>>,
            <<63,238,189,207,231,208,246,12>>, <<63,238,31,214,130,230,148,35>>, <<63,237,99,145,3,195,139,23>>, <<63,236,137,188,196,139,253,198>>,
            <<63,235,147,52,217,146,167,255>>, <<63,234,128,241,53,2,162,122>>, <<63,233,84,5,173,128,227,91>>, <<63,232,13,160,232,192,72,171>>,
            <<63,230,175,11,43,31,49,203>>, <<63,229,57,165,13,128,193,50>>, <<63,227,174,230,26,173,231,8>>, <<63,226,16,91,85,162,193,77>>,
            <<63,224,95,165,170,68,67,116>>, <<63,221,60,240,148,31,101,2>>, <<63,217,157,45,236,211,95,41>>, <<63,213,227,168,116,138,10,26>>,
            <<63,210,20,31,41,212,89,224>>, <<63,204,100,206,94,221,180,158>>, <<63,196,132,207,226,250,225,33>>, <<63,185,32,92,225,137,216,181>>,
            <<63,162,59,169,105,38,228,210>>, <<191,155,183,122,201,157,27,53>>, <<191,182,242,154,12,45,38,4>>, <<191,195,112,32,137,231,205,230>>,
            <<191,203,83,103,93,78,15,50>>, <<191,209,141,153,81,45,15,139>>, <<191,213,95,215,143,134,173,122>>, <<191,217,28,150,142,9,95,72>>,
            <<191,220,192,20,15,225,1,241>>, <<191,224,35,83,159,105,49,194>>, <<191,225,214,98,44,185,18,217>>, <<191,227,119,128,34,13,255,73>>,
            <<191,229,5,9,252,138,30,166>>, <<191,230,125,111,234,47,47,254>>, <<191,231,223,55,91,252,4,222>>, <<191,233,40,252,130,167,200,39>>,
            <<191,234,89,115,180,124,17,128>>, <<191,235,111,106,186,229,249,24>>, <<191,236,105,202,6,110,155,150>>, <<191,237,71,149,199,229,89,155>>,
            <<191,238,7,238,237,161,10,14>>, <<191,238,170,20,3,217,105,220>>, <<191,239,45,97,247,55,37,154>>, <<191,239,145,84,184,214,210,73>>,
            <<191,239,213,135,195,25,215,158>>, <<191,239,249,182,126,191,200,204>>, <<191,239,253,188,135,226,106,134>>, <<191,239,225,149,210,143,19,144>>,
            <<191,239,165,94,174,216,145,76>>, <<191,239,73,83,172,93,123,19>>, <<191,238,205,209,93,95,148,165>>, <<191,238,51,83,249,169,139,58>>,
            <<191,237,122,118,225,160,156,251>>, <<191,236,163,244,1,255,238,67>>, <<191,235,176,163,24,218,145,196>>, <<191,234,161,120,220,160,123,40>>,
            <<191,233,119,134,6,0,119,21>>, <<191,232,51,246,61,158,193,24>>, <<191,230,216,14,238,180,14,134>>, <<191,229,101,45,255,196,42,211>>,
            <<191,227,220,200,114,181,81,77>>, <<191,226,64,104,237,170,40,168>>, <<191,224,145,174,46,23,196,162>>, <<191,221,164,146,207,77,129,30>>,
            <<191,218,7,249,33,6,26,86>>, <<191,214,81,49,57,161,50,108>>, <<191,210,131,247,86,23,248,241>>, <<191,205,72,60,140,181,153,53>>,
            <<191,197,107,23,41,198,101,205>>, <<191,186,240,206,109,189,117,150>>, <<191,165,224,172,70,200,255,184>>, <<63,148,108,138,63,137,145,155>>,
            <<63,181,33,120,159,231,239,201>>, <<63,194,137,71,21,85,241,237>>, <<63,202,111,45,86,246,194,140>>, <<63,209,29,62,201,207,63,73>>,
            <<63,212,241,176,131,149,116,141>>, <<63,216,177,17,198,108,36,11>>, <<63,220,87,157,175,92,19,104>>, <<63,223,225,168,85,69,69,184>>,
            <<63,225,165,209,61,22,179,139>>, <<63,227,73,14,143,220,76,13>>, <<63,228,216,230,125,153,184,204>>, <<63,230,83,198,226,218,106,83>>,
            <<63,231,184,50,178,129,80,3>>, <<63,233,4,195,117,5,222,250>>, <<63,234,56,42,176,250,85,14>>, <<63,235,81,51,59,112,158,211>>,
            <<63,236,78,194,110,235,147,196>>, <<63,237,47,217,71,163,190,91>>, <<63,237,243,149,100,1,223,112>>, <<63,238,153,49,232,77,40,218>>,
            <<63,239,32,8,68,168,56,210>>, <<63,239,135,144,220,149,184,78>>, <<63,239,207,99,143,92,23,157>>, <<63,239,247,56,32,191,78,221>>,
            <<63,239,254,230,129,167,57,223>>, <<63,239,230,102,248,105,143,134>>, <<63,239,173,210,40,142,229,142>>, <<63,239,85,96,250,10,242,155>>,
            <<63,238,221,108,96,0,253,247>>, <<63,238,70,108,255,78,7,201>>, <<63,237,144,250,181,50,166,75>>, <<63,236,189,203,254,150,160,39>>,
            <<63,235,205,181,64,127,218,226>>, <<63,234,193,167,242,117,71,146>>, <<63,233,154,177,171,164,127,167>>, <<63,232,89,251,19,190,127,162>>,
            <<63,231,0,198,184,156,10,39>>, <<63,229,144,111,201,213,218,225>>, <<63,228,10,104,187,150,230,216>>, <<63,226,112,57,210,7,219,170>>,
            <<63,224,195,127,150,202,138,37>>, <<63,222,11,210,116,36,81,74>>, <<63,218,114,109,193,242,229,226>>, <<63,214,190,111,197,150,67,225>>,
            <<63,210,243,145,238,3,136,72>>, <<63,206,43,73,87,79,35,255>>, <<63,198,81,23,52,183,166,202>>, <<63,188,192,230,96,77,210,255>>,
            <<63,169,133,102,97,129,131,39>>, <<191,138,66,171,144,103,129,67>>, <<191,179,80,16,236,160,238,173>>, <<191,193,162,47,250,193,190,212>>,
            <<191,201,138,155,102,28,69,88>>, <<191,208,172,171,87,37,63,60>>, <<191,212,131,67,207,140,107,33>>, <<191,216,69,58,223,249,233,152>>,
            <<191,219,238,201,11,220,107,194>>, <<191,223,124,63,99,101,60,80>>, <<191,225,117,5,155,240,213,93>>, <<191,227,26,92,217,212,207,98>>,
            <<191,228,172,125,169,3,85,147>>, <<191,230,41,211,153,202,250,137>>, <<191,231,144,223,37,230,26,90>>, <<191,232,224,55,50,52,170,201>>,
            <<191,234,22,138,121,233,246,118>>, <<191,235,50,160,225,192,252,251>>, <<191,236,51,92,177,226,88,123>>, <<191,237,23,187,181,63,222,165>>,
            <<191,237,222,216,61,69,37,39>>, <<191,238,135,234,8,215,137,168>>, <<191,239,18,71,13,189,145,163>>, <<191,239,125,100,35,162,253,226>>,
            <<191,239,200,213,144,13,152,156>>, <<191,239,244,79,114,181,252,102>>, <<191,239,255,166,17,215,87,43>>, <<191,239,234,206,6,41,113,66>>,
            <<191,239,181,220,70,88,182,128>>, <<191,239,97,6,17,240,186,195>>, <<191,238,236,160,187,206,115,150>>, <<191,238,89,33,84,79,246,219>>,
            <<191,237,167,28,51,152,29,136>>, <<191,236,215,68,100,92,100,255>>, <<191,235,234,106,239,211,36,218>>, <<191,234,225,126,11,119,49,198>>,
            <<191,233,189,136,41,116,88,200>>, <<191,232,127,174,236,173,182,45>>, <<191,231,41,50,1,107,86,239>>, <<191,229,187,105,219,216,56,25>>,
            <<191,228,55,198,93,147,248,146>>, <<191,226,159,205,99,180,169,181>>, <<191,224,245,25,62,172,220,123>>, <<191,222,114,174,43,64,142,59>>,
            <<191,218,220,138,109,140,1,63>>, <<191,215,43,98,173,21,33,235>>, <<191,211,98,237,126,105,253,89>>, <<191,207,13,241,203,136,226,56>>,
            <<191,199,54,205,6,221,82,36>>, <<191,190,144,158,177,187,72,198>>, <<191,173,41,203,155,55,205,194>>, <<63,119,87,214,150,123,254,136>>,
            <<63,177,126,104,254,52,99,116>>, <<63,192,186,222,58,188,147,48>>, <<63,200,165,180,130,238,73,129>>, <<63,208,59,224,111,151,207,106>>,
            <<63,212,20,146,226,172,153,251>>, <<63,215,217,19,65,90,165,30>>, <<63,219,133,151,130,8,71,243>>, <<63,223,22,109,186,120,26,119>>,
            <<63,225,67,255,235,144,141,61>>, <<63,226,235,107,155,67,156,12>>, <<63,228,127,208,18,121,206,199>>, <<63,229,255,150,154,133,247,42>>,
            <<63,231,105,61,56,245,102,103>>, <<63,232,187,88,51,193,141,118>>, <<63,233,244,147,127,32,118,250>>, <<63,235,19,180,19,132,58,102>>,
            <<63,236,23,153,42,113,112,185>>, <<63,236,255,61,96,238,2,3>>, <<63,237,201,183,190,100,56,3>>, <<63,238,118,60,158,241,158,48>>,
            <<63,239,4,30,128,54,41,211>>, <<63,239,114,206,175,213,131,94>>, <<63,239,193,221,218,251,24,181>>, <<63,239,240,252,126,80,128,19>>,
            <<63,239,255,251,53,245,166,218>>, <<63,239,238,202,237,42,83,164>>, <<63,239,189,124,237,121,15,177>>, <<63,239,108,66,205,84,52,65>>,
            <<63,238,251,110,62,54,158,34>>, <<63,238,107,112,186,122,36,86>>, <<63,237,188,219,19,54,131,204>>, <<63,236,240,92,222,155,122,215>>,
            <<63,236,6,195,199,88,152,103>>, <<63,235,0,250,189,196,87,254>>, <<63,233,224,9,11,146,147,162>>, <<63,232,165,17,75,7,240,127>>,
            <<63,231,81,80,66,180,153,85>>, <<63,229,230,27,166,220,49,60>>, <<63,228,100,224,193,203,127,14>>, <<63,226,207,35,4,117,90,77>>,
            <<63,225,38,122,128,200,108,9>>, <<63,222,217,36,158,139,69,187>>, <<63,219,70,77,194,232,63,178>>, <<63,215,152,8,133,197,66,253>>,
            <<63,211,210,8,148,239,222,94>>, <<63,207,240,50,247,143,21,193>>, <<63,200,28,53,164,60,255,40>>, <<63,192,47,248,173,226,37,114>>,
            <<63,176,102,231,235,118,244,141>>, <<63,87,87,222,89,245,219,254>>, <<191,175,89,13,194,168,124,16>>, <<191,191,166,169,173,53,211,76>>,
            <<191,199,192,123,166,183,5,159>>, <<191,207,149,191,20,144,33,204>>, <<191,211,165,159,45,25,239,13>>, <<191,215,108,156,82,66,204,131>>,
            <<191,219,28,10,111,186,217,118>>, <<191,222,176,52,173,31,236,174>>, <<191,225,18,192,207,0,13,192>>, <<191,226,188,59,112,72,13,41>>,
            <<191,228,82,222,78,148,172,233>>, <<191,229,213,16,113,133,159,103>>, <<191,231,65,77,111,126,224,4>>, <<191,232,150,38,244,77,15,157>>,
            <<191,233,210,70,49,147,231,62>>, <<191,234,244,109,55,148,81,151>>, <<191,235,251,120,52,239,84,237>>, <<191,236,230,94,156,36,61,140>>,
            <<191,237,180,52,45,162,217,191>>, <<191,238,100,41,229,102,45,143>>, <<191,238,245,142,203,40,170,197>>, <<191,239,103,208,164,96,121,143>>,
            <<191,239,186,124,135,80,232,128>>, <<191,239,237,63,78,156,252,89>>, <<191,239,255,229,236,230,254,169>>, <<191,239,242,93,160,40,220,112>>,
            <<191,239,196,180,4,145,189,142>>, <<191,239,119,23,6,213,213,177>>, <<191,239,9,212,181,254,53,114>>, <<191,238,125,90,244,231,11,232>>,
            <<191,237,210,55,11,187,88,209>>, <<191,237,9,21,25,221,32,187>>, <<191,236,34,191,104,201,39,14>>, <<191,235,32,29,160,164,49,25>>,
            <<191,234,2,51,223,62,124,227>>, <<191,232,202,33,178,119,186,104>>, <<191,231,121,32,247,10,164,84>>, <<191,230,16,132,156,227,21,129>>,
            <<191,228,145,183,82,60,22,155>>, <<191,226,254,58,22,220,177,145>>, <<191,225,87,162,184,226,124,147>>, <<191,223,63,52,121,62,90,115>>,
            <<191,219,175,182,98,71,136,53>>, <<191,216,4,95,230,78,97,237>>, <<191,212,64,225,192,16,48,167>>, <<191,208,105,4,245,114,192,26>>,
            <<191,201,1,78,17,221,11,121>>, <<191,193,23,108,44,188,177,104>>, <<191,178,56,179,124,115,249,186>>, <<191,129,129,217,45,99,109,210>>,
            <<63,171,180,225,70,231,125,208>>, <<63,189,215,45,160,212,133,0>>, <<63,198,218,243,203,209,88,237>>, <<63,206,179,84,62,21,130,122>>,
            <<63,211,54,106,31,214,120,230>>, <<63,214,255,215,123,110,159,10>>, <<63,218,178,35,51,255,190,81>>, <<63,222,73,149,143,86,167,131>>,
            <<63,224,225,72,234,8,130,52>>, <<63,226,140,204,245,210,200,146>>, <<63,228,37,168,242,206,50,213>>, <<63,229,170,65,172,55,130,15>>,
            <<63,231,25,16,78,85,40,176>>, <<63,232,112,163,239,137,75,63>>, <<63,233,175,163,3,89,112,187>>, <<63,234,212,204,181,246,194,32>>,
            <<63,235,222,250,46,233,56,35>>, <<63,236,205,31,185,153,97,138>>, <<63,237,158,77,210,142,75,169>>, <<63,238,81,178,24,80,241,52>>,
            <<63,238,230,152,31,2,209,231>>, <<63,239,92,106,37,210,236,172>>, <<63,239,178,177,173,154,158,108>>, <<63,239,233,23,240,10,226,194>>,
            <<63,239,255,102,54,242,41,66>>, <<63,239,245,134,19,66,232,61>>, <<63,239,203,129,115,163,162,176>>, <<63,239,129,130,154,113,169,24>>,
            <<63,239,23,211,243,64,163,217>>, <<63,238,142,223,200,1,165,82>>, <<63,237,231,47,214,29,10,187>>, <<63,237,33,108,195,234,174,249>>,
            <<63,236,62,93,119,19,195,174>>, <<63,235,62,230,76,136,226,103>>, <<63,234,36,8,50,213,147,74>>, <<63,232,238,223,167,184,53,147>>,
            <<63,231,160,163,154,2,58,157>>, <<63,230,58,164,48,224,114,156>>, <<63,228,190,73,121,197,240,147>>, <<63,227,45,17,254,77,128,189>>,
            <<63,225,136,145,67,126,5,183>>, <<63,223,164,220,103,232,216,186>>, <<63,220,24,194,237,23,117,230>>, <<63,216,112,103,102,93,62,150>>,
            <<63,212,175,119,143,33,42,219>>, <<63,208,217,185,219,56,144,238>>, <<63,201,230,19,85,206,116,232>>, <<63,193,254,166,211,168,154,54>>,
            <<63,180,10,66,115,106,178,63>>, <<63,144,12,62,42,210,142,128>>, <<191,168,16,88,165,103,139,115>>, <<191,188,7,78,85,206,85,15>>,
            <<191,197,245,31,237,158,196,86>>, <<191,205,208,131,76,198,146,33>>, <<191,210,198,245,44,189,140,44>>, <<191,214,146,198,38,157,106,85>>,
            <<191,218,71,227,47,14,117,48>>, <<191,221,226,145,182,105,178,112>>, <<191,224,175,152,225,47,239,151>>, <<191,226,93,32,201,163,174,129>>,
            <<191,227,248,48,149,129,117,224>>, <<191,229,127,42,216,250,175,240>>, <<191,230,240,134,91,76,24,81>>, <<191,232,74,207,162,56,75,64>>,
            <<191,233,140,170,103,163,218,82>>, <<191,234,180,210,247,219,46,25>>, <<191,235,194,31,119,33,209,203>>, <<191,236,179,129,13,67,236,99>>,
            <<191,237,136,4,245,252,93,200>>, <<191,238,62,213,117,29,202,105>>, <<191,238,215,58,173,136,206,41>>, <<191,239,80,155,90,23,75,37>>,
            <<191,239,170,125,103,194,197,172>>, <<191,239,228,134,112,106,202,148>>, <<191,239,254,124,21,191,229,79>>, <<191,239,248,68,59,247,177,249>>,
            <<191,239,209,229,36,15,6,0>>, <<191,239,139,133,101,127,195,62>>, <<191,239,37,107,199,112,167,85>>, <<191,238,159,254,249,134,38,232>>,
            <<191,237,251,197,44,155,229,60>>, <<191,237,57,99,139,206,171,1>>, <<191,236,89,157,150,94,151,18>>, <<191,235,93,84,91,16,156,99>>,
            <<191,234,69,133,149,213,6,87>>, <<191,233,19,74,176,150,184,163>>, <<191,231,199,215,168,51,190,210>>, <<191,230,100,121,214,187,225,41>>,
            <<191,228,234,150,164,44,193,210>>, <<191,227,91,170,30,252,179,209>>, <<191,225,185,69,125,221,210,171>>, <<191,224,5,13,140,57,189,188>>,
            <<191,220,129,114,5,247,226,81>>, <<191,216,220,29,158,168,50,60>>, <<191,213,29,200,146,89,14,86>>, <<191,209,74,54,182,65,13,74>>,
            <<191,202,202,130,119,54,215,28>>, <<191,194,229,165,161,158,55,51>>, <<191,181,219,142,195,252,55,35>>, <<191,151,87,90,95,156,250,116>>,
            <<63,164,107,127,251,156,92,11>>, <<63,186,55,17,210,230,111,87>>, <<63,197,15,3,8,125,182,175>>, <<63,204,237,79,50,253,183,110>>,
            <<63,210,87,65,198,127,12,103>>, <<63,214,37,105,190,140,237,171>>, <<63,217,221,75,194,69,187,111>>, <<63,221,123,42,120,245,110,29>>,
            <<63,224,125,177,89,183,19,24>>, <<63,226,45,55,138,71,206,129>>, <<63,227,202,117,205,232,101,48>>, <<63,229,83,204,135,29,220,131>>,
            <<63,230,199,176,29,55,8,94>>, <<63,232,36,170,138,42,116,39>>, <<63,233,105,92,210,194,10,100>>, <<63,234,148,128,103,154,3,219>>,
            <<63,235,164,232,109,144,34,150>>, <<63,236,153,130,236,88,236,108>>, <<63,237,113,89,226,10,125,88>>, <<63,238,43,148,58,135,250,132>>,
            <<63,238,199,118,169,212,154,249>>, <<63,239,68,100,104,114,230,82>>, <<63,239,161,223,209,18,135,71>>, <<63,239,223,138,222,238,67,10>>,
            <<63,239,253,39,140,90,224,8>>, <<63,239,250,152,17,39,245,201>>, <<63,239,215,223,0,147,223,210>>, <<63,239,149,31,70,180,182,243>>,
            <<63,239,50,156,5,88,233,130>>, <<63,238,176,184,80,130,201,206>>, <<63,238,15,246,202,194,245,62>>, <<63,237,80,249,33,213,207,165>>,
            <<63,236,116,127,108,8,53,42>>, <<63,235,123,103,103,6,237,27>>, <<63,234,102,171,152,219,42,36>>, <<63,233,55,98,83,244,100,83>>,
            <<63,231,238,188,159,60,236,178>>, <<63,230,142,5,3,82,220,102>>, <<63,229,22,158,62,25,181,198>>, <<63,227,138,1,221,243,78,18>>,
            <<63,225,233,190,198,6,157,211>>, <<63,224,55,119,157,18,124,24>>, <<63,220,233,194,80,191,111,108>>, <<63,217,71,129,40,243,248,33>>,
            <<63,213,139,211,90,210,234,141>>, <<63,209,186,122,16,110,152,147>>, <<63,203,174,152,126,90,70,43>>, <<63,195,204,101,150,92,250,140>>,
            <<63,183,172,146,98,167,92,24>>, <<63,158,162,40,243,94,82,167>>, <<191,160,198,99,104,4,51,56>>, <<191,184,102,126,32,22,22,245>>,
            <<191,196,40,160,25,191,95,130>>, <<191,204,9,186,228,95,33,162>>, <<191,209,231,81,96,154,139,235>>, <<191,213,183,195,174,244,148,161>>,
            <<191,217,114,94,80,39,11,170>>, <<191,221,19,97,46,224,214,17>>, <<191,224,75,146,249,151,53,170>>, <<191,225,253,17,215,23,89,199>>,
            <<191,227,156,121,52,25,206,10>>, <<191,229,40,39,70,221,130,193>>, <<191,230,158,142,27,231,15,96>>, <<191,231,254,53,38,60,220,147>>,
            <<191,233,69,186,186,29,127,34>>, <<191,234,115,213,112,179,23,251>>, <<191,235,135,85,115,94,54,75>>, <<191,236,127,37,173,74,234,167>>,
            <<191,237,90,76,226,28,190,72>>, <<191,238,23,238,168,153,77,22>>, <<191,238,183,76,72,85,86,73>>, <<191,239,55,197,121,133,112,154>>,
            <<191,239,152,217,6,49,79,147>>, <<191,239,218,37,76,39,160,30>>, <<191,239,251,104,159,47,171,7>>, <<191,239,252,129,139,22,15,168>>,
            <<191,239,221,110,245,82,30,253>>, <<191,239,158,80,30,34,3,125>>, <<191,239,63,100,129,28,151,114>>, <<191,238,193,11,149,88,134,186>>,
            <<191,238,35,196,109,104,239,108>>, <<191,237,104,45,55,144,25,133>>, <<191,236,143,2,158,168,196,220>>, <<191,235,153,31,12,102,20,227>>,
            <<191,234,135,121,205,168,238,100>>, <<191,233,91,38,25,199,181,17>>, <<191,232,21,81,253,194,142,169>>, <<191,230,183,69,44,122,143,128>>,
            <<191,229,66,95,181,29,77,219>>, <<191,227,184,24,161,16,115,219>>, <<191,226,25,252,122,193,50,31>>, <<191,224,105,171,190,211,54,106>>,
            <<191,221,81,178,114,128,9,242>>, <<191,217,178,144,160,24,59,10>>, <<191,213,249,150,122,147,97,72>>, <<191,210,42,130,116,98,228,180>>,
            <<191,204,146,82,116,165,45,90>>, <<191,196,178,227,178,117,92,117>>, <<191,185,125,71,68,220,186,71>>, <<191,162,246,72,210,178,174,186>>,
            <<63,154,66,30,19,254,37,231>>, <<63,182,149,153,70,120,87,149>>, <<63,195,65,250,31,157,244,243>>, <<63,203,37,201,85,206,255,61>>,
            <<63,209,119,37,111,90,127,247>>, <<63,213,73,213,100,128,193,48>>, <<63,217,7,28,60,81,244,50>>, <<63,220,171,55,49,88,250,215>>,
            <<63,224,25,62,103,128,14,66>>, <<63,225,204,176,80,51,138,161>>, <<63,227,110,59,97,7,107,108>>, <<63,228,252,59,169,98,6,245>>,
            <<63,230,117,32,224,41,56,249>>, <<63,231,215,111,246,87,168,148>>, <<63,233,33,196,148,56,208,147>>, <<63,234,82,210,127,204,64,218>>,
            <<63,235,105,102,234,231,220,150>>, <<63,236,100,105,167,200,199,188>>, <<63,237,66,222,66,220,225,82>>, <<63,238,3,229,0,169,71,139>>,
            <<63,238,166,187,190,206,146,191>>, <<63,239,42,190,183,72,119,59>>, <<63,239,143,105,37,36,110,235>>, <<63,239,212,85,202,9,196,160>>,
            <<63,239,249,63,84,12,173,150>>, <<63,239,254,0,163,102,20,178>>, <<63,239,226,148,239,201,235,219>>, <<63,239,167,23,205,54,128,7>>,
            <<63,239,75,197,16,55,244,214>>, <<63,238,208,248,145,187,206,108>>, <<63,238,55,45,210,177,14,56>>, <<63,237,126,255,127,209,202,79>>,
            <<63,236,169,38,214,19,45,27>>, <<63,235,182,122,232,88,76,206>>, <<63,234,167,239,199,35,70,55>>, <<63,233,126,149,139,30,23,27>>,
            <<63,232,59,151,67,114,36,15>>, <<63,230,224,57,201,1,161,25>>, <<63,229,109,218,119,177,84,148>>, <<63,227,229,237,207,11,105,157>>,
            <<63,226,73,253,251,156,119,153>>, <<63,224,155,169,74,131,219,197>>, <<63,221,185,65,17,139,117,235>>, <<63,218,29,74,160,4,71,229>>,
            <<63,214,103,16,132,141,100,22>>, <<63,210,154,78,109,131,176,244>>, <<63,205,117,173,100,182,34,58>>, <<63,197,153,28,247,82,195,195>>,
            <<63,187,77,167,97,18,199,226>>, <<63,166,155,62,27,41,220,100>>, <<191,146,247,30,3,77,20,101>>, <<191,180,196,105,80,54,82,55>>,
            <<191,194,91,20,25,50,159,219>>, <<191,202,65,125,125,103,137,114>>, <<191,209,6,191,103,207,91,35>>, <<191,212,219,160,76,206,18,160>>,
            <<191,216,155,134,235,127,127,154>>, <<191,220,66,173,218,204,141,25>>, <<191,223,205,104,149,171,33,80>>, <<191,225,156,19,150,132,153,203>>,
            <<191,227,63,188,238,123,227,24>>, <<191,228,208,10,64,189,205,233>>, <<191,230,75,104,243,196,199,96>>, <<191,231,176,91,123,108,96,68>>,
            <<191,232,253,122,216,174,28,164>>, <<191,234,49,120,2,175,237,76>>, <<191,235,75,29,55,185,105,2>>, <<191,236,73,79,52,188,153,61>>,
            <<191,237,43,14,82,57,82,150>>, <<191,237,239,119,133,92,77,50>>, <<191,238,149,197,68,87,162,164>>, <<191,239,29,80,77,14,213,110>>,
            <<191,239,133,144,77,78,182,45>>, <<191,239,206,28,107,231,229,16>>, <<191,239,246,171,178,34,17,94>>, <<191,239,255,21,85,29,232,146>>,
            <<191,239,231,80,222,219,229,151>>, <<191,239,175,118,54,190,191,106>>, <<191,239,87,189,137,128,230,188>>, <<191,238,224,127,16,181,64,102>>,
            <<191,238,74,50,186,11,239,133>>, <<191,237,149,111,174,180,108,134>>, <<191,236,194,235,187,86,57,58>>, <<191,235,211,122,153,57,18,136>>,
            <<191,234,200,13,25,84,151,153>>, <<191,233,161,176,50,29,106,191>>, <<191,232,97,139,241,3,145,71>>, <<191,231,8,226,80,177,250,38>>,
            <<191,229,153,13,245,58,182,255>>, <<191,228,19,128,207,117,145,173>>, <<191,226,121,194,168,239,150,58>>, <<191,224,205,111,153,225,230,172>>,
            <<191,222,32,108,213,119,197,41>>, <<191,218,135,173,197,195,170,74>>, <<191,214,212,64,12,166,253,167>>, <<191,211,9,220,135,255,176,140>>,
            <<191,206,88,166,90,103,218,190>>, <<191,198,127,14,103,69,147,40>>, <<191,189,29,172,174,217,220,125>>, <<191,170,63,232,52,55,159,74>>,
            <<63,135,87,189,190,149,132,183>>, <<63,178,242,244,72,114,247,41>>, <<63,193,115,241,6,107,140,106>>, <<63,201,92,218,82,111,89,180>>,
            <<63,208,150,32,191,202,203,179>>, <<63,212,109,37,214,100,150,118>>, <<63,216,47,159,195,125,131,145>>, <<63,219,217,198,134,231,79,27>>,
            <<63,223,103,234,151,91,132,219>>, <<63,225,107,60,75,183,162,99>>, <<63,227,16,254,119,24,199,174>>, <<63,228,163,147,159,235,96,36>>,
            <<63,230,33,102,225,121,99,131>>, <<63,231,136,248,55,116,68,74>>, <<63,232,216,222,0,45,130,3>>, <<63,234,15,198,104,75,184,155>>,
            <<63,235,44,120,190,142,95,180>>, <<63,236,45,214,174,74,129,239>>, <<63,237,18,221,95,100,39,249>>, <<63,237,218,166,122,162,194,70>>,
            <<63,238,132,105,17,90,228,162>>, <<63,239,15,122,103,132,36,188>>, <<63,239,123,78,159,112,12,253>>, <<63,239,199,121,70,117,72,176>>,
            <<63,239,243,173,194,1,170,154>>, <<63,239,255,191,156,165,78,30>>, <<63,239,235,162,178,201,90,247>>, <<63,239,183,107,62,229,114,142>>,
            <<63,239,99,77,197,39,126,61>>, <<63,238,239,158,222,162,87,215>>, <<63,238,92,210,228,56,103,102>>, <<63,237,171,125,121,151,203,62>>,
            <<63,236,220,80,248,189,185,56>>, <<63,235,240,29,190,150,112,3>>, <<63,234,231,209,89,110,33,72>>, <<63,233,196,117,154,5,144,8>>,
            <<63,232,135,47,136,58,197,179>>, <<63,231,49,62,60,82,143,44>>, <<63,229,195,249,158,11,107,171>>, <<63,228,64,209,10,188,101,171>>,
            <<63,226,169,73,227,219,253,99>>, <<63,224,254,254,7,98,132,77>>, <<63,222,135,52,103,35,201,182>>, <<63,218,241,184,175,130,201,1>>,
            <<63,215,65,35,167,190,5,47>>, <<63,211,121,43,80,211,91,109>>, <<63,207,59,58,98,218,201,136>>, <<63,199,100,181,5,141,19,211>>,
            <<63,190,237,81,38,240,129,37>>, <<63,173,228,58,255,248,146,48>>, <<191,113,129,227,168,123,30,42>>, <<191,177,33,64,59,54,188,164>>,
            <<191,192,140,147,232,1,248,21>>, <<191,200,119,226,205,79,109,60>>, <<191,208,37,74,237,218,208,244>>, <<191,211,254,103,112,179,28,22>>,
            <<191,215,195,104,43,42,17,5>>, <<191,219,112,130,146,141,165,240>>, <<191,223,2,4,37,157,27,94>>, <<191,225,58,43,18,60,131,30>>,
            <<191,226,226,0,150,84,150,97>>, <<191,228,118,216,90,203,124,154>>, <<191,229,247,27,52,253,80,250>>, <<191,231,97,70,173,110,153,140>>,
            <<191,232,179,238,132,123,137,197>>, <<191,233,237,190,32,174,244,247>>, <<191,235,13,121,229,80,45,160>>, <<191,236,18,0,111,207,134,242>>,
            <<191,236,250,75,186,210,27,111>>, <<191,237,197,114,37,184,41,249>>, <<191,238,114,167,95,149,3,134>>, <<191,239,1,61,52,172,40,107>>,
            <<191,239,112,164,61,165,6,222>>, <<191,239,192,108,111,197,3,229>>, <<191,239,240,69,141,158,219,44>>, <<191,239,255,255,119,197,243,19>>,
            <<191,239,239,138,93,52,127,83>>, <<191,239,190,246,203,51,196,106>>, <<191,239,110,117,156,182,124,20>>, <<191,238,254,87,201,54,25,126>>,
            <<191,238,111,14,19,68,85,35>>, <<191,237,193,40,151,34,237,115>>, <<191,236,245,86,57,211,162,62>>, <<191,236,12,99,249,50,54,68>>,
            <<191,235,7,60,29,201,92,239>>, <<191,233,230,229,79,49,238,147>>, <<191,232,172,129,139,233,95,144>>, <<191,231,89,77,5,169,31,28>>,
            <<191,229,238,156,227,100,79,2>>, <<191,228,109,221,234,43,115,71>>, <<191,226,216,147,14,79,122,210>>, <<191,225,48,83,238,52,193,225>>,
            <<191,222,237,150,112,187,149,168>>, <<191,219,91,105,252,147,123,44>>, <<191,215,173,185,235,172,206,180>>, <<191,211,232,57,85,205,192,44>>,
            <<191,208,14,179,70,63,149,91>>, <<191,200,74,13,214,97,100,230>>, <<191,192,94,71,97,171,142,206>>, <<191,176,196,21,48,213,228,243>>,
            <<191,103,87,220,204,119,87,125>>, <<63,174,158,166,106,183,195,249>>, <<63,191,73,255,126,224,42,114>>, <<63,199,146,153,231,137,83,185>>,
            <<63,207,104,126,210,137,202,124>>, <<63,211,143,102,140,10,95,166>>, <<63,215,86,225,138,110,187,217>>, <<63,219,6,227,91,216,2,205>>,
            <<63,222,155,182,147,87,17,130>>, <<63,225,8,224,141,67,204,28>>, <<63,226,178,195,232,120,179,140>>, <<63,228,73,217,6,35,40,55>>,
            <<63,229,204,134,122,251,157,98>>, <<63,231,57,71,97,94,248,34>>, <<63,232,142,172,224,111,147,177>>, <<63,233,203,95,157,9,62,229>>,
            <<63,234,238,33,19,20,209,114>>, <<63,235,245,204,213,224,92,19>>, <<63,236,225,89,182,57,124,247>>, <<63,237,175,218,205,34,64,238>>,
            <<63,238,96,128,106,20,58,87>>, <<63,238,242,152,227,226,52,245>>, <<63,239,101,145,75,102,112,205>>, <<63,239,184,245,255,73,174,252>>,
            <<63,239,236,115,32,78,114,36>>, <<63,239,255,212,229,171,119,152>>, <<63,239,243,7,209,32,153,118>>, <<63,239,198,24,194,145,179,13>>,
            <<63,239,121,52,235,19,210,12>>, <<63,239,12,169,159,121,185,242>>, <<63,238,128,228,10,141,112,3>>, <<63,237,214,112,191,69,9,47>>,
            <<63,237,13,251,43,97,33,121>>, <<63,236,40,76,235,3,62,33>>, <<63,235,38,76,253,233,98,210>>, <<63,234,8,254,223,26,238,255>>,
            <<63,232,209,129,127,240,75,9>>, <<63,231,129,14,39,123,239,11>>, <<63,230,24,247,55,118,254,3>>, <<63,228,154,166,215,238,78,85>>,
            <<63,227,7,157,139,6,70,179>>, <<63,225,97,112,170,67,164,240>>, <<63,223,83,145,157,188,232,114>>, <<63,219,196,192,77,113,171,175>>,
            <<63,216,26,1,111,78,234,178>>, <<63,212,87,5,37,149,79,105>>, <<63,208,127,147,243,143,75,223>>, <<63,201,47,21,222,253,95,206>>,
            <<63,193,69,175,191,178,24,69>>, <<63,178,149,213,30,237,126,245>>, <<63,132,108,204,209,202,116,112>>, <<191,170,250,102,136,244,33,59>>,
            <<191,189,122,111,29,206,119,5>>, <<191,198,173,2,155,173,43,55>>, <<191,206,133,255,84,2,28,189>>, <<191,211,32,36,153,152,72,174>>,
            <<191,214,234,13,74,59,245,80>>, <<191,218,156,234,66,14,90,60>>, <<191,222,53,3,52,199,157,185>>, <<191,224,215,93,96,188,153,119>>,
            <<191,226,131,73,10,159,92,112>>, <<191,228,28,150,55,153,200,73>>, <<191,229,161,169,65,18,77,252>>, <<191,231,16,250,216,75,151,21>>,
            <<191,232,105,25,143,242,61,170>>, <<191,233,168,171,79,168,251,119>>, <<191,234,206,110,176,29,133,196>>, <<191,235,217,60,62,72,54,153>>,
            <<191,236,200,7,164,145,35,163>>, <<191,237,153,224,184,176,15,182>>, <<191,238,77,244,109,55,141,141>>, <<191,238,227,141,165,216,144,136>>,
            <<191,239,90,21,237,136,218,18>>, <<191,239,177,22,13,213,24,120>>, <<191,239,232,54,134,198,133,204>>, <<191,239,255,63,230,227,112,248>>,
            <<191,239,246,27,2,242,47,106>>, <<191,239,204,209,13,70,97,134>>, <<191,239,131,139,140,129,28,19>>, <<191,239,26,148,49,205,66,110>>,
            <<191,238,146,84,142,194,19,87>>, <<191,237,235,85,171,54,115,57>>, <<191,237,38,63,123,111,183,184>>, <<191,236,67,216,55,54,160,1>>,
            <<191,235,69,3,146,124,61,203>>, <<191,234,42,193,216,87,124,164>>, <<191,232,246,46,233,65,100,13>>, <<191,231,168,129,29,147,137,108>>,
            <<191,230,67,8,13,103,172,123>>, <<191,228,199,43,63,18,128,16>>, <<191,227,54,104,189,141,14,172>>, <<191,225,146,83,152,56,90,145>>,
            <<191,223,185,36,154,251,155,91>>, <<191,220,45,186,67,199,208,250>>, <<191,216,133,248,202,133,211,122>>, <<191,212,197,141,79,172,183,98>>,
            <<191,208,240,61,193,242,246,25>>, <<191,202,19,202,37,168,160,131>>, <<191,194,44,222,171,236,65,127>>, <<191,180,103,87,61,65,86,101>>,
            <<191,145,129,175,65,43,81,248>>, <<63,167,85,204,237,164,148,149>>, <<63,187,170,124,178,139,141,99>>, <<63,197,199,31,229,79,231,32>>,
            <<63,205,163,26,81,106,36,216>>, <<63,210,176,163,11,99,15,4>>, <<63,214,124,236,212,132,76,178>>, <<63,218,50,152,165,163,147,214>>,
            <<63,221,205,235,95,127,120,162>>, <<63,224,165,162,49,82,115,184>>, <<63,226,83,144,154,177,168,13>>, <<63,227,239,16,133,183,42,169>>,
            <<63,229,118,132,21,208,130,203>>, <<63,230,232,97,152,59,141,216>>, <<63,232,67,53,15,251,200,234>>, <<63,233,133,161,171,249,228,91>>,
            <<63,234,174,99,37,213,103,118>>, <<63,235,188,79,8,7,141,151>>, <<63,236,174,85,218,15,89,172>>, <<63,237,131,132,49,121,1,54>>,
            <<63,238,59,3,166,174,2,228>>, <<63,238,212,27,172,151,212,14>>, <<63,239,78,50,74,60,28,13>>, <<63,239,168,204,181,151,241,107>>,
            <<63,239,227,143,207,30,72,232>>, <<63,239,254,64,125,93,103,211>>, <<63,239,248,195,232,111,44,236>>, <<63,239,211,31,148,248,103,162>>,
            <<63,239,141,121,94,156,24,175>>, <<63,239,40,23,81,232,44,63>>, <<63,238,163,95,101,226,0,33>>, <<63,237,255,215,21,121,137,201>>,
            <<63,237,62,34,217,74,68,19>>, <<63,236,95,5,130,48,232,147>>, <<63,235,99,95,117,92,75,114>>, <<63,234,76,45,202,158,125,134>>,
            <<63,233,26,137,77,225,6,194>>, <<63,231,207,165,100,188,116,104>>, <<63,230,108,206,217,78,253,202>>, <<63,228,243,106,139,137,123,25>>,
            <<63,227,100,244,10,66,252,149>>, <<63,225,194,252,21,124,74,214>>, <<63,224,15,39,11,83,3,10>>, <<63,220,150,86,130,115,151,12>>,
            <<63,216,241,158,150,61,154,225>>, <<63,213,51,208,100,119,146,238>>, <<63,209,96,175,58,183,127,147>>, <<63,202,248,39,177,193,59,200>>,
            <<63,195,19,209,37,121,100,68>>, <<63,182,56,149,127,157,109,160>>, <<63,152,204,189,224,26,20,42>>, <<191,163,176,229,182,117,170,115>>,
            <<191,185,218,46,68,26,53,125>>, <<191,196,224,244,193,1,77,34>>, <<191,204,191,210,189,95,7,62>>, <<191,210,64,227,84,68,131,6>>,
            <<191,214,15,129,148,55,209,230>>, <<191,217,199,239,232,48,249,181>>, <<191,221,102,112,106,93,133,155>>, <<191,224,115,175,164,107,44,44>>,
            <<191,226,35,155,55,101,108,238>>, <<191,227,193,72,135,225,146,157>>, <<191,229,75,23,136,180,166,196>>, <<191,230,191,124,40,53,23,229>>,
            <<191,232,28,255,222,146,118,121>>, <<191,233,98,67,38,131,131,71>>, <<191,234,141,254,222,208,18,176>>, <<191,235,159,5,147,82,228,202>>,
            <<191,236,148,68,172,40,197,70>>, <<191,237,108,197,129,219,233,134>>, <<191,238,39,174,85,117,212,53>>, <<191,238,196,67,43,126,66,204>>,
            <<191,239,65,230,137,10,217,176>>, <<191,239,160,26,18,33,119,253>>, <<191,239,222,127,8,205,220,179>>, <<191,239,252,214,172,106,209,137>>,
            <<191,239,251,2,120,191,5,97>>, <<191,239,217,4,68,174,28,210>>, <<191,239,150,254,64,95,26,235>>, <<191,239,53,50,210,217,252,63>>,
            <<191,238,180,4,87,63,32,109>>, <<191,238,19,244,185,219,158,110>>, <<191,237,85,164,245,126,19,184>>, <<191,236,121,212,113,143,72,145>>,
            <<191,235,129,96,65,145,136,112>>, <<191,234,109,66,70,200,71,209>>, <<191,233,62,144,52,231,175,65>>, <<191,231,246,122,122,200,230,57>>,
            <<191,230,150,75,16,59,211,70>>, <<191,229,31,100,42,42,134,85>>, <<191,227,147,62,214,91,194,117>>, <<191,225,243,105,128,59,60,74>>,
            <<191,224,65,134,96,36,184,12>>, <<191,220,254,147,173,138,79,107>>, <<191,217,92,241,108,113,144,209>>, <<191,213,161,204,245,63,78,107>>,
            <<191,209,208,230,231,229,47,194>>, <<191,203,220,43,139,197,192,79>>, <<191,195,250,132,44,65,236,134>>, <<191,184,9,137,218,175,71,112>>,
            <<191,160,11,189,2,21,163,193>>, <<63,160,11,189,2,21,172,149>>, <<63,184,9,137,218,175,75,214>>, <<63,195,250,132,44,65,238,180>>,
            <<63,203,220,43,139,197,186,168>>, <<63,209,208,230,231,229,48,210>>, <<63,213,161,204,245,63,79,117>>, <<63,217,92,241,108,113,145,213>>,
            <<63,220,254,147,173,138,80,103>>, <<63,224,65,134,96,36,184,133>>, <<63,225,243,105,128,59,60,191>>, <<63,227,147,62,214,91,194,229>>,
            <<63,229,31,100,42,42,134,191>>, <<63,230,150,75,16,59,211,170>>, <<63,231,246,122,122,200,230,151>>, <<63,233,62,144,52,231,175,152>>,
            <<63,234,109,66,70,200,71,0>>, <<63,235,129,96,65,145,136,184>>, <<63,236,121,212,113,143,72,210>>, <<63,237,85,164,245,126,19,240>>,
            <<63,238,19,244,185,219,158,159>>, <<63,238,180,4,87,63,32,148>>, <<63,239,53,50,210,217,252,208>>, <<63,239,150,254,64,95,26,176>>,
            <<63,239,217,4,68,174,28,224>>, <<63,239,251,2,120,191,5,102>>, <<63,239,252,214,172,106,209,133>>, <<63,239,222,127,8,205,220,167>>,
            <<63,239,160,26,18,33,119,231>>, <<63,239,65,230,137,10,217,146>>, <<63,238,196,67,43,126,67,50>>, <<63,238,39,174,85,117,212,6>>,
            <<63,237,108,197,129,219,233,79>>, <<63,236,148,68,172,40,196,32>>, <<63,235,159,5,147,82,228,130>>, <<63,234,141,254,222,208,18,97>>,
            <<63,233,98,67,38,131,130,241>>, <<63,232,28,255,222,146,116,204>>, <<63,230,191,124,40,53,23,129>>, <<63,229,75,23,136,180,166,91>>,
            <<63,227,193,72,135,225,146,46>>, <<63,226,35,155,55,101,108,121>>, <<63,224,115,175,164,107,45,105>>, <<63,221,102,112,106,93,132,160>>,
            <<63,217,199,239,232,48,248,179>>, <<63,214,15,129,148,55,208,220>>, <<63,210,64,227,84,68,129,247>>, <<63,204,191,210,189,95,5,23>>,
            <<63,196,224,244,193,1,67,16>>, <<63,185,218,46,68,26,65,3>>, <<63,163,176,229,182,117,161,159>>, <<191,152,204,189,224,26,37,212>>,
            <<191,182,56,149,127,157,114,6>>, <<191,195,19,209,37,121,102,115>>, <<191,202,248,39,177,193,61,240>>, <<191,209,96,175,58,183,128,163>>,
            <<191,213,51,208,100,119,147,249>>, <<191,216,241,158,150,61,155,230>>, <<191,220,150,86,130,115,152,9>>, <<191,224,15,39,11,83,5,63>>,
            <<191,225,194,252,21,124,75,75>>, <<191,227,100,244,10,66,253,6>>, <<191,228,243,106,139,137,123,132>>, <<191,230,108,206,217,78,255,156>>,
            <<191,231,207,165,100,188,116,199>>, <<191,233,26,137,77,225,7,26>>, <<191,234,76,45,202,158,125,215>>, <<191,235,99,95,117,92,75,187>>,
            <<191,236,95,5,130,48,231,232>>, <<191,237,62,34,217,74,68,76>>, <<191,237,255,215,21,121,137,250>>, <<191,238,163,95,101,226,0,74>>,
            <<191,239,40,23,81,232,44,96>>, <<191,239,141,121,94,156,24,198>>, <<191,239,211,31,148,248,103,230>>, <<191,239,248,195,232,111,44,221>>,
            <<191,239,254,64,125,93,103,208>>, <<191,239,227,143,207,30,72,220>>, <<191,239,168,204,181,151,241,86>>, <<191,239,78,50,74,60,27,240>>,
            <<191,238,212,27,172,151,212,114>>, <<191,238,59,3,166,174,2,182>>, <<191,237,131,132,49,121,0,255>>, <<191,236,174,85,218,15,89,110>>,
            <<191,235,188,79,8,7,141,81>>, <<191,234,174,99,37,213,102,14>>, <<191,233,133,161,171,249,228,6>>, <<191,232,67,53,15,251,200,142>>,
            <<191,230,232,97,152,59,141,117>>, <<191,229,118,132,21,208,130,98>>, <<191,227,239,16,133,183,42,58>>, <<191,226,83,144,154,177,167,153>>,
            <<191,224,165,162,49,82,115,64>>, <<191,221,205,235,95,127,119,167>>, <<191,218,50,152,165,163,150,123>>, <<191,214,124,236,212,132,75,170>>,
            <<191,210,176,163,11,99,13,246>>, <<191,205,163,26,81,106,34,178>>, <<191,197,199,31,229,79,228,243>>, <<191,187,170,124,178,139,136,255>>,
            <<191,167,85,204,237,164,139,194>>, <<63,145,129,175,65,43,99,162>>, <<63,180,103,87,61,65,90,204>>, <<63,194,44,222,171,236,67,174>>,
            <<63,202,19,202,37,168,162,173>>, <<63,208,240,61,193,242,247,42>>, <<63,212,197,141,79,172,184,109>>, <<63,216,133,248,202,133,212,127>>,
            <<63,220,45,186,67,199,209,247>>, <<63,223,185,36,154,251,156,81>>, <<63,225,146,83,152,56,91,7>>, <<63,227,54,104,189,141,15,29>>,
            <<63,228,199,43,63,18,128,124>>, <<63,230,67,8,13,103,172,224>>, <<63,231,168,129,29,147,137,203>>, <<63,232,246,46,233,65,100,101>>,
            <<63,234,42,193,216,87,124,245>>, <<63,235,69,3,146,124,63,33>>, <<63,236,67,216,55,54,160,67>>, <<63,237,38,63,123,111,183,242>>,
            <<63,237,235,85,171,54,114,182>>, <<63,238,146,84,142,194,19,129>>, <<63,239,26,148,49,205,66,144>>, <<63,239,131,139,140,129,28,44>>,
            <<63,239,204,209,13,70,97,150>>, <<63,239,246,27,2,242,47,87>>, <<63,239,255,63,230,227,112,246>>, <<63,239,232,54,134,198,133,194>>,
            <<63,239,177,22,13,213,24,29>>, <<63,239,90,21,237,136,217,246>>, <<63,238,227,141,165,216,144,99>>, <<63,238,77,244,109,55,141,95>>,
            <<63,237,153,224,184,176,15,128>>, <<63,236,200,7,164,145,35,102>>, <<63,235,217,60,62,72,54,84>>, <<63,234,206,110,176,29,133,119>>,
            <<63,233,168,171,79,168,251,35>>, <<63,232,105,25,143,242,61,79>>, <<63,231,16,250,216,75,150,179>>, <<63,229,161,169,65,18,77,148>>,
            <<63,228,28,150,55,153,199,219>>, <<63,226,131,73,10,159,91,253>>, <<63,224,215,93,96,188,152,255>>, <<63,222,53,3,52,199,153,57>>,
            <<63,218,156,234,66,14,89,59>>, <<63,214,234,13,74,59,244,72>>, <<63,211,32,36,153,152,71,160>>, <<63,206,133,255,84,2,26,152>>,
            <<63,198,173,2,155,173,41,11>>, <<63,189,122,111,29,206,114,162>>, <<63,170,250,102,136,244,24,105>>, <<191,132,108,204,209,202,23,198>>,
            <<191,178,149,213,30,237,131,93>>, <<191,193,69,175,191,178,26,117>>, <<191,201,47,21,222,253,105,209>>, <<191,208,127,147,243,143,76,240>>,
            <<191,212,87,5,37,149,80,117>>, <<191,216,26,1,111,78,235,184>>, <<191,219,196,192,77,113,172,173>>, <<191,223,83,145,157,188,233,104>>,
            <<191,225,97,112,170,67,165,103>>, <<191,227,7,157,139,6,71,37>>, <<191,228,154,166,215,238,78,193>>, <<191,230,24,247,55,118,254,106>>,
            <<191,231,129,14,39,123,239,107>>, <<191,232,209,129,127,240,75,98>>, <<191,234,8,254,223,26,239,81>>, <<191,235,38,76,253,233,99,29>>,
            <<191,236,40,76,235,3,62,100>>, <<191,237,13,251,43,97,34,138>>, <<191,237,214,112,191,69,8,169>>, <<191,238,128,228,10,141,112,45>>,
            <<191,239,12,169,159,121,186,20>>, <<191,239,121,52,235,19,210,37>>, <<191,239,198,24,194,145,179,29>>, <<191,239,243,7,209,32,153,126>>,
            <<191,239,255,212,229,171,119,151>>, <<191,239,236,115,32,78,114,62>>, <<191,239,184,245,255,73,174,234>>, <<191,239,101,145,75,102,112,177>>,
            <<191,238,242,152,227,226,52,79>>, <<191,238,96,128,106,20,58,42>>, <<191,237,175,218,205,34,64,185>>, <<191,236,225,89,182,57,124,187>>,
            <<191,235,245,204,213,224,91,206>>, <<191,234,238,33,19,20,209,38>>, <<191,233,203,95,157,9,62,146>>, <<191,232,142,172,224,111,147,86>>,
            <<191,231,57,71,97,94,247,193>>, <<191,229,204,134,122,251,156,251>>, <<191,228,73,217,6,35,39,201>>, <<191,226,178,195,232,120,179,25>>,
            <<191,225,8,224,141,67,203,164>>, <<191,222,155,182,147,87,16,137>>, <<191,219,6,227,91,216,1,204>>, <<191,215,86,225,138,110,186,210>>,
            <<191,211,143,102,140,10,98,104>>, <<191,207,104,126,210,137,200,88>>, <<191,199,146,153,231,137,81,141>>, <<191,191,73,255,126,224,38,16>>,
            <<191,174,158,166,106,183,187,40>>, <<63,103,87,220,204,119,228,209>>, <<63,176,196,21,48,213,233,91>>, <<63,192,94,71,97,171,137,16>>,
            <<63,200,74,13,214,97,103,17>>, <<63,208,14,179,70,63,150,109>>, <<63,211,232,57,85,205,193,57>>, <<63,215,173,185,235,172,207,186>>,
            <<63,219,91,105,252,147,124,43>>, <<63,222,237,150,112,187,150,159>>, <<63,225,48,83,238,52,194,88>>, <<63,226,216,147,14,79,123,68>>,
            <<63,228,109,221,234,43,117,62>>, <<63,229,238,156,227,100,79,105>>, <<63,231,89,77,5,169,31,125>>, <<63,232,172,129,139,233,94,164>>,
            <<63,233,230,229,79,49,238,230>>, <<63,235,7,60,29,201,93,59>>, <<63,236,12,99,249,50,54,136>>, <<63,236,245,86,57,211,162,122>>,
            <<63,237,193,40,151,34,237,167>>, <<63,238,111,14,19,68,85,79>>, <<63,238,254,87,201,54,25,33>>, <<63,239,110,117,156,182,124,143>>,
            <<63,239,190,246,203,51,196,124>>, <<63,239,239,138,93,52,127,92>>, <<63,239,255,255,119,197,243,19>>, <<63,239,240,69,141,158,219,36>>,
            <<63,239,192,108,111,197,3,211>>, <<63,239,112,164,61,165,7,35>>, <<63,239,1,61,52,172,40,72>>, <<63,238,114,167,95,149,3,91>>,
            <<63,237,197,114,37,184,41,197>>, <<63,236,250,75,186,210,27,51>>, <<63,236,18,0,111,207,134,174>>, <<63,235,13,121,229,80,45,84>>,
            <<63,233,237,190,32,174,244,164>>, <<63,232,179,238,132,123,137,107>>, <<63,231,97,70,173,110,151,205>>, <<63,229,247,27,52,253,80,147>>,
            <<63,228,118,216,90,203,124,45>>, <<63,226,226,0,150,84,151,140>>, <<63,225,58,43,18,60,130,167>>, <<63,223,2,4,37,157,26,103>>,
            <<63,219,112,130,146,141,164,241>>, <<63,215,195,104,43,42,15,254>>, <<63,211,254,103,112,179,27,10>>, <<63,208,37,74,237,218,207,227>>,
            <<63,200,119,226,205,79,114,235>>, <<63,192,140,147,232,1,237,246>>, <<63,177,33,64,59,54,184,60>>, <<63,113,129,227,168,122,215,128>>,
            <<191,173,228,58,255,248,155,2>>, <<191,190,237,81,38,240,133,135>>, <<191,199,100,181,5,141,21,255>>, <<191,207,59,58,98,218,203,172>>,
            <<191,211,121,43,80,211,92,122>>, <<191,215,65,35,167,190,6,54>>, <<191,218,241,184,175,130,202,2>>, <<191,222,135,52,103,35,202,174>>,
            <<191,224,254,254,7,98,132,197>>, <<191,226,169,73,227,219,253,214>>, <<191,228,64,209,10,188,102,24>>, <<191,229,195,249,158,11,108,19>>,
            <<191,231,49,62,60,82,144,238>>, <<191,232,135,47,136,58,198,13>>, <<191,233,196,117,154,5,144,92>>, <<191,234,231,209,89,110,32,127>>,
            <<191,235,240,29,190,150,112,72>>, <<191,236,220,80,248,189,185,117>>, <<191,237,171,125,121,151,203,115>>, <<191,238,92,210,228,56,103,146>>,
            <<191,238,239,158,222,162,87,251>>, <<191,239,99,77,197,39,126,88>>, <<191,239,183,107,62,229,114,93>>, <<191,239,235,162,178,201,91,37>>,
            <<191,239,255,191,156,165,78,32>>, <<191,239,243,173,194,1,170,146>>, <<191,239,199,121,70,117,72,160>>, <<191,239,123,78,159,112,12,227>>,
            <<191,239,15,122,103,132,36,154>>, <<191,238,132,105,17,90,228,120>>, <<191,237,218,166,122,162,194,19>>, <<191,237,18,221,95,100,39,190>>,
            <<191,236,45,214,174,74,129,172>>, <<191,235,44,120,190,142,95,106>>, <<191,234,15,198,104,75,184,72>>, <<191,232,216,222,0,45,129,170>>,
            <<191,231,136,248,55,116,67,235>>, <<191,230,33,102,225,121,99,29>>, <<191,228,163,147,159,235,95,184>>, <<191,227,16,254,119,24,199,61>>,
            <<191,225,107,60,75,183,161,236>>, <<191,223,103,234,151,91,135,97>>, <<191,219,217,198,134,231,78,28>>, <<191,216,47,159,195,125,130,139>>,
            <<191,212,109,37,214,100,149,106>>, <<191,208,150,32,191,202,202,162>>, <<191,201,92,218,82,111,87,138>>, <<191,193,115,241,6,107,138,58>>,
            <<191,178,242,244,72,114,242,193>>, <<191,135,87,189,190,149,97,99>>, <<63,170,63,232,52,55,168,29>>, <<63,189,29,172,174,217,224,224>>,
            <<63,198,127,14,103,69,149,84>>, <<63,206,88,166,90,103,220,228>>, <<63,211,9,220,135,255,177,154>>, <<63,214,212,64,12,167,2,107>>,
            <<63,218,135,173,197,195,171,75>>, <<63,222,32,108,213,119,198,34>>, <<63,224,205,111,153,225,231,36>>, <<63,226,121,194,168,239,150,173>>,
            <<63,228,19,128,207,117,144,141>>, <<63,229,153,13,245,58,183,103>>, <<63,231,8,226,80,177,250,136>>, <<63,232,97,139,241,3,145,162>>,
            <<63,233,161,176,50,29,107,20>>, <<63,234,200,13,25,84,151,230>>, <<63,235,211,122,153,57,19,202>>, <<63,236,194,235,187,86,56,152>>,
            <<63,237,149,111,174,180,108,187>>, <<63,238,74,50,186,11,239,179>>, <<63,238,224,127,16,181,64,140>>, <<63,239,87,189,137,128,230,217>>,
            <<63,239,175,118,54,190,191,55>>, <<63,239,231,80,222,219,229,162>>, <<63,239,255,21,85,29,232,149>>, <<63,239,246,171,178,34,17,87>>,
            <<63,239,206,28,107,231,229,1>>, <<63,239,133,144,77,78,181,188>>, <<63,239,29,80,77,14,213,77>>, <<63,238,149,197,68,87,162,122>>,
            <<63,237,239,119,133,92,77,0>>, <<63,237,43,14,82,57,81,138>>, <<63,236,73,79,52,188,152,251>>, <<63,235,75,29,55,185,104,185>>,
            <<63,234,49,120,2,175,236,251>>, <<63,232,253,122,216,174,28,76>>, <<63,231,176,91,123,108,97,61>>, <<63,230,75,104,243,196,198,251>>,
            <<63,228,208,10,64,189,205,126>>, <<63,227,63,188,238,123,226,168>>, <<63,225,156,19,150,132,153,85>>, <<63,223,205,104,149,171,32,90>>,
            <<63,220,66,173,218,204,136,132>>, <<63,216,155,134,235,127,126,149>>, <<63,212,219,160,76,206,17,149>>, <<63,209,6,191,103,207,90,19>>,
            <<63,202,65,125,125,103,135,73>>, <<63,194,91,20,25,50,157,171>>, <<63,180,196,105,80,54,93,194>>, <<63,146,247,30,3,77,2,188>>,
            <<191,166,155,62,27,41,229,55>>, <<191,187,77,167,97,18,204,71>>, <<191,197,153,28,247,82,197,241>>, <<191,205,117,173,100,182,44,41>>,
            <<191,210,154,78,109,131,178,2>>, <<191,214,103,16,132,141,101,31>>, <<191,218,29,74,160,4,72,231>>, <<191,221,185,65,17,139,122,112>>,
            <<191,224,155,169,74,131,220,62>>, <<191,226,73,253,251,156,120,13>>, <<191,227,229,237,207,11,106,12>>, <<191,229,109,218,119,177,84,253>>,
            <<191,230,224,57,201,1,160,21>>, <<191,232,59,151,67,114,36,108>>, <<191,233,126,149,139,30,23,113>>, <<191,234,167,239,199,35,70,134>>,
            <<191,235,182,122,232,88,77,20>>, <<191,236,169,38,214,19,44,118>>, <<191,237,126,255,127,209,203,76>>, <<191,238,55,45,210,177,14,103>>,
            <<191,238,208,248,145,187,206,146>>, <<191,239,75,197,16,55,244,244>>, <<191,239,167,23,205,54,128,28>>, <<191,239,226,148,239,201,235,231>>,
            <<191,239,254,0,163,102,20,170>>, <<191,239,249,63,84,12,173,145>>, <<191,239,212,85,202,9,196,146>>, <<191,239,143,105,37,36,110,211>>,
            <<191,239,42,190,183,72,119,27>>, <<191,238,166,187,190,206,146,4>>, <<191,238,3,229,0,169,71,90>>, <<191,237,66,222,66,220,225,25>>,
            <<191,236,100,105,167,200,199,123>>, <<191,235,105,102,234,231,220,77>>, <<191,234,82,210,127,204,64,138>>, <<191,233,33,196,148,56,208,59>>,
            <<191,231,215,111,246,87,168,54>>, <<191,230,117,32,224,41,56,148>>, <<191,228,252,59,169,98,6,138>>, <<191,227,110,59,97,7,106,252>>,
            <<191,225,204,176,80,51,138,43>>, <<191,224,25,62,103,128,13,200>>, <<191,220,171,55,49,88,249,218>>, <<191,217,7,28,60,81,246,220>>,
            <<191,213,73,213,100,128,192,38>>, <<191,209,119,37,111,90,126,231>>, <<191,203,37,201,85,206,253,20>>, <<191,195,65,250,31,157,242,196>>,
            <<191,182,149,153,70,120,83,47>>, <<191,154,66,30,19,254,20,62>>, <<63,162,246,72,210,178,183,142>>, <<63,185,125,71,68,220,190,172>>,
            <<63,196,178,227,178,117,94,163>>, <<63,204,146,82,116,165,47,129>>, <<63,210,42,130,116,98,229,195>>, <<63,213,249,150,122,147,98,82>>,
            <<63,217,178,144,160,24,60,13>>, <<63,221,81,178,114,128,10,237>>, <<63,224,105,171,190,211,54,227>>, <<63,226,25,252,122,193,50,148>>,
            <<63,227,184,24,161,16,116,74>>, <<63,229,66,95,181,29,79,196>>, <<63,230,183,69,44,122,142,123>>, <<63,232,21,81,253,194,143,6>>,
            <<63,233,91,38,25,199,181,103>>, <<63,234,135,121,205,168,238,179>>, <<63,235,153,31,12,102,21,43>>, <<63,236,143,2,158,168,197,28>>,
            <<63,237,104,45,55,144,25,188>>, <<63,238,35,196,109,104,238,240>>, <<63,238,193,11,149,88,134,226>>, <<63,239,63,100,129,28,151,145>>,
            <<63,239,158,80,30,34,3,225>>, <<63,239,221,110,245,82,31,10>>, <<63,239,252,129,139,22,15,172>>, <<63,239,251,104,159,47,171,3>>,
            <<63,239,218,37,76,39,160,16>>, <<63,239,152,217,6,49,79,125>>, <<63,239,55,197,121,133,112,123>>, <<63,238,183,76,72,85,86,33>>,
            <<63,238,23,238,168,153,76,230>>, <<63,237,90,76,226,28,190,220>>, <<63,236,127,37,173,74,234,103>>, <<63,235,135,85,115,94,54,3>>,
            <<63,234,115,213,112,179,23,171>>, <<63,233,69,186,186,29,126,203>>, <<63,231,254,53,38,60,220,54>>, <<63,230,158,142,27,231,13,145>>,
            <<63,229,40,39,70,221,131,215>>, <<63,227,156,121,52,25,205,155>>, <<63,225,253,17,215,23,89,82>>, <<63,224,75,146,249,151,53,48>>,
            <<63,221,19,97,46,224,213,22>>, <<63,217,114,94,80,39,10,167>>, <<63,213,183,195,174,244,147,151>>, <<63,209,231,81,96,154,142,178>>,
            <<63,204,9,186,228,95,31,122>>, <<63,196,40,160,25,191,93,83>>, <<63,184,102,126,32,22,2,162>>, <<63,160,198,99,104,4,42,100>>,
            <<191,158,162,40,243,94,100,80>>, <<191,183,172,146,98,167,96,126>>, <<191,195,204,101,150,93,4,162>>, <<191,203,174,152,126,90,72,83>>,
            <<191,209,186,122,16,110,153,162>>, <<191,213,139,211,90,210,235,151>>, <<191,217,71,129,40,243,249,36>>, <<191,220,233,194,80,191,108,215>>,
            <<191,224,55,119,157,18,124,146>>, <<191,225,233,190,198,6,158,72>>, <<191,227,138,1,221,243,78,130>>, <<191,229,22,158,62,25,182,49>>,
            <<191,230,142,5,3,82,220,202>>, <<191,231,238,188,159,60,238,99>>, <<191,233,55,98,83,244,99,111>>, <<191,234,102,171,152,219,42,116>>,
            <<191,235,123,103,103,6,237,100>>, <<191,236,116,127,108,8,53,107>>, <<191,237,80,249,33,213,207,221>>, <<191,238,15,246,202,194,245,110>>,
            <<191,238,176,184,80,130,201,246>>, <<191,239,50,156,5,88,233,47>>, <<191,239,149,31,70,180,183,10>>, <<191,239,215,223,0,147,223,224>>,
            <<191,239,250,152,17,39,245,224>>, <<191,239,253,39,140,90,224,5>>, <<191,239,223,138,222,238,66,254>>, <<191,239,161,223,209,18,135,50>>,
            <<191,239,68,100,104,114,229,199>>, <<191,238,199,118,169,212,154,211>>, <<191,238,43,148,58,135,250,85>>, <<191,237,113,89,226,10,125,32>>,
            <<191,236,153,130,236,88,236,45>>, <<191,235,164,232,109,144,35,80>>, <<191,234,148,128,103,154,3,140>>, <<191,233,105,92,210,194,10,14>>,
            <<191,232,36,170,138,42,115,202>>, <<191,230,199,176,29,55,7,251>>, <<191,229,83,204,135,29,220,25>>, <<191,227,202,117,205,232,99,46>>,
            <<191,226,45,55,138,71,207,178>>, <<191,224,125,177,89,183,18,159>>, <<191,221,123,42,120,245,109,34>>, <<191,217,221,75,194,69,186,108>>,
            <<191,214,37,105,190,140,236,162>>, <<191,210,87,65,198,127,11,88>>, <<191,204,237,79,50,253,181,71>>, <<191,197,15,3,8,125,180,129>>,
            <<191,186,55,17,210,230,106,242>>, <<191,164,107,127,251,156,83,55>>, <<63,151,87,90,95,157,76,25>>, <<63,181,219,142,195,252,59,137>>,
            <<63,194,229,165,161,158,57,98>>, <<63,202,202,130,119,54,217,69>>, <<63,209,74,54,182,65,14,90>>, <<63,213,29,200,146,89,15,96>>,
            <<63,216,220,29,158,168,54,240>>, <<63,220,129,114,5,247,227,78>>, <<63,224,5,13,140,57,190,54>>, <<63,225,185,69,125,221,209,118>>,
            <<63,227,91,170,30,252,180,66>>, <<63,228,234,150,164,44,194,61>>, <<63,230,100,121,214,187,225,142>>, <<63,231,199,215,168,51,191,49>>,
            <<63,233,19,74,176,150,184,251>>, <<63,234,69,133,149,213,6,167>>, <<63,235,93,84,91,16,155,163>>, <<63,236,89,157,150,94,152,65>>,
            <<63,237,57,99,139,206,171,58>>, <<63,237,251,197,44,155,229,110>>, <<63,238,159,254,249,134,39,17>>, <<63,239,37,107,199,112,167,118>>,
            <<63,239,139,133,101,127,195,86>>, <<63,239,209,229,36,15,6,15>>, <<63,239,248,68,59,247,177,255>>, <<63,239,254,124,21,191,229,77>>,
            <<63,239,228,134,112,106,202,136>>, <<63,239,170,125,103,194,197,152>>, <<63,239,80,155,90,23,75,8>>, <<63,238,215,58,173,136,206,4>>,
            <<63,238,62,213,117,29,202,59>>, <<63,237,136,4,245,252,93,145>>, <<63,236,179,129,13,67,235,66>>, <<63,235,194,31,119,33,209,133>>,
            <<63,234,180,210,247,219,45,203>>, <<63,233,140,170,103,163,219,50>>, <<63,232,74,207,162,56,74,228>>, <<63,230,240,134,91,76,23,239>>,
            <<63,229,127,42,216,250,175,136>>, <<63,227,248,48,149,129,117,114>>, <<63,226,93,32,201,163,174,13>>, <<63,224,175,152,225,47,239,30>>,
            <<63,221,226,145,182,105,177,118>>, <<63,218,71,227,47,14,112,137>>, <<63,214,146,198,38,157,105,77>>, <<63,210,198,245,44,189,139,30>>,
            <<63,205,208,131,76,198,143,251>>, <<63,197,245,31,237,158,194,42>>, <<63,188,7,78,85,206,80,172>>, <<63,168,16,88,165,103,130,160>>,
            <<191,144,12,62,42,210,160,42>>, <<191,180,10,66,115,106,182,166>>, <<191,193,254,166,211,168,156,102>>, <<191,201,230,19,85,206,119,18>>,
            <<191,208,217,185,219,56,145,254>>, <<191,212,175,119,143,33,40,29>>, <<191,216,112,103,102,93,63,155>>, <<191,220,24,194,237,23,118,228>>,
            <<191,223,164,220,103,232,221,42>>, <<191,225,136,145,67,126,4,129>>, <<191,227,45,17,254,77,129,46>>, <<191,228,190,73,121,197,240,255>>,
            <<191,230,58,164,48,224,115,2>>, <<191,231,160,163,154,2,58,252>>, <<191,232,238,223,167,184,53,235>>, <<191,234,36,8,50,213,148,195>>,
            <<191,235,62,230,76,136,225,165>>, <<191,236,62,93,119,19,195,241>>, <<191,237,33,108,195,234,176,7>>, <<191,237,231,47,214,29,10,237>>,
            <<191,238,142,223,200,1,165,124>>, <<191,239,23,211,243,64,163,251>>, <<191,239,129,130,154,113,169,139>>, <<191,239,203,129,115,163,162,191>>,
            <<191,239,245,134,19,66,232,68>>, <<191,239,255,102,54,242,41,58>>, <<191,239,233,23,240,10,226,222>>, <<191,239,178,177,173,154,158,89>>,
            <<191,239,92,106,37,210,236,144>>, <<191,238,230,152,31,2,209,194>>, <<191,238,81,178,24,80,241,7>>, <<191,237,158,77,210,142,75,115>>,
            <<191,236,205,31,185,153,97,77>>, <<191,235,222,250,46,233,56,217>>, <<191,234,212,204,181,246,192,188>>, <<191,233,175,163,3,89,112,103>>,
            <<191,232,112,163,239,137,74,228>>, <<191,231,25,16,78,85,40,79>>, <<191,229,170,65,172,55,129,167>>, <<191,228,37,168,242,206,48,217>>,
            <<191,226,140,204,245,210,200,31>>, <<191,224,225,72,234,8,129,188>>, <<191,222,73,149,143,86,166,138>>, <<191,218,178,35,51,255,192,242>>,
            <<191,214,255,215,123,110,158,2>>, <<191,211,54,106,31,214,116,8>>, <<191,206,179,84,62,21,120,145>>, <<191,198,218,243,203,209,86,193>>,
            <<191,189,215,45,160,212,128,157>>, <<191,171,180,225,70,231,116,254>>, <<63,129,129,217,45,99,17,39>>, <<63,178,56,179,124,116,14,23>>,
            <<63,193,23,108,44,188,179,152>>, <<63,201,1,78,17,221,21,124>>, <<63,208,105,4,245,114,189,78>>, <<63,212,64,225,192,16,49,179>>,
            <<63,216,4,95,230,78,102,168>>, <<63,219,175,182,98,71,133,153>>, <<63,223,63,52,121,62,91,106>>, <<63,225,87,162,184,226,125,10>>,
            <<63,226,254,58,22,220,178,3>>, <<63,228,145,183,82,60,21,127>>, <<63,230,16,132,156,227,23,90>>, <<63,231,121,32,247,10,166,16>>,
            <<63,232,202,33,178,119,186,193>>, <<63,234,2,51,223,62,125,53>>, <<63,235,32,29,160,164,49,100>>, <<63,236,34,191,104,201,40,70>>,
            <<63,237,9,21,25,221,32,31>>, <<63,237,210,55,11,187,89,4>>, <<63,238,125,90,244,231,12,174>>, <<63,239,9,212,181,254,53,24>>,
            <<63,239,119,23,6,213,213,203>>, <<63,239,196,180,4,145,189,220>>, <<63,239,242,93,160,40,220,91>>, <<63,239,255,229,236,230,254,168>>,
            <<63,239,237,63,78,156,252,79>>, <<63,239,186,124,135,80,232,44>>, <<63,239,103,208,164,96,121,214>>, <<63,238,245,142,203,40,170,161>>,
            <<63,238,100,41,229,102,45,98>>, <<63,237,180,52,45,162,217,138>>, <<63,236,230,94,156,36,61,79>>, <<63,235,251,120,52,239,84,169>>,
            <<63,234,244,109,55,148,80,55>>, <<63,233,210,70,49,147,232,25>>, <<63,232,150,38,244,77,15,66>>, <<63,231,65,77,111,126,223,163>>,
            <<63,229,213,16,113,133,159,0>>, <<63,228,82,222,78,148,172,123>>, <<63,226,188,59,112,72,12,182>>, <<63,225,18,192,207,0,11,151>>,
            <<63,222,176,52,173,31,235,182>>, <<63,219,28,10,111,186,216,118>>, <<63,215,108,156,82,66,203,124>>, <<63,211,165,159,45,25,241,207>>,
            <<63,207,149,191,20,144,31,168>>, <<63,199,192,123,166,183,3,115>>, <<63,191,166,169,173,53,191,9>>, <<63,175,89,13,194,168,115,63>>,
            <<191,87,87,222,89,246,246,165>>, <<191,176,102,231,235,118,248,245>>, <<191,192,47,248,173,226,31,179>>, <<191,200,28,53,164,61,9,46>>,
            <<191,207,240,50,247,143,23,228>>, <<191,211,210,8,148,239,227,57>>, <<191,215,152,8,133,197,64,76>>, <<191,219,70,77,194,232,64,178>>,
            <<191,222,217,36,158,139,74,52>>, <<191,225,38,122,128,200,106,208>>, <<191,226,207,35,4,117,90,191>>, <<191,228,100,224,193,203,127,123>>,
            <<191,229,230,27,166,220,49,163>>, <<191,231,81,80,66,180,152,88>>, <<191,232,165,17,75,7,242,32>>, <<191,233,224,9,11,146,149,34>>,
            <<191,235,0,250,189,196,88,74>>, <<191,236,6,195,199,88,152,171>>, <<191,236,240,92,222,155,123,19>>, <<191,237,188,219,19,54,131,67>>,
            <<191,238,107,112,186,122,35,227>>, <<191,238,251,110,62,54,158,69>>, <<191,239,108,66,205,84,52,188>>, <<191,239,189,124,237,121,15,130>>,
            <<191,239,238,202,237,42,83,173>>, <<191,239,255,251,53,245,166,219>>, <<191,239,240,252,126,80,128,42>>, <<191,239,193,221,218,251,24,164>>,
            <<191,239,114,206,175,213,131,68>>, <<191,239,4,30,128,54,41,50>>, <<191,238,118,60,158,241,158,161>>, <<191,237,201,183,190,100,55,207>>,
            <<191,236,255,61,96,238,1,199>>, <<191,236,23,153,42,113,112,117>>, <<191,235,19,180,19,132,58,27>>, <<191,233,244,147,127,32,118,168>>,
            <<191,232,187,88,51,193,139,216>>, <<191,231,105,61,56,245,103,100>>, <<191,229,255,150,154,133,246,195>>, <<191,228,127,208,18,121,206,91>>,
            <<191,226,235,107,155,67,155,154>>, <<191,225,67,255,235,144,140,198>>, <<191,223,22,109,186,120,25,128>>, <<191,219,133,151,130,8,67,87>>,
            <<191,215,217,19,65,90,164,23>>, <<191,212,20,146,226,172,152,238>>, <<191,208,59,224,111,151,202,122>>, <<191,200,165,180,130,238,79,48>>,
            <<191,192,186,222,58,188,145,0>>, <<191,177,126,104,254,52,95,12>>, <<191,119,87,214,150,122,183,223>>, <<63,173,41,203,155,55,214,147>>,
            <<63,190,144,158,177,187,77,40>>, <<63,199,54,205,6,221,84,79>>, <<63,207,13,241,203,136,220,154>>, <<63,211,98,237,126,105,254,102>>,
            <<63,215,43,98,173,21,34,243>>, <<63,218,220,138,109,140,5,225>>, <<63,222,114,174,43,64,139,175>>, <<63,224,245,25,62,172,220,243>>,
            <<63,226,159,205,99,180,171,200>>, <<63,228,55,198,93,147,248,255>>, <<63,229,187,105,219,216,56,128>>, <<63,231,41,50,1,107,87,81>>,
            <<63,232,127,174,236,173,181,62>>, <<63,233,189,136,41,116,87,236>>, <<63,234,225,126,11,119,50,18>>, <<63,235,234,106,239,211,38,25>>,
            <<63,236,215,68,100,92,101,60>>, <<63,237,167,28,51,152,29,189>>, <<63,238,89,33,84,79,247,8>>, <<63,238,236,160,187,206,115,54>>,
            <<63,239,97,6,17,240,187,67>>, <<63,239,181,220,70,88,182,147>>, <<63,239,234,206,6,41,113,113>>, <<63,239,255,166,17,215,87,39>>,
            <<63,239,244,79,114,181,252,94>>, <<63,239,200,213,144,13,152,140>>, <<63,239,125,100,35,162,254,36>>, <<63,239,18,71,13,189,145,129>>,
            <<63,238,135,234,8,215,137,126>>, <<63,237,222,216,61,69,36,244>>, <<63,237,23,187,181,63,223,63>>, <<63,236,51,92,177,226,87,70>>,
            <<63,235,50,160,225,192,252,177>>, <<63,234,22,138,121,233,246,37>>, <<63,232,224,55,50,52,170,112>>, <<63,231,144,223,37,230,25,250>>,
            <<63,230,41,211,153,202,248,178>>, <<63,228,172,125,169,3,86,174>>, <<63,227,26,92,217,212,206,240>>, <<63,225,117,5,155,240,211,58>>,
            <<63,223,124,63,99,101,62,214>>, <<63,219,238,201,11,220,106,196>>, <<63,216,69,58,223,249,228,223>>, <<63,212,131,67,207,140,102,75>>,
            <<63,208,172,171,87,37,62,44>>, <<63,201,138,155,102,28,67,46>>, <<63,193,162,47,250,193,180,184>>, <<63,179,80,16,236,160,250,58>>,
            <<63,138,66,171,144,103,93,239>>, <<191,169,133,102,97,129,139,250>>, <<191,188,192,230,96,77,215,99>>, <<191,198,81,23,52,183,161,22>>,
            <<191,206,43,73,87,79,38,36>>, <<191,210,243,145,238,3,141,40>>, <<191,214,190,111,197,150,65,44>>, <<191,218,114,109,193,242,230,227>>,
            <<191,222,11,210,116,36,82,68>>, <<191,224,195,127,150,202,138,157>>, <<191,226,112,57,210,7,218,123>>, <<191,228,10,104,187,150,231,70>>,
            <<191,229,144,111,201,213,220,195>>, <<191,231,0,198,184,156,10,137>>, <<191,232,89,251,19,190,127,254>>, <<191,233,154,177,171,164,127,251>>,
            <<191,234,193,167,242,117,70,199>>, <<191,235,205,181,64,127,219,40>>, <<191,236,189,203,254,150,160,101>>, <<191,237,144,250,181,50,167,69>>,
            <<191,238,70,108,255,78,7,247>>, <<191,238,221,108,96,0,254,28>>, <<191,239,85,96,250,10,242,184>>, <<191,239,173,210,40,142,229,90>>,
            <<191,239,230,102,248,105,143,186>>, <<191,239,254,230,129,167,57,225>>, <<191,239,247,56,32,191,78,191>>, <<191,239,207,99,143,92,23,197>>,
            <<191,239,135,144,220,149,184,54>>, <<191,239,32,8,68,168,56,177>>, <<191,238,153,49,232,77,40,177>>, <<191,237,243,149,100,1,223,62>>,
            <<191,237,47,217,71,163,190,33>>, <<191,236,78,194,110,235,147,130>>, <<191,235,81,51,59,112,159,148>>, <<191,234,56,42,176,250,83,152>>,
            <<191,233,4,195,117,5,221,98>>, <<191,231,184,50,178,129,79,164>>, <<191,230,83,198,226,218,105,238>>, <<191,228,216,230,125,153,184,96>>,
            <<191,227,73,14,143,220,74,4>>, <<191,225,165,209,61,22,179,21>>, <<191,223,225,168,85,69,68,194>>, <<191,220,87,157,175,92,14,213>>,
            <<191,216,177,17,198,108,38,183>>, <<191,212,241,176,131,149,115,130>>, <<191,209,29,62,201,207,58,94>>, <<191,202,111,45,86,246,200,54>>,
            <<191,194,137,71,21,85,239,190>>, <<191,181,33,120,159,231,235,98>>, <<191,148,108,138,63,137,127,241>>, <<63,165,224,172,70,200,232,146>>,
            <<63,186,240,206,109,189,137,228>>, <<63,197,107,23,41,198,103,250>>, <<63,205,72,60,140,181,155,91>>, <<63,210,131,247,86,23,246,43>>,
            <<63,214,81,49,57,161,51,117>>, <<63,218,7,249,33,6,31,0>>, <<63,221,164,146,207,77,126,141>>, <<63,224,145,174,46,23,197,27>>,
            <<63,226,64,104,237,170,41,28>>, <<63,227,220,200,114,181,80,43>>, <<63,229,101,45,255,196,43,60>>, <<63,230,216,14,238,180,16,80>>,
            <<63,232,51,246,61,158,194,195>>, <<63,233,119,134,6,0,119,106>>, <<63,234,161,120,220,160,123,119>>, <<63,235,176,163,24,218,146,11>>,
            <<63,236,163,244,1,255,237,158>>, <<63,237,122,118,225,160,157,50>>, <<63,238,51,83,249,169,139,105>>, <<63,238,205,209,93,95,149,86>>,
            <<63,239,73,83,172,93,122,197>>, <<63,239,165,94,174,216,145,97>>, <<63,239,225,149,210,143,19,200>>, <<63,239,253,188,135,226,106,125>>,
            <<63,239,249,182,126,191,200,198>>, <<63,239,213,135,195,25,215,143>>, <<63,239,145,84,184,214,209,222>>, <<63,239,45,97,247,55,37,238>>,
            <<63,238,170,20,3,217,105,180>>, <<63,238,7,238,237,161,9,44>>, <<63,237,71,149,199,229,89,98>>, <<63,236,105,202,6,110,155,85>>,
            <<63,235,111,106,186,229,248,208>>, <<63,234,89,115,180,124,16,13>>, <<63,233,40,252,130,167,201,12>>, <<63,231,223,55,91,252,4,128>>,
            <<63,230,125,111,234,47,46,45>>, <<63,229,5,9,252,138,30,60>>, <<63,227,119,128,34,13,254,217>>, <<63,225,214,98,44,185,18,99>>,
            <<63,224,35,83,159,105,51,2>>, <<63,220,192,20,15,225,0,244>>, <<63,217,28,150,142,9,94,68>>, <<63,213,95,215,143,134,168,170>>,
            <<63,209,141,153,81,45,18,84>>, <<63,203,83,103,93,78,13,10>>, <<63,195,112,32,137,231,203,183>>, <<63,182,242,154,12,45,49,142>>,
            <<63,155,183,122,201,157,9,140>>, <<191,162,59,169,105,38,237,166>>, <<191,185,32,92,225,137,221,27>>, <<191,196,132,207,226,250,219,105>>,
            <<191,204,100,206,94,221,190,146>>, <<191,210,20,31,41,212,90,239>>, <<191,213,227,168,116,138,11,35>>, <<191,217,157,45,236,211,96,44>>,
            <<191,221,60,240,148,31,101,253>>, <<191,224,95,165,170,68,69,165>>, <<191,226,16,91,85,162,192,27>>, <<191,227,174,230,26,173,231,120>>,
            <<191,229,57,165,13,128,193,156>>, <<191,230,175,11,43,31,48,197>>, <<191,232,13,160,232,192,73,9>>, <<191,233,84,5,173,128,228,235>>,
            <<191,234,128,241,53,2,163,232>>, <<191,235,147,52,217,146,168,70>>, <<191,236,137,188,196,139,254,6>>, <<191,237,99,145,3,195,139,79>>,
            <<191,238,31,214,130,230,147,166>>, <<191,238,189,207,231,208,246,51>>, <<191,239,60,222,80,253,137,105>>, <<191,239,156,129,245,81,22,181>>,
            <<191,239,220,90,164,159,60,16>>, <<191,239,252,40,40,103,237,178>>, <<191,239,251,202,132,108,79,184>>, <<191,239,219,66,22,217,246,92>>,
            <<191,239,154,175,151,236,44,27>>, <<191,239,58,83,249,3,164,249>>, <<191,238,186,144,35,85,174,105>>, <<191,238,27,228,150,116,149,60>>,
            <<191,237,94,240,231,19,64,19>>, <<191,236,132,115,30,134,2,170>>, <<191,235,141,70,251,162,14,195>>, <<191,234,122,101,21,187,178,27>>,
            <<191,233,76,225,226,161,196,8>>, <<191,232,5,236,160,145,153,4>>, <<191,230,166,206,37,59,43,213>>, <<191,229,48,231,147,8,67,215>>,
            <<191,227,165,176,245,243,39,145>>, <<191,226,6,183,201,82,13,62>>, <<191,224,85,157,104,19,181,81>>, <<191,221,40,42,209,254,131,204>>,
            <<191,217,135,199,209,58,188,37>>, <<191,213,205,183,133,6,178,235>>, <<191,209,253,185,119,147,76,19>>, <<191,204,55,70,130,22,212,95>>,
            <<191,196,86,185,88,179,2,54>>, <<191,184,195,111,38,126,7,86>>, <<191,161,129,7,146,165,239,37>>, <<63,157,44,211,207,75,117,128>>,
            <<63,183,79,151,196,92,119,245>>, <<63,195,158,68,94,51,78,120>>, <<63,203,129,1,194,44,216,39>>, <<63,209,164,10,221,50,139,237>>,
            <<63,213,117,214,226,155,198,231>>, <<63,217,50,13,136,136,101,88>>, <<63,220,212,237,27,69,39,205>>, <<63,224,45,102,177,183,9,173>>,
            <<63,225,224,17,169,194,183,103>>, <<63,227,128,194,76,27,17,132>>, <<63,229,13,213,131,213,219,63>>, <<63,230,133,187,246,69,236,70>>,
            <<63,231,230,251,148,160,156,203>>, <<63,233,48,49,24,56,26,181>>, <<63,234,96,17,103,204,37,12>>, <<63,235,117,106,228,137,201,6>>,
            <<63,236,111,38,157,107,73,121>>, <<63,237,76,73,103,195,8,193>>, <<63,238,11,244,219,215,69,51>>, <<63,238,173,104,52,144,155,186>>,
            <<63,239,48,1,17,90,99,121>>, <<63,239,147,60,25,113,220,75>>, <<63,239,214,181,127,255,236,252>>, <<63,239,250,41,104,120,164,28>>,
            <<63,239,253,116,42,219,120,210>>, <<63,239,224,146,119,143,176,99>>, <<63,239,163,161,90,184,211,251>>, <<63,239,70,222,30,255,224,171>>,
            <<63,238,202,166,15,238,137,123>>, <<63,238,47,118,28,26,158,176>>, <<63,237,117,234,87,127,224,24>>, <<63,236,158,189,94,134,169,180>>,
            <<63,235,170,199,154,85,89,229>>, <<63,234,154,254,103,41,46,53>>, <<63,233,112,115,29,145,122,128>>, <<63,232,44,81,255,133,113,152>>,
            <<63,230,207,225,10,105,1,239>>, <<63,229,92,126,175,48,108,235>>, <<63,227,211,160,113,236,94,98>>, <<63,226,54,209,114,33,11,173>>,
            <<63,224,135,176,221,98,25,10>>, <<63,221,143,224,155,133,224,193>>, <<63,217,242,164,43,127,23,76>>, <<63,214,59,78,246,168,153,143>>,
            <<63,210,109,157,200,24,180,228>>, <<63,205,26,199,207,116,26,109>>, <<63,197,61,14,130,202,23,71>>, <<63,186,147,241,228,229,218,253>>,
            <<63,165,38,23,137,83,178,113>>, <<191,149,225,243,196,51,58,69>>, <<191,181,126,133,31,244,238,239>>, <<191,194,183,119,154,48,211,66>>,
            <<191,202,156,217,172,66,89,101>>, <<191,209,51,187,228,244,112,201>>, <<191,213,7,189,241,19,121,59>>, <<191,216,198,153,88,110,30,64>>,
            <<191,220,108,137,190,173,93,52>>, <<191,223,245,227,215,24,107,10>>, <<191,225,175,140,138,162,234,57>>, <<191,227,82,93,160,112,233,43>>,
            <<191,228,225,191,244,120,127,245>>, <<191,230,92,33,217,139,163,125>>, <<191,231,192,6,193,199,77,113>>, <<191,233,12,8,189,80,156,129>>,
            <<191,234,62,217,226,82,148,12>>, <<191,235,87,69,156,210,157,126>>, <<191,236,84,49,229,9,241,197>>, <<191,237,52,160,91,11,196,27>>,
            <<191,237,247,175,70,154,246,152>>, <<191,238,156,154,122,46,6,121>>, <<191,239,34,188,24,60,215,161>>, <<191,239,137,141,58,17,242,91>>,
            <<191,239,208,166,119,119,116,89>>, <<191,239,247,192,78,183,56,246>>, <<191,239,254,179,108,133,159,130>>, <<191,239,229,120,211,142,161,245>>,
            <<191,239,172,41,227,125,108,155>>, <<191,239,83,0,63,119,107,9>>, <<191,238,218,85,148,36,112,203>>, <<191,238,66,163,61,126,79,239>>,
            <<191,237,140,129,204,194,134,229>>, <<191,236,184,168,111,0,217,230>>, <<191,235,199,236,52,225,25,69>>, <<191,234,187,63,60,89,98,212>>,
            <<191,233,147,175,189,44,108,108>>, <<191,232,82,102,249,36,180,0>>, <<191,230,248,168,17,29,231,11>>, <<191,229,135,206,192,9,56,142>>,
            <<191,228,1,77,253,51,131,45>>, <<191,226,102,174,135,44,224,129>>, <<191,224,185,141,88,200,249,186>>, <<191,221,247,52,19,138,224,38>>,
            <<191,218,93,42,57,111,194,35>>, <<191,214,168,156,119,240,163,8>>, <<191,210,221,68,206,154,252,22>>, <<191,205,253,232,80,192,221,244>>,
            <<191,198,35,29,10,32,198,167>>, <<191,188,100,28,62,129,244,97>>, <<191,168,202,225,41,161,63,160>>, <<63,141,45,149,227,224,244,95>>,
            <<63,179,173,42,255,20,111,83>>, <<63,193,208,108,150,141,163,149>>, <<63,201,184,89,19,237,237,116>>, <<63,208,195,51,182,158,247,0>>,
            <<63,212,153,95,14,27,145,27>>, <<63,216,90,210,193,228,73,53>>, <<63,220,3,199,217,133,126,116>>, <<63,223,144,143,255,37,160,244>>,
            <<63,225,126,204,153,161,244,196>>, <<63,227,35,184,177,251,76,159>>, <<63,228,181,100,242,6,151,248>>, <<63,230,50,61,95,76,214,207>>,
            <<63,231,152,194,241,196,84,37>>, <<63,232,231,141,21,11,131,63>>, <<63,234,29,75,19,15,59,249>>, <<63,235,56,197,102,175,143,184>>,
            <<63,236,56,222,245,14,162,61>>, <<63,237,28,150,44,78,121,227>>, <<63,237,227,6,6,157,88,85>>, <<63,238,139,102,240,140,13,187>>,
            <<63,239,21,15,145,198,169,235>>, <<63,239,127,117,119,101,170,234>>, <<63,239,202,45,159,44,77,251>>, <<63,239,244,236,227,40,12,82>>,
            <<63,239,255,136,69,68,248,151>>, <<63,239,233,245,26,139,0,3>>, <<63,239,180,73,21,216,142,116>>, <<63,239,94,186,50,15,206,119>>,
            <<63,238,233,158,123,204,116,74>>, <<63,238,85,107,186,216,179,122>>, <<63,237,162,182,251,184,97,243>>, <<63,236,210,51,249,193,117,87>>,
            <<63,235,228,180,106,88,140,209>>, <<63,234,219,39,42,7,111,35>>, <<63,233,182,151,76,65,131,37>>, <<63,232,120,43,14,199,232,7>>,
            <<63,231,33,34,177,187,94,156>>, <<63,229,178,215,53,133,150,203>>, <<63,228,46,184,255,221,207,60>>, <<63,226,150,78,105,69,203,78>>,
            <<63,224,235,50,52,115,198,255>>, <<63,222,94,35,226,104,86,18>>, <<63,218,199,88,152,197,14,201>>, <<63,215,21,158,157,88,228,24>>,
            <<63,211,76,173,23,195,190,95>>, <<63,206,224,165,18,154,51,11>>, <<63,199,8,225,241,149,121,51>>, <<63,190,51,232,43,149,103,73>>,
            <<63,172,111,88,85,66,245,170>>, <<191,125,45,198,105,127,72,43>>, <<191,177,219,143,109,106,86,104>>, <<191,192,233,38,83,178,224,217>>,
            <<191,200,211,130,241,37,126,73>>, <<191,208,82,115,200,117,101,199>>, <<191,212,42,187,168,199,50,187>>, <<191,215,238,187,43,92,151,90>>,
            <<191,219,154,168,200,53,103,56>>, <<191,223,42,211,44,149,100,185>>, <<191,225,77,210,120,226,14,71>>, <<191,226,244,212,27,219,197,241>>,
            <<191,228,136,197,16,5,7,82>>, <<191,230,8,15,18,221,98,228>>, <<191,231,113,48,167,46,87,155>>, <<191,232,194,190,152,190,244,110>>,
            <<191,233,251,101,105,157,187,255>>, <<191,235,25,234,167,145,109,159>>, <<191,236,29,46,40,89,89,137>>, <<191,237,4,43,43,126,248,166>>,
            <<191,237,205,249,96,149,153,13>>, <<191,238,121,205,208,224,31,230>>, <<191,239,6,251,171,114,5,225>>, <<191,239,116,244,242,254,47,84>>,
            <<191,239,195,75,12,164,221,169>>, <<191,239,241,175,47,49,23,176>>, <<191,239,255,242,178,85,159,100>>, <<191,239,238,7,61,153,207,187>>,
            <<191,239,187,254,214,199,42,30>>, <<191,239,106,11,207,201,14,220>>, <<191,238,248,128,148,16,229,24>>, <<191,238,103,207,85,177,139,106>>,
            <<191,237,184,137,154,133,119,196>>, <<191,236,235,95,169,211,11,151>>, <<191,236,1,31,219,2,68,181>>, <<191,234,250,181,198,22,40,103>>,
            <<191,233,217,41,86,186,136,195>>, <<191,232,157,157,194,212,149,10>>, <<191,231,73,80,101,161,10,3>>, <<191,229,221,151,128,134,158,173>>,
            <<191,228,91,224,226,221,187,176>>, <<191,226,197,176,122,7,159,48>>, <<191,225,28,158,203,70,241,44>>, <<191,222,196,174,177,196,114,111>>,
            <<191,219,49,45,232,90,229,196>>, <<191,215,130,83,252,86,49,7>>, <<191,211,187,213,49,13,61,250>>, <<191,207,194,251,34,232,182,11>>,
            <<191,199,238,90,60,251,164,10>>, <<191,192,1,167,210,206,208,106>>, <<191,176,9,184,119,127,55,228>>, <<61,46,230,84,77,169,128,140>>,
            <<63,176,9,184,119,127,54,203>>, <<63,192,1,167,210,206,207,223>>, <<63,199,238,90,60,251,171,92>>, <<63,207,194,251,34,232,189,66>>,
            <<63,211,187,213,49,13,61,183>>, <<63,215,130,83,252,86,48,198>>, <<63,219,49,45,232,90,233,36>>, <<63,222,196,174,177,196,114,49>>,
            <<63,225,28,158,203,70,241,14>>, <<63,226,197,176,122,7,160,178>>, <<63,228,91,224,226,221,187,149>>, <<63,229,221,151,128,134,158,148>>,
            <<63,231,73,80,101,161,9,235>>, <<63,232,157,157,194,212,150,59>>, <<63,233,217,41,86,186,136,174>>, <<63,234,250,181,198,22,40,84>>,
            <<63,236,1,31,219,2,70,147>>, <<63,236,235,95,169,211,10,173>>, <<63,237,184,137,154,133,119,183>>, <<63,238,103,207,85,177,139,95>>,
            <<63,238,248,128,148,16,229,144>>, <<63,239,106,11,207,201,14,213>>, <<63,239,187,254,214,199,42,25>>, <<63,239,238,7,61,153,207,252>>,
            <<63,239,255,242,178,85,159,100>>, <<63,239,241,175,47,49,23,178>>, <<63,239,195,75,12,164,221,173>>, <<63,239,116,244,242,254,46,158>>,
            <<63,239,6,251,171,114,6,103>>, <<63,238,121,205,208,224,31,241>>, <<63,237,205,249,96,149,152,95>>, <<63,237,4,43,43,126,248,181>>,
            <<63,236,29,46,40,89,89,154>>, <<63,235,25,234,167,145,109,178>>, <<63,233,251,101,105,157,185,189>>, <<63,232,194,190,152,190,244,133>>,
            <<63,231,113,48,167,46,87,179>>, <<63,230,8,15,18,221,97,138>>, <<63,228,136,197,16,5,7,109>>, <<63,226,244,212,27,219,199,170>>,
            <<63,225,77,210,120,226,11,7>>, <<63,223,42,211,44,149,97,120>>, <<63,219,154,168,200,53,103,120>>, <<63,215,238,187,43,92,151,156>>,
            <<63,212,42,187,168,199,43,102>>, <<63,208,82,115,200,117,102,11>>, <<63,200,211,130,241,37,126,211>>, <<63,192,233,38,83,178,217,118>>,
            <<63,177,219,143,109,106,71,138>>, <<63,125,45,198,105,127,89,198>>, <<191,172,111,88,85,66,211,132>>, <<191,190,51,232,43,149,133,248>>,
            <<191,199,8,225,241,149,120,169>>, <<191,206,224,165,18,154,50,130>>, <<191,211,76,173,23,195,193,236>>, <<191,215,21,158,157,88,227,215>>,
            <<191,218,199,88,152,197,14,137>>, <<191,222,94,35,226,104,85,212>>, <<191,224,235,50,52,115,200,148>>, <<191,226,150,78,105,69,203,50>>,
            <<191,228,46,184,255,221,207,33>>, <<191,229,178,215,53,133,152,42>>, <<191,231,33,34,177,187,94,131>>, <<191,232,120,43,14,199,231,240>>,
            <<191,233,182,151,76,65,131,16>>, <<191,234,219,39,42,7,112,38>>, <<191,235,228,180,106,88,140,192>>, <<191,236,210,51,249,193,117,72>>,
            <<191,237,162,182,251,184,99,104>>, <<191,238,85,107,186,216,179,110>>, <<191,238,233,158,123,204,116,65>>, <<191,239,94,186,50,15,206,112>>,
            <<191,239,180,73,21,216,142,181>>, <<191,239,233,245,26,139,0,0>>, <<191,239,255,136,69,68,248,151>>, <<191,239,244,236,227,40,12,30>>,
            <<191,239,202,45,159,44,77,255>>, <<191,239,127,117,119,101,170,240>>, <<191,239,21,15,145,198,169,243>>, <<191,238,139,102,240,140,12,148>>,
            <<191,237,227,6,6,157,88,98>>, <<191,237,28,150,44,78,121,242>>, <<191,236,56,222,245,14,161,92>>, <<191,235,56,197,102,175,143,203>>,
            <<191,234,29,75,19,15,60,14>>, <<191,232,231,141,21,11,128,210>>, <<191,231,152,194,241,196,81,138>>, <<191,230,50,61,95,76,214,233>>,
            <<191,228,181,100,242,6,152,19>>, <<191,227,35,184,177,251,75,33>>, <<191,225,126,204,153,161,244,226>>, <<191,223,144,143,255,37,161,49>>,
            <<191,220,3,199,217,133,119,130>>, <<191,216,90,210,193,228,73,118>>, <<191,212,153,95,14,27,145,93>>, <<191,208,195,51,182,158,247,68>>,
            <<191,201,184,89,19,237,222,81>>, <<191,193,208,108,150,141,164,32>>, <<191,179,173,42,255,20,112,108>>, <<191,141,45,149,227,224,125,48>>,
            <<63,168,202,225,41,161,61,109>>, <<63,188,100,28,62,129,243,73>>, <<63,198,35,29,10,32,198,28>>, <<63,205,253,232,80,192,236,250>>,
            <<63,210,221,68,206,154,251,211>>, <<63,214,168,156,119,240,162,198>>, <<63,218,93,42,57,111,197,136>>, <<63,221,247,52,19,138,223,231>>,
            <<63,224,185,141,88,200,249,156>>, <<63,226,102,174,135,44,224,100>>, <<63,228,1,77,253,51,132,161>>, <<63,229,135,206,192,9,56,116>>,
            <<63,230,248,168,17,29,230,242>>, <<63,232,82,102,249,36,182,131>>, <<63,233,147,175,189,44,108,86>>, <<63,234,187,63,60,89,98,192>>,
            <<63,235,199,236,52,225,25,51>>, <<63,236,184,168,111,0,218,184>>, <<63,237,140,129,204,194,134,216>>, <<63,238,66,163,61,126,79,228>>,
            <<63,238,218,85,148,36,113,209>>, <<63,239,83,0,63,119,107,2>>, <<63,239,172,41,227,125,108,150>>, <<63,239,229,120,211,142,161,242>>,
            <<63,239,254,179,108,133,159,148>>, <<63,239,247,192,78,183,56,248>>, <<63,239,208,166,119,119,116,92>>, <<63,239,137,141,58,17,242,10>>,
            <<63,239,34,188,24,60,215,169>>, <<63,238,156,154,122,46,6,132>>, <<63,237,247,175,70,154,245,240>>, <<63,237,52,160,91,11,194,135>>,
            <<63,236,84,49,229,9,241,213>>, <<63,235,87,69,156,210,157,144>>, <<63,234,62,217,226,82,146,251>>, <<63,233,12,8,189,80,156,151>>,
            <<63,231,192,6,193,199,77,136>>, <<63,230,92,33,217,139,160,186>>, <<63,228,225,191,244,120,129,148>>, <<63,227,82,93,160,112,233,71>>,
            <<63,225,175,140,138,162,234,86>>, <<63,223,245,227,215,24,103,208>>, <<63,220,108,137,190,173,93,115>>, <<63,216,198,153,88,110,30,129>>,
            <<63,213,7,189,241,19,113,239>>, <<63,209,51,187,228,244,113,13>>, <<63,202,156,217,172,66,89,238>>, <<63,194,183,119,154,48,211,205>>,
            <<63,181,126,133,31,244,208,36>>, <<63,149,225,243,196,51,126,168>>, <<191,165,38,23,137,83,176,62>>, <<191,186,147,241,228,229,233,207>>,
            <<191,197,61,14,130,202,22,188>>, <<191,205,26,199,207,116,25,227>>, <<191,210,109,157,200,24,180,160>>, <<191,214,59,78,246,168,160,206>>,
            <<191,217,242,164,43,127,23,12>>, <<191,221,143,224,155,133,224,130>>, <<191,224,135,176,221,98,26,162>>, <<191,226,54,209,114,33,11,144>>,
            <<191,227,211,160,113,236,92,181>>, <<191,229,92,126,175,48,108,209>>, <<191,230,207,225,10,105,3,62>>, <<191,232,44,81,255,133,113,129>>,
            <<191,233,112,115,29,145,122,107>>, <<191,234,154,254,103,41,48,91>>, <<191,235,170,199,154,85,89,211>>, <<191,236,158,189,94,134,169,164>>,
            <<191,237,117,234,87,127,224,10>>, <<191,238,47,118,28,26,159,78>>, <<191,238,202,166,15,238,137,113>>, <<191,239,70,222,30,255,224,55>>,
            <<191,239,163,161,90,184,212,143>>, <<191,239,224,146,119,143,176,96>>, <<191,239,253,116,42,219,120,210>>, <<191,239,250,41,104,120,164,10>>,
            <<191,239,214,181,127,255,236,153>>, <<191,239,147,60,25,113,220,81>>, <<191,239,48,1,17,90,99,129>>, <<191,238,173,104,52,144,155,50>>,
            <<191,238,11,244,219,215,69,63>>, <<191,237,76,73,103,195,8,207>>, <<191,236,111,38,157,107,72,159>>, <<191,235,117,106,228,137,201,24>>,
            <<191,234,96,17,103,204,37,32>>, <<191,233,48,49,24,56,26,203>>, <<191,231,230,251,148,160,155,142>>, <<191,230,133,187,246,69,236,95>>,
            <<191,229,13,213,131,213,219,90>>, <<191,227,128,194,76,27,14,116>>, <<191,225,224,17,169,194,183,132>>, <<191,224,45,102,177,183,9,203>>,
            <<191,220,212,237,27,69,40,12>>, <<191,217,50,13,136,136,97,236>>, <<191,213,117,214,226,155,199,41>>, <<191,209,164,10,221,50,140,49>>,
            <<191,203,129,1,194,44,208,224>>, <<191,195,158,68,94,51,79,3>>, <<191,183,79,151,196,92,121,14>>, <<191,157,44,211,207,75,121,231>>,
            <<63,161,129,7,146,166,44,232>>, <<63,184,195,111,38,126,6,62>>, <<63,196,86,185,88,179,1,170>>, <<63,204,55,70,130,22,219,163>>,
            <<63,209,253,185,119,147,75,207>>, <<63,213,205,183,133,6,178,168>>, <<63,217,135,199,209,58,187,229>>, <<63,221,40,42,209,254,135,29>>,
            <<63,224,85,157,104,19,181,50>>, <<63,226,6,183,201,82,13,33>>, <<63,227,165,176,245,243,41,10>>, <<63,229,48,231,147,8,67,188>>,
            <<63,230,166,206,37,59,43,188>>, <<63,232,5,236,160,145,152,237>>, <<63,233,76,225,226,161,197,43>>, <<63,234,122,101,21,187,178,7>>,
            <<63,235,141,70,251,162,14,178>>, <<63,236,132,115,30,134,4,106>>, <<63,237,94,240,231,19,63,58>>, <<63,238,27,228,150,116,149,48>>,
            <<63,238,186,144,35,85,174,238>>, <<63,239,58,83,249,3,165,97>>, <<63,239,154,175,151,236,44,21>>, <<63,239,219,66,22,217,246,89>>,
            <<63,239,251,202,132,108,79,216>>, <<63,239,252,40,40,103,237,179>>, <<63,239,220,90,164,159,60,20>>, <<63,239,156,129,245,81,22,107>>,
            <<63,239,60,222,80,253,137,113>>, <<63,238,189,207,231,208,246,203>>, <<63,238,31,214,130,230,147,178>>, <<63,237,99,145,3,195,138,146>>,
            <<63,236,137,188,196,139,254,22>>, <<63,235,147,52,217,146,168,88>>, <<63,234,128,241,53,2,161,190>>, <<63,233,84,5,173,128,229,0>>,
            <<63,232,13,160,232,192,73,32>>, <<63,230,175,11,43,31,48,222>>, <<63,229,57,165,13,128,192,55>>, <<63,227,174,230,26,173,231,147>>,
            <<63,226,16,91,85,162,193,222>>, <<63,224,95,165,170,68,66,84>>, <<63,221,60,240,148,31,102,60>>, <<63,217,157,45,236,211,96,109>>,
            <<63,213,227,168,116,138,11,101>>, <<63,210,20,31,41,212,83,134>>, <<63,204,100,206,94,221,191,28>>, <<63,196,132,207,226,250,219,244>>,
            <<63,185,32,92,225,137,206,71>>, <<63,162,59,169,105,38,239,217>>, <<191,155,183,122,201,157,5,38>>, <<191,182,242,154,12,45,32,134>>,
            <<191,195,112,32,137,231,218,252>>, <<191,203,83,103,93,78,12,129>>, <<191,209,141,153,81,45,18,16>>, <<191,213,95,215,143,134,172,45>>,
            <<191,217,28,150,142,9,94,3>>, <<191,220,192,20,15,225,0,181>>, <<191,224,35,83,159,105,50,228>>, <<191,225,214,98,44,185,19,239>>,
            <<191,227,119,128,34,13,254,189>>, <<191,229,5,9,252,138,30,33>>, <<191,230,125,111,234,47,47,128>>, <<191,231,223,55,91,252,4,104>>,
            <<191,233,40,252,130,167,200,246>>, <<191,234,89,115,180,124,18,62>>, <<191,235,111,106,186,229,249,197>>, <<191,236,105,202,6,110,155,69>>,
            <<191,237,71,149,199,229,89,84>>, <<191,238,7,238,237,161,10,130>>, <<191,238,170,20,3,217,105,170>>, <<191,239,45,97,247,55,37,230>>,
            <<191,239,145,84,184,214,210,44>>, <<191,239,213,135,195,25,215,140>>, <<191,239,249,182,126,191,200,197>>, <<191,239,253,188,135,226,106,126>>,
            <<191,239,225,149,210,143,19,115>>, <<191,239,165,94,174,216,145,102>>, <<191,239,73,83,172,93,122,204>>, <<191,238,205,209,93,95,148,213>>,
            <<191,238,51,83,249,169,139,117>>, <<191,237,122,118,225,160,157,64>>, <<191,236,163,244,1,255,237,174>>, <<191,235,176,163,24,218,145,28>>,
            <<191,234,161,120,220,160,123,138>>, <<191,233,119,134,6,0,119,127>>, <<191,232,51,246,61,158,192,61>>, <<191,230,216,14,238,180,16,104>>,
            <<191,229,101,45,255,196,43,86>>, <<191,227,220,200,114,181,80,70>>, <<191,226,64,104,237,170,39,148>>, <<191,224,145,174,46,23,197,57>>,
            <<191,221,164,146,207,77,126,203>>, <<191,218,7,249,33,6,23,241>>, <<191,214,81,49,57,161,51,183>>, <<191,210,131,247,86,23,246,111>>,
            <<191,205,72,60,140,181,155,228>>, <<191,197,107,23,41,198,88,191>>, <<191,186,240,206,109,189,138,252>>, <<191,165,224,172,70,200,234,197>>,
            <<63,148,108,138,63,137,187,136>>, <<63,181,33,120,159,231,234,73>>, <<63,194,137,71,21,85,239,50>>, <<63,202,111,45,86,246,199,172>>,
            <<63,209,29,62,201,207,65,207>>, <<63,212,241,176,131,149,115,64>>, <<63,216,177,17,198,108,38,118>>, <<63,220,87,157,175,92,18,44>>,
            <<63,223,225,168,85,69,68,133>>, <<63,225,165,209,61,22,178,248>>, <<63,227,73,14,143,220,77,25>>, <<63,228,216,230,125,153,185,202>>,
            <<63,230,83,198,226,218,105,212>>, <<63,231,184,50,178,129,79,141>>, <<63,233,4,195,117,5,223,203>>, <<63,234,56,42,176,250,83,131>>,
            <<63,235,81,51,59,112,159,130>>, <<63,236,78,194,110,235,148,96>>, <<63,237,47,217,71,163,190,18>>, <<63,237,243,149,100,1,223,50>>,
            <<63,238,153,49,232,77,40,167>>, <<63,239,32,8,68,168,57,151>>, <<63,239,135,144,220,149,184,48>>, <<63,239,207,99,143,92,23,194>>,
            <<63,239,247,56,32,191,78,213>>, <<63,239,254,230,129,167,57,226>>, <<63,239,230,102,248,105,143,188>>, <<63,239,173,210,40,142,229,95>>,
            <<63,239,85,96,250,10,242,87>>, <<63,238,221,108,96,0,254,37>>, <<63,238,70,108,255,78,8,2>>, <<63,237,144,250,181,50,166,143>>,
            <<63,236,189,203,254,150,160,117>>, <<63,235,205,181,64,127,219,58>>, <<63,234,193,167,242,117,70,218>>, <<63,233,154,177,171,164,126,221>>,
            <<63,232,89,251,19,190,128,21>>, <<63,231,0,198,184,156,10,162>>, <<63,229,144,111,201,213,217,233>>, <<63,228,10,104,187,150,232,241>>,
            <<63,226,112,57,210,7,218,152>>, <<63,224,195,127,150,202,138,187>>, <<63,222,11,210,116,36,78,250>>, <<63,218,114,109,193,242,231,35>>,
            <<63,214,190,111,197,150,65,110>>, <<63,210,243,145,238,3,133,199>>, <<63,206,43,73,87,79,38,173>>, <<63,198,81,23,52,183,161,161>>,
            <<63,188,192,230,96,77,216,122>>, <<63,169,133,102,97,129,78,65>>, <<191,138,66,171,144,102,213,37>>, <<191,179,80,16,236,160,249,33>>,
            <<191,193,162,47,250,193,188,25>>, <<191,201,138,155,102,28,66,164>>, <<191,208,172,171,87,37,61,232>>, <<191,212,131,67,207,140,109,156>>,
            <<191,216,69,58,223,249,236,5>>, <<191,219,238,201,11,220,106,132>>, <<191,223,124,63,99,101,62,152>>, <<191,225,117,5,155,240,212,201>>,
            <<191,227,26,92,217,212,206,212>>, <<191,228,172,125,169,3,85,13>>, <<191,230,41,211,153,202,251,123>>, <<191,231,144,223,37,230,25,227>>,
            <<191,232,224,55,50,52,170,90>>, <<191,234,22,138,121,233,246,16>>, <<191,235,50,160,225,192,254,186>>, <<191,236,51,92,177,226,87,54>>,
            <<191,237,23,187,181,63,223,48>>, <<191,237,222,216,61,69,37,159>>, <<191,238,135,234,8,215,137,115>>, <<191,239,18,71,13,189,145,121>>,
            <<191,239,125,100,35,162,253,195>>, <<191,239,200,213,144,13,152,255>>, <<191,239,244,79,114,181,252,92>>, <<191,239,255,166,17,215,87,40>>,
            <<191,239,234,206,6,41,113,78>>, <<191,239,181,220,70,88,182,151>>, <<191,239,97,6,17,240,187,74>>, <<191,238,236,160,187,206,115,63>>,
            <<191,238,89,33,84,79,246,113>>, <<191,237,167,28,51,152,29,202>>, <<191,236,215,68,100,92,101,75>>, <<191,235,234,106,239,211,37,48>>,
            <<191,234,225,126,11,119,50,37>>, <<191,233,189,136,41,116,88,0>>, <<191,232,127,174,236,173,181,85>>, <<191,231,41,50,1,107,86,8>>,
            <<191,229,187,105,219,216,56,154>>, <<191,228,55,198,93,147,249,27>>, <<191,226,159,205,99,180,168,164>>, <<191,224,245,25,62,172,221,16>>,
            <<191,222,114,174,43,64,139,237>>, <<191,218,220,138,109,140,2,128>>, <<191,215,43,98,173,21,31,122>>, <<191,211,98,237,126,105,254,169>>,
            <<191,207,13,241,203,136,221,34>>, <<191,199,54,205,6,221,76,252>>, <<191,190,144,158,177,187,78,64>>, <<191,173,41,203,155,55,216,198>>,
            <<63,119,87,214,150,123,166,68>>, <<63,177,126,104,254,52,125,224>>, <<63,192,186,222,58,188,144,116>>, <<63,200,165,180,130,238,78,166>>,
            <<63,208,59,224,111,151,206,21>>, <<63,212,20,146,226,172,152,171>>, <<63,215,217,19,65,90,163,214>>, <<63,219,133,151,130,8,74,80>>,
            <<63,223,22,109,186,120,21,196>>, <<63,225,67,255,235,144,140,168>>, <<63,226,235,107,155,67,155,126>>, <<63,228,127,208,18,121,207,201>>,
            <<63,229,255,150,154,133,246,170>>, <<63,231,105,61,56,245,103,76>>, <<63,232,187,88,51,193,142,75>>, <<63,233,244,147,127,32,118,147>>,
            <<63,235,19,180,19,132,58,8>>, <<63,236,23,153,42,113,112,101>>, <<63,236,255,61,96,238,3,105>>, <<63,237,201,183,190,100,55,8>>,
            <<63,238,118,60,158,241,158,150>>, <<63,239,4,30,128,54,41,168>>, <<63,239,114,206,175,213,131,61>>, <<63,239,193,221,218,251,24,160>>,
            <<63,239,240,252,126,80,128,40>>, <<63,239,255,251,53,245,166,217>>, <<63,239,238,202,237,42,83,175>>, <<63,239,189,124,237,121,15,135>>,
            <<63,239,108,66,205,84,52,98>>, <<63,238,251,110,62,54,158,78>>, <<63,238,107,112,186,122,36,141>>, <<63,237,188,219,19,54,131,80>>,
            <<63,236,240,92,222,155,122,72>>, <<63,236,6,195,199,88,152,188>>, <<63,235,0,250,189,196,88,93>>, <<63,233,224,9,11,146,146,220>>,
            <<63,232,165,17,75,7,242,54>>, <<63,231,81,80,66,180,152,112>>, <<63,229,230,27,166,220,48,72>>, <<63,228,100,224,193,203,126,12>>,
            <<63,226,207,35,4,117,90,220>>, <<63,225,38,122,128,200,108,158>>, <<63,222,217,36,158,139,67,111>>, <<63,219,70,77,194,232,64,242>>,
            <<63,215,152,8,133,197,64,141>>, <<63,211,210,8,148,239,223,174>>, <<63,207,240,50,247,143,8,238>>, <<63,200,28,53,164,61,9,184>>,
            <<63,192,47,248,173,226,32,63>>, <<63,176,102,231,235,118,234,23>>, <<63,87,87,222,89,247,61,16>>, <<191,175,89,13,194,168,113,13>>,
            <<191,191,166,169,173,53,205,210>>, <<191,199,192,123,166,183,2,233>>, <<191,207,149,191,20,144,31,31>>, <<191,211,165,159,45,25,241,140>>,
            <<191,215,108,156,82,66,206,243>>, <<191,219,28,10,111,186,216,54>>, <<191,222,176,52,173,31,235,121>>, <<191,225,18,192,207,0,14,219>>,
            <<191,226,188,59,112,72,10,250>>, <<191,228,82,222,78,148,172,96>>, <<191,229,213,16,113,133,158,230>>, <<191,231,65,77,111,126,224,234>>,
            <<191,232,150,38,244,77,15,44>>, <<191,233,210,70,49,147,232,5>>, <<191,234,244,109,55,148,82,76>>, <<191,235,251,120,52,239,84,152>>,
            <<191,236,230,94,156,36,61,64>>, <<191,237,180,52,45,162,217,125>>, <<191,238,100,41,229,102,46,152>>, <<191,238,245,142,203,40,170,23>>,
            <<191,239,103,208,164,96,121,207>>, <<191,239,186,124,135,80,232,106>>, <<191,239,237,63,78,156,252,77>>, <<191,239,255,229,236,230,254,168>>,
            <<191,239,242,93,160,40,220,93>>, <<191,239,196,180,4,145,189,101>>, <<191,239,119,23,6,213,213,209>>, <<191,239,9,212,181,254,53,33>>,
            <<191,238,125,90,244,231,12,29>>, <<191,237,210,55,11,187,89,17>>, <<191,237,9,21,25,221,33,5>>, <<191,236,34,191,104,201,38,111>>,
            <<191,235,32,29,160,164,48,103>>, <<191,234,2,51,223,62,125,73>>, <<191,232,202,33,178,119,186,216>>, <<191,231,121,32,247,10,163,112>>,
            <<191,230,16,132,156,227,23,116>>, <<191,228,145,183,82,60,21,154>>, <<191,226,254,58,22,220,176,131>>, <<191,225,87,162,184,226,123,121>>,
            <<191,223,63,52,121,62,91,168>>, <<191,219,175,182,98,71,137,116>>, <<191,216,4,95,230,78,95,127>>, <<191,212,64,225,192,16,49,246>>,
            <<191,208,105,4,245,114,189,146>>, <<191,201,1,78,17,221,14,45>>, <<191,193,23,108,44,188,180,36>>, <<191,178,56,179,124,116,15,48>>,
            <<191,129,129,217,45,99,25,245>>, <<63,171,180,225,70,231,146,192>>, <<63,189,215,45,160,212,127,134>>, <<63,198,218,243,203,209,86,54>>,
            <<63,206,179,84,62,21,127,205>>, <<63,211,54,106,31,214,115,197>>, <<63,214,255,215,123,110,157,192>>, <<63,218,178,35,51,255,192,178>>,
            <<63,222,73,149,143,86,169,210>>, <<63,224,225,72,234,8,129,158>>, <<63,226,140,204,245,210,200,2>>, <<63,228,37,168,242,206,51,218>>,
            <<63,229,170,65,172,55,129,141>>, <<63,231,25,16,78,85,40,54>>, <<63,232,112,163,239,137,74,205>>, <<63,233,175,163,3,89,113,131>>,
            <<63,234,212,204,181,246,192,169>>, <<63,235,222,250,46,233,56,200>>, <<63,236,205,31,185,153,98,28>>, <<63,237,158,77,210,142,75,102>>,
            <<63,238,81,178,24,80,240,252>>, <<63,238,230,152,31,2,209,185>>, <<63,239,92,106,37,210,237,85>>, <<63,239,178,177,173,154,158,84>>,
            <<63,239,233,23,240,10,226,219>>, <<63,239,255,102,54,242,41,64>>, <<63,239,245,134,19,66,232,70>>, <<63,239,203,129,115,163,162,195>>,
            <<63,239,129,130,154,113,168,221>>, <<63,239,23,211,243,64,163,138>>, <<63,238,142,223,200,1,165,134>>, <<63,237,231,47,214,29,10,250>>,
            <<63,237,33,108,195,234,175,66>>, <<63,236,62,93,119,19,196,1>>, <<63,235,62,230,76,136,225,183>>, <<63,234,36,8,50,213,146,137>>,
            <<63,232,238,223,167,184,54,2>>, <<63,231,160,163,154,2,59,20>>, <<63,230,58,164,48,224,115,27>>, <<63,228,190,73,121,197,238,14>>,
            <<63,227,45,17,254,77,130,228>>, <<63,225,136,145,67,126,4,158>>, <<63,223,164,220,103,232,217,237>>, <<63,220,24,194,237,23,119,35>>,
            <<63,216,112,103,102,93,63,220>>, <<63,212,175,119,143,33,40,96>>, <<63,208,217,185,219,56,142,102>>, <<63,201,230,19,85,206,119,156>>,
            <<63,193,254,166,211,168,149,6>>, <<63,180,10,66,115,106,183,191>>, <<63,144,12,62,42,210,164,145>>, <<191,168,16,88,165,103,96,118>>,
            <<191,188,7,78,85,206,95,123>>, <<191,197,245,31,237,158,201,128>>, <<191,205,208,131,76,198,143,114>>, <<191,210,198,245,44,189,138,219>>,
            <<191,214,146,198,38,157,108,201>>, <<191,218,71,227,47,14,112,73>>, <<191,221,226,145,182,105,177,56>>, <<191,224,175,152,225,47,240,181>>,
            <<191,226,93,32,201,163,175,148>>, <<191,227,248,48,149,129,117,86>>, <<191,229,127,42,216,250,175,109>>, <<191,230,240,134,91,76,25,59>>,
            <<191,232,74,207,162,56,74,205>>, <<191,233,140,170,103,163,219,28>>, <<191,234,180,210,247,219,45,184>>, <<191,235,194,31,119,33,211,113>>,
            <<191,236,179,129,13,67,235,51>>, <<191,237,136,4,245,252,94,73>>, <<191,238,62,213,117,29,202,215>>, <<191,238,215,58,173,136,205,250>>,
            <<191,239,80,155,90,23,75,1>>, <<191,239,170,125,103,194,197,147>>, <<191,239,228,134,112,106,202,217>>, <<191,239,254,124,21,191,229,76>>,
            <<191,239,248,68,59,247,177,234>>, <<191,239,209,229,36,15,6,19>>, <<191,239,139,133,101,127,195,92>>, <<191,239,37,107,199,112,167,126>>,
            <<191,238,159,254,249,134,38,135>>, <<191,237,251,197,44,155,229,122>>, <<191,237,57,99,139,206,171,73>>, <<191,236,89,157,150,94,151,100>>,
            <<191,235,93,84,91,16,155,181>>, <<191,234,69,133,149,213,6,187>>, <<191,233,19,74,176,150,183,211>>, <<191,231,199,215,168,51,189,242>>,
            <<191,230,100,121,214,187,225,167>>, <<191,228,234,150,164,44,194,88>>, <<191,227,91,170,30,252,180,94>>, <<191,225,185,69,125,221,207,233>>,
            <<191,224,5,13,140,57,190,85>>, <<191,220,129,114,5,247,223,248>>, <<191,216,220,29,158,168,51,130>>, <<191,213,29,200,146,89,15,163>>,
            <<191,209,74,54,182,65,14,158>>, <<191,202,202,130,119,54,209,252>>, <<191,194,229,165,161,158,50,4>>, <<191,181,219,142,195,252,60,162>>,
            <<191,151,87,90,95,157,16,132>>, <<63,164,107,127,251,156,81,4>>, <<63,186,55,17,210,230,105,218>>, <<63,197,15,3,8,125,179,246>>,
            <<63,204,237,79,50,253,188,137>>, <<63,210,87,65,198,127,14,234>>, <<63,214,37,105,190,140,236,96>>, <<63,217,221,75,194,69,186,44>>,
            <<63,221,123,42,120,245,112,113>>, <<63,224,125,177,89,183,16,202>>, <<63,226,45,55,138,71,207,149>>, <<63,227,202,117,205,232,100,165>>,
            <<63,229,83,204,135,29,221,125>>, <<63,230,199,176,29,55,7,226>>, <<63,232,36,170,138,42,117,3>>, <<63,233,105,92,210,194,11,48>>,
            <<63,234,148,128,103,154,3,121>>, <<63,235,164,232,109,144,35,63>>, <<63,236,153,130,236,88,236,29>>, <<63,237,113,89,226,10,126,164>>,
            <<63,238,43,148,58,135,249,158>>, <<63,238,199,118,169,212,155,85>>, <<63,239,68,100,104,114,230,45>>, <<63,239,161,223,209,18,135,45>>,
            <<63,239,223,138,222,238,66,250>>, <<63,239,253,39,140,90,224,17>>, <<63,239,250,152,17,39,245,226>>, <<63,239,215,223,0,147,223,227>>,
            <<63,239,149,31,70,180,182,189>>, <<63,239,50,156,5,88,233,55>>, <<63,238,176,184,80,130,202,0>>, <<63,238,15,246,202,194,245,122>>,
            <<63,237,80,249,33,213,207,30>>, <<63,236,116,127,108,8,53,123>>, <<63,235,123,103,103,6,237,118>>, <<63,234,102,171,152,219,42,136>>,
            <<63,233,55,98,83,244,98,73>>, <<63,231,238,188,159,60,238,123>>, <<63,230,142,5,3,82,219,120>>, <<63,229,22,158,62,25,180,202>>,
            <<63,227,138,1,221,243,78,158>>, <<63,225,233,190,198,6,158,102>>, <<63,224,55,119,157,18,124,176>>, <<63,220,233,194,80,191,105,132>>,
            <<63,217,71,129,40,243,249,101>>, <<63,213,139,211,90,210,232,21>>, <<63,209,186,122,16,110,153,230>>, <<63,203,174,152,126,90,72,221>>,
            <<63,195,204,101,150,93,5,45>>, <<63,183,172,146,98,167,81,168>>, <<63,158,162,40,243,94,40,189>>, <<191,160,198,99,104,4,40,49>>,
            <<191,184,102,126,32,22,17,119>>, <<191,196,40,160,25,191,92,200>>, <<191,204,9,186,228,95,30,241>>, <<191,209,231,81,96,154,142,111>>,
            <<191,213,183,195,174,244,151,24>>, <<191,217,114,94,80,39,14,18>>, <<191,221,19,97,46,224,212,215>>, <<191,224,75,146,249,151,53,18>>,
            <<191,225,253,17,215,23,90,221>>, <<191,227,156,121,52,25,203,234>>, <<191,229,40,39,70,221,131,189>>, <<191,230,158,142,27,231,14,227>>,
            <<191,231,254,53,38,60,221,113>>, <<191,233,69,186,186,29,126,182>>, <<191,234,115,213,112,179,24,184>>, <<191,235,135,85,115,94,54,246>>,
            <<191,236,127,37,173,74,234,87>>, <<191,237,90,76,226,28,190,206>>, <<191,238,23,238,168,153,76,218>>, <<191,238,183,76,72,85,86,23>>,
            <<191,239,55,197,121,133,112,3>>, <<191,239,152,217,6,49,79,200>>, <<191,239,218,37,76,39,160,62>>, <<191,239,251,104,159,47,171,2>>,
            <<191,239,252,129,139,22,15,173>>, <<191,239,221,110,245,82,30,222>>, <<191,239,158,80,30,34,3,231>>, <<191,239,63,100,129,28,151,152>>,
            <<191,238,193,11,149,88,134,94>>, <<191,238,35,196,109,104,238,251>>, <<191,237,104,45,55,144,25,202>>, <<191,236,143,2,158,168,197,43>>,
            <<191,235,153,31,12,102,20,57>>, <<191,234,135,121,205,168,238,199>>, <<191,233,91,38,25,199,181,125>>, <<191,232,21,81,253,194,143,29>>,
            <<191,230,183,69,44,122,141,43>>, <<191,229,66,95,181,29,79,222>>, <<191,227,184,24,161,16,114,210>>, <<191,226,25,252,122,193,49,11>>,
            <<191,224,105,171,190,211,55,1>>, <<191,221,81,178,114,128,11,44>>, <<191,217,178,144,160,24,60,77>>, <<191,213,249,150,122,147,91,17>>,
            <<191,210,42,130,116,98,230,7>>, <<191,204,146,82,116,165,40,62>>, <<191,196,178,227,178,117,95,46>>, <<191,185,125,71,68,220,191,196>>,
            <<191,162,246,72,210,178,185,193>>, <<63,154,66,30,19,254,79,211>>, <<63,182,149,153,70,120,98,7>>, <<63,195,65,250,31,157,242,57>>,
            <<63,203,37,201,85,206,252,139>>, <<63,209,119,37,111,90,126,163>>, <<63,213,73,213,100,128,191,227>>, <<63,217,7,28,60,81,246,156>>,
            <<63,220,171,55,49,88,253,47>>, <<63,224,25,62,103,128,15,100>>, <<63,225,204,176,80,51,138,14>>, <<63,227,110,59,97,7,106,224>>,
            <<63,228,252,59,169,98,7,242>>, <<63,230,117,32,224,41,56,123>>, <<63,231,215,111,246,87,169,116>>, <<63,233,33,196,148,56,208,37>>,
            <<63,234,82,210,127,204,64,118>>, <<63,235,105,102,234,231,220,59>>, <<63,236,100,105,167,200,200,87>>, <<63,237,66,222,66,220,225,218>>,
            <<63,238,3,229,0,169,71,77>>, <<63,238,166,187,190,206,146,141>>, <<63,239,42,190,183,72,119,19>>, <<63,239,143,105,37,36,110,206>>,
            <<63,239,212,85,202,9,196,142>>, <<63,239,249,63,84,12,173,164>>, <<63,239,254,0,163,102,20,171>>, <<63,239,226,148,239,201,235,234>>,
            <<63,239,167,23,205,54,128,33>>, <<63,239,75,197,16,55,244,144>>, <<63,238,208,248,145,187,207,37>>, <<63,238,55,45,210,177,14,114>>,
            <<63,237,126,255,127,209,202,147>>, <<63,236,169,38,214,19,44,133>>, <<63,235,182,122,232,88,77,38>>, <<63,234,167,239,199,35,69,126>>,
            <<63,233,126,149,139,30,22,81>>, <<63,232,59,151,67,114,36,131>>, <<63,230,224,57,201,1,160,46>>, <<63,229,109,218,119,177,85,23>>,
            <<63,227,229,237,207,11,103,5>>, <<63,226,73,253,251,156,121,206>>, <<63,224,155,169,74,131,218,166>>, <<63,221,185,65,17,139,119,35>>,
            <<63,218,29,74,160,4,73,39>>, <<63,214,103,16,132,141,101,97>>, <<63,210,154,78,109,131,174,114>>, <<63,205,117,173,100,182,29,32>>,
            <<63,197,153,28,247,82,198,123>>, <<63,187,77,167,97,18,189,118>>, <<63,166,155,62,27,41,231,106>>, <<191,146,247,30,3,76,254,85>>,
            <<191,180,196,105,80,54,76,183>>, <<191,194,91,20,25,50,165,11>>, <<191,202,65,125,125,103,142,148>>, <<191,209,6,191,103,207,89,207>>,
            <<191,212,219,160,76,206,17,82>>, <<191,216,155,134,235,127,130,5>>, <<191,220,66,173,218,204,136,69>>, <<191,223,205,104,149,171,35,150>>,
            <<191,225,156,19,150,132,154,227>>, <<191,227,63,188,238,123,226,139>>, <<191,228,208,10,64,189,205,99>>, <<191,230,75,104,243,196,198,225>>,
            <<191,231,176,91,123,108,98,126>>, <<191,232,253,122,216,174,28,54>>, <<191,234,49,120,2,175,238,13>>, <<191,235,75,29,55,185,104,166>>,
            <<191,236,73,79,52,188,152,234>>, <<191,237,43,14,82,57,81,123>>, <<191,237,239,119,133,92,77,168>>, <<191,238,149,197,68,87,163,6>>,
            <<191,239,29,80,77,14,213,69>>, <<191,239,133,144,77,78,182,14>>, <<191,239,206,28,107,231,228,253>>, <<191,239,246,171,178,34,17,85>>,
            <<191,239,255,21,85,29,232,149>>, <<191,239,231,80,222,219,229,125>>, <<191,239,175,118,54,190,191,59>>, <<191,239,87,189,137,128,230,224>>,
            <<191,238,224,127,16,181,64,149>>, <<191,238,74,50,186,11,239,25>>, <<191,237,149,111,174,180,108,201>>, <<191,236,194,235,187,86,56,167>>,
            <<191,235,211,122,153,57,18,223>>, <<191,234,200,13,25,84,150,225>>, <<191,233,161,176,50,29,107,41>>, <<191,232,97,139,241,3,144,109>>,
            <<191,231,8,226,80,177,249,61>>, <<191,229,153,13,245,58,183,129>>, <<191,228,19,128,207,117,144,168>>, <<191,226,121,194,168,239,150,202>>,
            <<191,224,205,111,153,225,227,218>>, <<191,222,32,108,213,119,198,96>>, <<191,218,135,173,197,195,167,231>>, <<191,214,212,64,12,166,254,241>>,
            <<191,211,9,220,135,255,177,221>>, <<191,206,88,166,90,103,221,108>>, <<191,198,127,14,103,69,141,255>>, <<191,189,29,172,174,217,210,18>>,
            <<191,170,63,232,52,55,170,79>>, <<63,135,87,189,190,149,216,147>>, <<63,178,242,244,72,114,241,168>>, <<63,193,115,241,6,107,137,174>>,
            <<63,201,92,218,82,111,94,215>>, <<63,208,150,32,191,202,206,59>>, <<63,212,109,37,214,100,149,39>>, <<63,216,47,159,195,125,130,74>>,
            <<63,219,217,198,134,231,77,221>>, <<63,223,103,234,151,91,138,160>>, <<63,225,107,60,75,183,160,33>>, <<63,227,16,254,119,24,200,188>>,
            <<63,228,163,147,159,235,97,36>>, <<63,230,33,102,225,121,99,3>>, <<63,231,136,248,55,116,67,211>>, <<63,232,216,222,0,45,130,214>>,
            <<63,234,15,198,104,75,185,93>>, <<63,235,44,120,190,142,95,87>>, <<63,236,45,214,174,74,130,142>>, <<63,237,18,221,95,100,39,175>>,
            <<63,237,218,166,122,162,194,7>>, <<63,238,132,105,17,90,227,211>>, <<63,239,15,122,103,132,37,13>>, <<63,239,123,78,159,112,13,57>>,
            <<63,239,199,121,70,117,72,156>>, <<63,239,243,173,194,1,170,144>>, <<63,239,255,191,156,165,78,28>>, <<63,239,235,162,178,201,91,40>>,
            <<63,239,183,107,62,229,114,98>>, <<63,239,99,77,197,39,125,252>>, <<63,238,239,158,222,162,87,129>>, <<63,238,92,210,228,56,103,157>>,
            <<63,237,171,125,121,151,203,128>>, <<63,236,220,80,248,189,184,167>>, <<63,235,240,29,190,150,112,89>>, <<63,234,231,209,89,110,32,146>>,
            <<63,233,196,117,154,5,144,113>>, <<63,232,135,47,136,58,195,146>>, <<63,231,49,62,60,82,145,7>>, <<63,229,195,249,158,11,106,182>>,
            <<63,228,64,209,10,188,100,167>>, <<63,226,169,73,227,219,253,242>>, <<63,224,254,254,7,98,132,226>>, <<63,222,135,52,103,35,202,236>>,
            <<63,218,241,184,175,130,195,0>>, <<63,215,65,35,167,190,6,120>>, <<63,211,121,43,80,211,88,238>>, <<63,207,59,58,98,218,204,53>>,
            <<63,199,100,181,5,141,22,138>>, <<63,190,237,81,38,240,134,158>>, <<63,173,228,58,255,248,125,66>>, <<191,113,129,227,168,121,197,230>>,
            <<191,177,33,64,59,54,183,35>>, <<191,192,140,147,232,1,245,89>>, <<191,200,119,226,205,79,114,97>>, <<191,208,37,74,237,218,207,159>>,
            <<191,211,254,103,112,179,30,147>>, <<191,215,195,104,43,42,19,116>>, <<191,219,112,130,146,141,164,177>>, <<191,223,2,4,37,157,26,42>>,
            <<191,225,58,43,18,60,130,137>>, <<191,226,226,0,150,84,153,13>>, <<191,228,118,216,90,203,122,137>>, <<191,229,247,27,52,253,81,238>>,
            <<191,231,97,70,173,110,153,19>>, <<191,232,179,238,132,123,137,85>>, <<191,233,237,190,32,174,244,144>>, <<191,235,13,121,229,80,46,83>>,
            <<191,236,18,0,111,207,135,147>>, <<191,236,250,75,186,210,27,36>>, <<191,237,197,114,37,184,42,116>>, <<191,238,114,167,95,149,3,80>>,
            <<191,239,1,61,52,172,40,63>>, <<191,239,112,164,61,165,6,189>>, <<191,239,192,108,111,197,4,15>>, <<191,239,240,69,141,158,219,65>>,
            <<191,239,255,255,119,197,243,19>>, <<191,239,239,138,93,52,127,94>>, <<191,239,190,246,203,51,196,64>>, <<191,239,110,117,156,182,124,150>>,
            <<191,238,254,87,201,54,25,42>>, <<191,238,111,14,19,68,84,188>>, <<191,237,193,40,151,34,236,248>>, <<191,236,245,86,57,211,162,137>>,
            <<191,236,12,99,249,50,54,153>>, <<191,235,7,60,29,201,92,60>>, <<191,233,230,229,79,49,238,250>>, <<191,232,172,129,139,233,94,187>>,
            <<191,231,89,77,5,169,31,149>>, <<191,229,238,156,227,100,76,153>>, <<191,228,109,221,234,43,117,89>>, <<191,226,216,147,14,79,121,195>>,
            <<191,225,48,83,238,52,192,198>>, <<191,222,237,150,112,187,150,221>>, <<191,219,91,105,252,147,124,107>>, <<191,215,173,185,235,172,207,252>>,
            <<191,211,232,57,85,205,193,124>>, <<191,208,14,179,70,63,150,177>>, <<191,200,74,13,214,97,95,193>>, <<191,192,94,71,97,171,137,155>>,
            <<191,176,196,21,48,213,234,117>>, <<191,103,87,220,204,120,8,6>>, <<63,174,158,166,106,183,216,231>>, <<63,191,73,255,126,224,36,249>>,
            <<63,199,146,153,231,137,81,3>>, <<63,207,104,126,210,137,199,208>>, <<63,211,143,102,140,10,98,37>>, <<63,215,86,225,138,110,186,144>>,
            <<63,219,6,227,91,216,5,45>>, <<63,222,155,182,147,87,19,207>>, <<63,225,8,224,141,67,203,135>>, <<63,226,178,195,232,120,178,253>>,
            <<63,228,73,217,6,35,39,174>>, <<63,229,204,134,122,251,159,207>>, <<63,231,57,71,97,94,247,169>>, <<63,232,142,172,224,111,148,136>>,
            <<63,233,203,95,157,9,62,125>>, <<63,234,238,33,19,20,209,19>>, <<63,235,245,204,213,224,91,189>>, <<63,236,225,89,182,57,125,136>>,
            <<63,237,175,218,205,34,65,107>>, <<63,238,96,128,106,20,58,31>>, <<63,238,242,152,227,226,52,200>>, <<63,239,101,145,75,102,112,170>>,
            <<63,239,184,245,255,73,174,229>>, <<63,239,236,115,32,78,114,59>>, <<63,239,255,212,229,171,119,154>>, <<63,239,243,7,209,32,153,99>>,
            <<63,239,198,24,194,145,179,34>>, <<63,239,121,52,235,19,210,44>>, <<63,239,12,169,159,121,185,161>>, <<63,238,128,228,10,141,112,211>>,
            <<63,237,214,112,191,69,8,182>>, <<63,237,13,251,43,97,33,195>>, <<63,236,40,76,235,3,62,117>>, <<63,235,38,76,253,233,99,47>>,
            <<63,234,8,254,223,26,238,60>>, <<63,232,209,129,127,240,74,53>>, <<63,231,129,14,39,123,239,131>>, <<63,230,24,247,55,118,253,17>>,
            <<63,228,154,166,215,238,78,220>>, <<63,227,7,157,139,6,71,65>>, <<63,225,97,112,170,67,167,50>>, <<63,223,83,145,157,188,230,41>>,
            <<63,219,196,192,77,113,169,82>>, <<63,216,26,1,111,78,235,249>>, <<63,212,87,5,37,149,80,183>>, <<63,208,127,147,243,143,73,87>>,
            <<63,201,47,21,222,253,106,91>>, <<63,193,69,175,191,178,27,1>>, <<63,178,149,213,30,237,116,128>>, <<63,132,108,204,209,202,32,148>>,
            <<191,170,250,102,136,244,22,54>>, <<191,189,122,111,29,206,113,138>>, <<191,198,173,2,155,173,48,96>>, <<191,206,133,255,84,2,26,15>>,
            <<191,211,32,36,153,152,71,93>>, <<191,214,234,13,74,59,244,7>>, <<191,218,156,234,66,14,96,66>>, <<191,222,53,3,52,199,152,251>>,
            <<191,224,215,93,96,188,154,149>>, <<191,226,131,73,10,159,93,130>>, <<191,228,28,150,55,153,199,191>>, <<191,229,161,169,65,18,77,122>>,
            <<191,231,16,250,216,75,150,154>>, <<191,232,105,25,143,242,63,206>>, <<191,233,168,171,79,168,251,14>>, <<191,234,206,110,176,29,134,123>>,
            <<191,235,217,60,62,72,54,66>>, <<191,236,200,7,164,145,35,86>>, <<191,237,153,224,184,176,15,115>>, <<191,238,77,244,109,55,141,248>>,
            <<191,238,227,141,165,216,144,224>>, <<191,239,90,21,237,136,217,239>>, <<191,239,177,22,13,213,24,95>>, <<191,239,232,54,134,198,133,191>>,
            <<191,239,255,63,230,227,112,245>>, <<191,239,246,27,2,242,47,89>>, <<191,239,204,209,13,70,97,97>>, <<191,239,131,139,140,129,28,50>>,
            <<191,239,26,148,49,205,66,152>>, <<191,238,146,84,142,194,19,139>>, <<191,237,235,85,171,54,114,13>>, <<191,237,38,63,123,111,184,1>>,
            <<191,236,67,216,55,54,159,100>>, <<191,235,69,3,146,124,62,39>>, <<191,234,42,193,216,87,125,9>>, <<191,232,246,46,233,65,100,123>>,
            <<191,231,168,129,29,147,136,138>>, <<191,230,67,8,13,103,171,138>>, <<191,228,199,43,63,18,128,151>>, <<191,227,54,104,189,141,13,160>>,
            <<191,225,146,83,152,56,91,36>>, <<191,223,185,36,154,251,156,142>>, <<191,220,45,186,67,199,210,55>>, <<191,216,133,248,202,133,209,15>>,
            <<191,212,197,141,79,172,180,231>>, <<191,208,240,61,193,242,247,110>>, <<191,202,19,202,37,168,163,55>>, <<191,194,44,222,171,236,60,79>>,
            <<191,180,103,87,61,65,107,216>>, <<191,145,129,175,65,43,104,8>>, <<63,167,85,204,237,164,169,135>>, <<63,187,170,124,178,139,151,207>>,
            <<63,197,199,31,229,79,228,104>>, <<63,205,163,26,81,106,41,241>>, <<63,210,176,163,11,99,17,134>>, <<63,214,124,236,212,132,75,104>>,
            <<63,218,50,152,165,163,150,58>>, <<63,221,205,235,95,127,119,105>>, <<63,224,165,162,49,82,118,140>>, <<63,226,83,144,154,177,165,216>>,
            <<63,227,239,16,133,183,43,175>>, <<63,229,118,132,21,208,131,195>>, <<63,230,232,97,152,59,141,93>>, <<63,232,67,53,15,251,200,119>>,
            <<63,233,133,161,171,249,229,37>>, <<63,234,174,99,37,213,104,48>>, <<63,235,188,79,8,7,141,63>>, <<63,236,174,85,218,15,90,65>>,
            <<63,237,131,132,49,121,0,242>>, <<63,238,59,3,166,174,2,170>>, <<63,238,212,27,172,151,211,223>>, <<63,239,78,50,74,60,28,82>>,
            <<63,239,168,204,181,151,241,81>>, <<63,239,227,143,207,30,72,217>>, <<63,239,254,64,125,93,103,207>>, <<63,239,248,195,232,111,44,201>>,
            <<63,239,211,31,148,248,103,234>>, <<63,239,141,121,94,156,24,119>>, <<63,239,40,23,81,232,43,243>>, <<63,238,163,95,101,226,0,84>>,
            <<63,237,255,215,21,121,138,6>>, <<63,237,62,34,217,74,68,91>>, <<63,236,95,5,130,48,231,11>>, <<63,235,99,95,117,92,75,206>>,
            <<63,234,76,45,202,158,124,199>>, <<63,233,26,137,77,225,7,48>>, <<63,231,207,165,100,188,116,222>>, <<63,230,108,206,217,78,255,181>>,
            <<63,228,243,106,139,137,122,27>>, <<63,227,100,244,10,66,251,139>>, <<63,225,194,252,21,124,75,104>>, <<63,224,15,39,11,83,3,163>>,
            <<63,220,150,86,130,115,152,72>>, <<63,216,241,158,150,61,156,38>>, <<63,213,51,208,100,119,148,60>>, <<63,209,96,175,58,183,125,13>>,
            <<63,202,248,39,177,193,54,168>>, <<63,195,19,209,37,121,102,255>>, <<63,182,56,149,127,157,115,31>>, <<63,152,204,189,224,25,234,63>>,
            <<191,163,176,229,182,117,127,114>>, <<191,185,218,46,68,26,63,235>>, <<191,196,224,244,193,1,74,105>>, <<191,204,191,210,189,95,12,89>>,
            <<191,210,64,227,84,68,129,180>>, <<191,214,15,129,148,55,212,92>>, <<191,217,199,239,232,48,252,27>>, <<191,221,102,112,106,93,132,98>>,
            <<191,224,115,175,164,107,45,75>>, <<191,226,35,155,55,101,108,92>>, <<191,227,193,72,135,225,149,56>>, <<191,229,75,23,136,180,164,194>>,
            <<191,230,191,124,40,53,24,209>>, <<191,232,28,255,222,146,118,5>>, <<191,233,98,67,38,131,130,219>>, <<191,234,141,254,222,208,18,77>>,
            <<191,235,159,5,147,82,229,115>>, <<191,236,148,68,172,40,196,16>>, <<191,237,108,197,129,219,233,65>>, <<191,238,39,174,85,117,212,165>>,
            <<191,238,196,67,43,126,67,40>>, <<191,239,65,230,137,10,217,138>>, <<191,239,160,26,18,33,119,226>>, <<191,239,222,127,8,205,220,210>>,
            <<191,239,252,214,172,106,209,132>>, <<191,239,251,2,120,191,5,103>>, <<191,239,217,4,68,174,28,227>>, <<191,239,150,254,64,95,26,100>>,
            <<191,239,53,50,210,217,252,215>>, <<191,238,180,4,87,63,32,14>>, <<191,238,19,244,185,219,157,252>>, <<191,237,85,164,245,126,19,254>>,
            <<191,236,121,212,113,143,72,226>>, <<191,235,129,96,65,145,136,202>>, <<191,234,109,66,70,200,69,243>>, <<191,233,62,144,52,231,175,174>>,
            <<191,231,246,122,122,200,229,91>>, <<191,230,150,75,16,59,211,195>>, <<191,229,31,100,42,42,134,218>>, <<191,227,147,62,214,91,195,1>>,
            <<191,225,243,105,128,59,59,52>>, <<191,224,65,134,96,36,182,235>>, <<191,220,254,147,173,138,80,165>>, <<191,217,92,241,108,113,146,21>>,
            <<191,213,161,204,245,63,79,183>>, <<191,209,208,230,231,229,49,21>>, <<191,203,220,43,139,197,187,50>>, <<191,195,250,132,44,65,231,88>>,
            <<191,184,9,137,218,175,61,0>>, <<191,160,11,189,2,21,174,200>>, <<63,160,11,189,2,21,161,142>>, <<63,184,9,137,218,175,86,69>>,
            <<63,195,250,132,44,65,235,250>>, <<63,203,220,43,139,197,191,198>>, <<63,209,208,230,231,229,47,126>>, <<63,213,161,204,245,63,81,236>>,
            <<63,217,92,241,108,113,144,145>>, <<63,220,254,147,173,138,82,189>>, <<63,224,65,134,96,36,185,166>>, <<63,225,243,105,128,59,60,45>>,
            <<63,227,147,62,214,91,194,89>>, <<63,229,31,100,42,42,134,59>>, <<63,230,150,75,16,59,211,45>>, <<63,231,246,122,122,200,230,34>>,
            <<63,233,62,144,52,231,176,102>>, <<63,234,109,66,70,200,71,189>>, <<63,235,129,96,65,145,136,94>>, <<63,236,121,212,113,143,72,129>>,
            <<63,237,85,164,245,126,20,118>>, <<63,238,19,244,185,219,157,180>>, <<63,238,180,4,87,63,32,99>>, <<63,239,53,50,210,217,252,169>>,
            <<63,239,150,254,64,95,26,230>>, <<63,239,217,4,68,174,28,207>>, <<63,239,251,2,120,191,5,114>>, <<63,239,252,214,172,106,209,124>>,
            <<63,239,222,127,8,205,220,183>>, <<63,239,160,26,18,33,120,2>>, <<63,239,65,230,137,10,217,183>>, <<63,238,196,67,43,126,66,73>>,
            <<63,238,39,174,85,117,212,236>>, <<63,237,108,197,129,219,232,203>>, <<63,236,148,68,172,40,196,111>>, <<63,235,159,5,147,82,228,219>>,
            <<63,234,141,254,222,208,18,195>>, <<63,233,98,67,38,131,130,36>>, <<63,232,28,255,222,146,115,239>>, <<63,230,191,124,40,53,23,253>>,
            <<63,229,75,23,136,180,165,96>>, <<63,227,193,72,135,225,146,185>>, <<63,226,35,155,55,101,109,11>>, <<63,224,115,175,164,107,46,1>>,
            <<63,221,102,112,106,93,130,76>>, <<63,217,199,239,232,48,246,77>>, <<63,214,15,129,148,55,210,40>>, <<63,210,64,227,84,68,131,74>>,
            <<63,204,191,210,189,94,255,251>>, <<63,196,224,244,193,1,77,173>>, <<63,185,218,46,68,26,54,149>>, <<63,163,176,229,182,117,140,171>>,
            <<191,152,204,189,224,26,79,191>>, <<191,182,56,149,127,157,108,135>>, <<191,195,19,209,37,121,99,185>>, <<191,202,248,39,177,193,67,16>>,
            <<191,209,96,175,58,183,127,79>>, <<191,213,51,208,100,119,150,114>>, <<191,216,241,158,150,61,154,160>>, <<191,220,150,86,130,115,150,205>>,
            <<191,224,15,39,11,83,2,236>>, <<191,225,194,252,21,124,76,98>>, <<191,227,100,244,10,66,254,17>>, <<191,228,243,106,139,137,122,254>>,
            <<191,230,108,206,217,78,255,30>>, <<191,231,207,165,100,188,116,81>>, <<191,233,26,137,77,225,6,173>>, <<191,234,76,45,202,158,125,114>>,
            <<191,235,99,95,117,92,76,105>>, <<191,236,95,5,130,48,232,131>>, <<191,237,62,34,217,74,68,5>>, <<191,237,255,215,21,121,137,188>>,
            <<191,238,163,95,101,226,0,171>>, <<191,239,40,23,81,232,44,55>>, <<191,239,141,121,94,156,24,169>>, <<191,239,211,31,148,248,103,212>>,
            <<191,239,248,195,232,111,44,235>>, <<191,239,254,64,125,93,103,212>>, <<191,239,227,143,207,30,72,192>>, <<191,239,168,204,181,151,241,38>>,
            <<191,239,78,50,74,60,28,20>>, <<191,238,212,27,172,151,212,24>>, <<191,238,59,3,166,174,2,240>>, <<191,237,131,132,49,120,255,184>>,
            <<191,236,174,85,218,15,89,188>>, <<191,235,188,79,8,7,140,170>>, <<191,234,174,99,37,213,102,111>>, <<191,233,133,161,171,249,228,112>>,
            <<191,232,67,53,15,251,201,1>>, <<191,230,232,97,152,59,140,139>>, <<191,229,118,132,21,208,129,105>>, <<191,227,239,16,133,183,42,196>>,
            <<191,226,83,144,154,177,166,134>>, <<191,224,165,162,49,82,115,214>>, <<191,221,205,235,95,127,120,224>>, <<191,218,50,152,165,163,148,22>>,
            <<191,214,124,236,212,132,73,54>>, <<191,210,176,163,11,99,11,116>>, <<191,205,163,26,81,106,37,97>>, <<191,197,199,31,229,79,231,170>>,
            <<191,187,170,124,178,139,126,147>>, <<191,167,85,204,237,164,182,191>>, <<63,145,129,175,65,43,141,143>>, <<63,180,103,87,61,65,101,63>>,
            <<63,194,44,222,171,236,64,243>>, <<63,202,19,202,37,168,159,249>>, <<63,208,240,61,193,242,249,177>>, <<63,212,197,141,79,172,186,232>>,
            <<63,216,133,248,202,133,211,57>>, <<63,220,45,186,67,199,212,82>>, <<63,223,185,36,154,251,155,30>>, <<63,225,146,83,152,56,90,115>>,
            <<63,227,54,104,189,141,12,246>>, <<63,228,199,43,63,18,129,123>>, <<63,230,67,8,13,103,173,209>>, <<63,231,168,129,29,147,137,84>>,
            <<63,232,246,46,233,65,99,247>>, <<63,234,42,193,216,87,125,182>>, <<63,235,69,3,146,124,61,185>>, <<63,236,67,216,55,54,159,241>>,
            <<63,237,38,63,123,111,184,125>>, <<63,237,235,85,171,54,115,45>>, <<63,238,146,84,142,194,19,77>>, <<63,239,26,148,49,205,66,102>>,
            <<63,239,131,139,140,129,28,102>>, <<63,239,204,209,13,70,97,130>>, <<63,239,246,27,2,242,47,104>>, <<63,239,255,63,230,227,112,248>>,
            <<63,239,232,54,134,198,133,129>>, <<63,239,177,22,13,213,24,125>>, <<63,239,90,21,237,136,217,179>>, <<63,238,227,141,165,216,144,12>>,
            <<63,238,77,244,109,55,141,152>>, <<63,237,153,224,184,176,15,195>>, <<63,236,200,7,164,145,35,179>>, <<63,235,217,60,62,72,52,178>>,
            <<63,234,206,110,176,29,133,215>>, <<63,233,168,171,79,168,250,91>>, <<63,232,105,25,143,242,61,193>>, <<63,231,16,250,216,75,151,45>>,
            <<63,229,161,169,65,18,78,22>>, <<63,228,28,150,55,153,198,214>>, <<63,226,131,73,10,159,90,235>>, <<63,224,215,93,96,188,153,149>>,
            <<63,222,53,3,52,199,154,113>>, <<63,218,156,234,66,14,90,124>>, <<63,214,234,13,74,59,245,146>>, <<63,211,32,36,153,152,69,32>>,
            <<63,206,133,255,84,2,21,129>>, <<63,198,173,2,155,173,43,194>>, <<63,189,122,111,29,206,120,29>>, <<63,170,250,102,136,244,35,110>>,
            <<191,132,108,204,209,202,235,162>>, <<191,178,149,213,30,237,109,231>>, <<191,193,69,175,191,178,31,167>>, <<191,201,47,21,222,253,103,28>>,
            <<191,208,127,147,243,143,75,155>>, <<191,212,87,5,37,149,79,38>>, <<191,216,26,1,111,78,238,38>>, <<191,219,196,192,77,113,175,10>>,
            <<191,223,83,145,157,188,232,52>>, <<191,225,97,112,170,67,166,128>>, <<191,227,7,157,139,6,70,151>>, <<191,228,154,166,215,238,78,58>>,
            <<191,230,24,247,55,118,252,120>>, <<191,231,129,14,39,123,240,78>>, <<191,232,209,129,127,240,76,54>>, <<191,234,8,254,223,26,238,235>>,
            <<191,235,38,76,253,233,98,191>>, <<191,236,40,76,235,3,63,4>>, <<191,237,13,251,43,97,33,106>>, <<191,237,214,112,191,69,9,35>>,
            <<191,238,128,228,10,141,112,147>>, <<191,239,12,169,159,121,186,102>>, <<191,239,121,52,235,19,210,5>>, <<191,239,198,24,194,145,179,8>>,
            <<191,239,243,7,209,32,153,145>>, <<191,239,255,212,229,171,119,152>>, <<191,239,236,115,32,78,114,39>>, <<191,239,184,245,255,73,175,1>>,
            <<191,239,101,145,75,102,112,13>>, <<191,238,242,152,227,226,52,254>>, <<191,238,96,128,106,20,57,193>>, <<191,237,175,218,205,34,64,60>>,
            <<191,236,225,89,182,57,125,7>>, <<191,235,245,204,213,224,92,36>>, <<191,234,238,33,19,20,209,133>>, <<191,233,203,95,157,9,60,156>>,
            <<191,232,142,172,224,111,147,199>>, <<191,231,57,71,97,94,246,218>>, <<191,229,204,134,122,251,157,124>>, <<191,228,73,217,6,35,40,82>>,
            <<191,226,178,195,232,120,179,168>>, <<191,225,8,224,141,67,202,136>>, <<191,222,155,182,147,87,17,191>>, <<191,219,6,227,91,216,3,12>>,
            <<191,215,86,225,138,110,188,27>>, <<191,211,143,102,140,10,95,233>>, <<191,207,104,126,210,137,203,5>>, <<191,199,146,153,231,137,76,102>>,
            <<191,191,73,255,126,224,27,169>>, <<191,174,158,166,106,183,198,43>>, <<63,103,87,220,204,119,52,72>>, <<63,176,196,21,48,213,227,218>>,
            <<63,192,94,71,97,171,150,50>>, <<63,200,74,13,214,97,100,92>>, <<63,208,14,179,70,63,152,246>>, <<63,211,232,57,85,205,191,233>>,
            <<63,215,173,185,235,172,206,114>>, <<63,219,91,105,252,147,122,236>>, <<63,222,237,150,112,187,152,235>>, <<63,225,48,83,238,52,195,115>>,
            <<63,226,216,147,14,79,122,181>>, <<63,228,109,221,234,43,116,182>>, <<63,229,238,156,227,100,78,232>>, <<63,231,89,77,5,169,31,4>>,
            <<63,232,172,129,139,233,95,122>>, <<63,233,230,229,79,49,239,171>>, <<63,235,7,60,29,201,93,238>>, <<63,236,12,99,249,50,54,51>>,
            <<63,236,245,86,57,211,162,47>>, <<63,237,193,40,151,34,238,34>>, <<63,238,111,14,19,68,84,122>>, <<63,238,254,87,201,54,25,117>>,
            <<63,239,110,117,156,182,124,110>>, <<63,239,190,246,203,51,196,166>>, <<63,239,239,138,93,52,127,81>>, <<63,239,255,255,119,197,243,19>>,
            <<63,239,240,69,141,158,219,15>>, <<63,239,192,108,111,197,3,233>>, <<63,239,112,164,61,165,6,228>>, <<63,239,1,61,52,172,40,116>>,
            <<63,238,114,167,95,149,2,86>>, <<63,237,197,114,37,184,42,194>>, <<63,236,250,75,186,210,26,165>>, <<63,236,18,0,111,207,134,13>>,
            <<63,235,13,121,229,80,45,178>>, <<63,233,237,190,32,174,245,12>>, <<63,232,179,238,132,123,136,150>>, <<63,231,97,70,173,110,153,164>>,
            <<63,229,247,27,52,253,81,20>>, <<63,228,118,216,90,203,123,43>>, <<63,226,226,0,150,84,150,125>>, <<63,225,58,43,18,60,131,60>>,
            <<63,223,2,4,37,157,27,156>>, <<63,219,112,130,146,141,162,147>>, <<63,215,195,104,43,42,17,70>>, <<63,211,254,103,112,179,28,89>>,
            <<63,208,37,74,237,218,209,56>>, <<63,200,119,226,205,79,101,236>>, <<63,192,140,147,232,1,248,161>>, <<63,177,33,64,59,54,173,198>>,
            <<63,113,129,227,168,122,47,197>>, <<191,173,228,58,255,248,143,254>>, <<191,190,237,81,38,240,128,13>>, <<191,199,100,181,5,141,19,73>>,
            <<191,207,59,58,98,218,216,132>>, <<191,211,121,43,80,211,91,42>>, <<191,215,65,35,167,190,8,167>>, <<191,218,241,184,175,130,200,194>>,
            <<191,222,135,52,103,35,201,120>>, <<191,224,254,254,7,98,132,47>>, <<191,226,169,73,227,219,254,230>>, <<191,228,64,209,10,188,103,28>>,
            <<191,229,195,249,158,11,107,146>>, <<191,231,49,62,60,82,144,117>>, <<191,232,135,47,136,58,197,156>>, <<191,233,196,117,154,5,143,243>>,
            <<191,234,231,209,89,110,33,53>>, <<191,235,240,29,190,150,112,235>>, <<191,236,220,80,248,189,186,6>>, <<191,237,171,125,121,151,203,49>>,
            <<191,238,92,210,228,56,103,90>>, <<191,238,239,158,222,162,88,81>>, <<191,239,99,77,197,39,126,54>>, <<191,239,183,107,62,229,114,137>>,
            <<191,239,235,162,178,201,91,25>>, <<191,239,255,191,156,165,78,30>>, <<191,239,243,173,194,1,170,156>>, <<191,239,199,121,70,117,72,120>>,
            <<191,239,123,78,159,112,12,167>>, <<191,239,15,122,103,132,36,197>>, <<191,238,132,105,17,90,228,19>>, <<191,237,218,166,122,162,194,83>>,
            <<191,237,18,221,95,100,40,7>>, <<191,236,45,214,174,74,129,255>>, <<191,235,44,120,190,142,94,185>>, <<191,234,15,198,104,75,183,134>>,
            <<191,232,216,222,0,45,130,25>>, <<191,231,136,248,55,116,68,98>>, <<191,230,33,102,225,121,98,42>>, <<191,228,163,147,159,235,97,198>>,
            <<191,227,16,254,119,24,199,202>>, <<191,225,107,60,75,183,160,211>>, <<191,223,103,234,151,91,133,25>>, <<191,219,217,198,134,231,79,90>>,
            <<191,216,47,159,195,125,128,30>>, <<191,212,109,37,214,100,146,238>>, <<191,208,150,32,191,202,203,248>>, <<191,201,92,218,82,111,90,62>>,
            <<191,193,115,241,6,107,140,245>>, <<191,178,242,244,72,114,216,88>>, <<191,135,87,189,190,150,13,130>>, <<63,170,63,232,52,55,189,13>>,
            <<63,189,29,172,174,217,235,74>>, <<63,198,127,14,103,69,146,157>>, <<63,206,88,166,90,103,218,54>>, <<63,211,9,220,135,255,180,26>>,
            <<63,214,212,64,12,167,4,222>>, <<63,218,135,173,197,195,170,10>>, <<63,222,32,108,213,119,200,114>>, <<63,224,205,111,153,225,230,142>>,
            <<63,226,121,194,168,239,150,29>>, <<63,228,19,128,207,117,144,3>>, <<63,229,153,13,245,58,184,95>>, <<63,231,8,226,80,177,251,113>>,
            <<63,232,97,139,241,3,145,48>>, <<63,233,161,176,50,29,106,170>>, <<63,234,200,13,25,84,152,158>>, <<63,235,211,122,153,57,18,118>>,
            <<63,236,194,235,187,86,57,43>>, <<63,237,149,111,174,180,109,59>>, <<63,238,74,50,186,11,239,122>>, <<63,238,224,127,16,181,64,93>>,
            <<63,239,87,189,137,128,230,181>>, <<63,239,175,118,54,190,191,173>>, <<63,239,231,80,222,219,229,148>>, <<63,239,255,21,85,29,232,154>>,
            <<63,239,246,171,178,34,17,95>>, <<63,239,206,28,107,231,229,20>>, <<63,239,133,144,77,78,182,51>>, <<63,239,29,80,77,14,212,255>>,
            <<63,238,149,197,68,87,162,24>>, <<63,237,239,119,133,92,77,62>>, <<63,237,43,14,82,57,81,210>>, <<63,236,73,79,52,188,153,77>>,
            <<63,235,75,29,55,185,105,21>>, <<63,234,49,120,2,175,237,96>>, <<63,232,253,122,216,174,27,123>>, <<63,231,176,91,123,108,96,92>>,
            <<63,230,75,104,243,196,199,121>>, <<63,228,208,10,64,189,206,4>>, <<63,227,63,188,238,123,225,156>>, <<63,225,156,19,150,132,155,148>>,
            <<63,223,205,104,149,171,33,141>>, <<63,220,66,173,218,204,137,193>>, <<63,216,155,134,235,127,124,41>>, <<63,212,219,160,76,206,18,227>>,
            <<63,209,6,191,103,207,87,140>>, <<63,202,65,125,125,103,130,40>>, <<63,194,91,20,25,50,160,102>>, <<63,180,196,105,80,54,83,79>>,
            <<63,146,247,30,3,77,24,204>>, <<191,166,155,62,27,42,26,33>>, <<191,187,77,167,97,18,182,226>>, <<191,197,153,28,247,82,203,27>>,
            <<191,205,117,173,100,182,41,122>>, <<191,210,154,78,109,131,176,176>>, <<191,214,103,16,132,141,99,212>>, <<191,218,29,74,160,4,75,75>>,
            <<191,221,185,65,17,139,124,194>>, <<191,224,155,169,74,131,219,167>>, <<191,226,73,253,251,156,121,32>>, <<191,227,229,237,207,11,105,130>>,
            <<191,229,109,218,119,177,84,122>>, <<191,230,224,57,201,1,159,154>>, <<191,232,59,151,67,114,37,71>>, <<191,233,126,149,139,30,23,6>>,
            <<191,234,167,239,199,35,70,36>>, <<191,235,182,122,232,88,76,188>>, <<191,236,169,38,214,19,45,239>>, <<191,237,126,255,127,209,202,65>>,
            <<191,238,55,45,210,177,14,213>>, <<191,238,208,248,145,187,206,236>>, <<191,239,75,197,16,55,244,207>>, <<191,239,167,23,205,54,128,2>>,
            <<191,239,226,148,239,201,235,216>>, <<191,239,254,0,163,102,20,189>>, <<191,239,249,63,84,12,173,152>>, <<191,239,212,85,202,9,196,111>>,
            <<191,239,143,105,37,36,110,241>>, <<191,239,42,190,183,72,119,67>>, <<191,238,166,187,190,206,146,201>>, <<191,238,3,229,0,169,70,229>>,
            <<191,237,66,222,66,220,224,145>>, <<191,236,100,105,167,200,199,204>>, <<191,235,105,102,234,231,220,168>>, <<191,234,82,210,127,204,64,238>>,
            <<191,233,33,196,148,56,208,168>>, <<191,231,215,111,246,87,168,172>>, <<191,230,117,32,224,41,55,165>>, <<191,228,252,59,169,98,5,141>>,
            <<191,227,110,59,97,7,107,136>>, <<191,225,204,176,80,51,138,190>>, <<191,224,25,62,103,128,12,166>>, <<191,220,171,55,49,88,251,22>>,
            <<191,217,7,28,60,81,244,115>>, <<191,213,73,213,100,128,193,115>>, <<191,209,119,37,111,90,124,97>>, <<191,203,37,201,85,206,255,198>>,
            <<191,195,65,250,31,157,237,150>>, <<191,182,149,153,70,120,72,190>>, <<191,154,66,30,19,254,42,78>>, <<63,162,246,72,210,178,172,135>>,
            <<63,185,125,71,68,220,185,46>>, <<63,196,178,227,178,117,107,180>>, <<63,204,146,82,116,165,44,209>>, <<63,210,42,130,116,98,232,71>>,
            <<63,213,249,150,122,147,97,6>>, <<63,217,178,144,160,24,58,201>>, <<63,221,81,178,114,128,9,179>>, <<63,224,105,171,190,211,56,3>>,
            <<63,226,25,252,122,193,48,92>>, <<63,227,184,24,161,16,115,191>>, <<63,229,66,95,181,29,79,64>>, <<63,230,183,69,44,122,143,103>>,
            <<63,232,21,81,253,194,142,145>>, <<63,233,91,38,25,199,182,52>>, <<63,234,135,121,205,168,239,111>>, <<63,235,153,31,12,102,20,209>>,
            <<63,236,143,2,158,168,196,204>>, <<63,237,104,45,55,144,25,119>>, <<63,238,35,196,109,104,240,12>>, <<63,238,193,11,149,88,134,35>>,
            <<63,239,63,100,129,28,151,217>>, <<63,239,158,80,30,34,3,198>>, <<63,239,221,110,245,82,30,250>>, <<63,239,252,129,139,22,15,167>>,
            <<63,239,251,104,159,47,170,247>>, <<63,239,218,37,76,39,159,240>>, <<63,239,152,217,6,49,79,153>>, <<63,239,55,197,121,133,112,49>>,
            <<63,238,183,76,72,85,86,82>>, <<63,238,23,238,168,153,77,34>>, <<63,237,90,76,226,28,191,34>>, <<63,236,127,37,173,74,233,206>>,
            <<63,235,135,85,115,94,53,88>>, <<63,234,115,213,112,179,24,15>>, <<63,233,69,186,186,29,127,56>>, <<63,231,254,53,38,60,219,88>>,
            <<63,230,158,142,27,231,15,120>>, <<63,229,40,39,70,221,130,220>>, <<63,227,156,121,52,25,204,146>>, <<63,225,253,17,215,23,88,61>>,
            <<63,224,75,146,249,151,53,200>>, <<63,221,19,97,46,224,214,80>>, <<63,217,114,94,80,39,8,63>>, <<63,213,183,195,174,244,148,228>>,
            <<63,209,231,81,96,154,140,46>>, <<63,204,9,186,228,95,34,43>>, <<63,196,40,160,25,191,80,64>>, <<63,184,102,126,32,22,24,13>>,
            <<63,160,198,99,104,4,53,107>>, <<191,158,162,40,243,94,78,65>>, <<191,183,172,146,98,167,91,0>>, <<191,195,204,101,150,93,1,232>>,
            <<191,203,174,152,126,90,69,162>>, <<191,209,186,122,16,110,156,39>>, <<191,213,139,211,90,210,234,75>>, <<191,217,71,129,40,243,251,141>>,
            <<191,220,233,194,80,191,111,45>>, <<191,224,55,119,157,18,125,179>>, <<191,225,233,190,198,6,159,94>>, <<191,227,138,1,221,243,79,139>>,
            <<191,229,22,158,62,25,180,43>>, <<191,230,142,5,3,82,218,225>>, <<191,231,238,188,159,60,239,66>>, <<191,233,55,98,83,244,101,121>>,
            <<191,234,102,171,152,219,42,16>>, <<191,235,123,103,103,6,237,9>>, <<191,236,116,127,108,8,53,26>>, <<191,237,80,249,33,213,207,151>>,
            <<191,238,15,246,202,194,245,49>>, <<191,238,176,184,80,130,201,196>>, <<191,239,50,156,5,88,233,122>>, <<191,239,149,31,70,180,182,237>>,
            <<191,239,215,223,0,147,224,1>>, <<191,239,250,152,17,39,245,218>>, <<191,239,253,39,140,90,224,23>>, <<191,239,223,138,222,238,66,224>>,
            <<191,239,161,223,209,18,134,255>>, <<191,239,68,100,104,114,229,128>>, <<191,238,199,118,169,212,155,143>>, <<191,238,43,148,58,135,249,58>>,
            <<191,237,113,89,226,10,124,157>>, <<191,236,153,130,236,88,236,124>>, <<191,235,164,232,109,144,35,169>>, <<191,234,148,128,103,154,3,238>>,
            <<191,233,105,92,210,194,8,11>>, <<191,232,36,170,138,42,116,62>>, <<191,230,199,176,29,55,8,119>>, <<191,229,83,204,135,29,220,157>>,
            <<191,227,202,117,205,232,99,185>>, <<191,226,45,55,138,71,206,158>>, <<191,224,125,177,89,183,17,127>>, <<191,221,123,42,120,245,106,207>>,
            <<191,217,221,75,194,69,184,6>>, <<191,214,37,105,190,140,234,44>>, <<191,210,87,65,198,127,8,213>>, <<191,204,237,79,50,253,191,194>>,
            <<191,197,15,3,8,125,183,57>>, <<191,186,55,17,210,230,96,132>>, <<191,164,107,127,251,156,94,61>>, <<63,151,87,90,95,156,246,14>>,
            <<63,181,219,142,195,252,54,10>>, <<63,194,229,165,161,158,70,123>>, <<63,202,202,130,119,54,214,147>>, <<63,209,74,54,182,65,13,6>>,
            <<63,213,29,200,146,89,14,19>>, <<63,216,220,29,158,168,53,171>>, <<63,220,129,114,5,247,226,18>>, <<63,224,5,13,140,57,191,89>>,
            <<63,225,185,69,125,221,210,141>>, <<63,227,91,170,30,252,181,77>>, <<63,228,234,150,164,44,195,59>>, <<63,230,100,121,214,187,226,125>>,
            <<63,231,199,215,168,51,189,100>>, <<63,233,19,74,176,150,183,79>>, <<63,234,69,133,149,213,7,103>>, <<63,235,93,84,91,16,157,90>>,
            <<63,236,89,157,150,94,151,2>>, <<63,237,57,99,139,206,170,242>>, <<63,237,251,197,44,155,229,48>>, <<63,238,159,254,249,134,38,222>>,
            <<63,239,37,107,199,112,167,77>>, <<63,239,139,133,101,127,195,56>>, <<63,239,209,229,36,15,6,51>>, <<63,239,248,68,59,247,177,248>>,
            <<63,239,254,124,21,191,229,70>>, <<63,239,228,134,112,106,202,150>>, <<63,239,170,125,103,194,197,104>>, <<63,239,80,155,90,23,74,195>>,
            <<63,238,215,58,173,136,205,170>>, <<63,238,62,213,117,29,201,206>>, <<63,237,136,4,245,252,94,155>>, <<63,236,179,129,13,67,234,174>>,
            <<63,235,194,31,119,33,208,222>>, <<63,234,180,210,247,219,46,45>>, <<63,233,140,170,103,163,219,156>>, <<63,232,74,207,162,56,75,87>>,
            <<63,230,240,134,91,76,21,160>>, <<63,229,127,42,216,250,176,10>>, <<63,227,248,48,149,129,117,252>>, <<63,226,93,32,201,163,174,158>>,
            <<63,224,175,152,225,47,239,181>>, <<63,221,226,145,182,105,175,37>>, <<63,218,71,227,47,14,113,203>>, <<63,214,146,198,38,157,110,85>>,
            <<63,210,198,245,44,189,136,157>>, <<63,205,208,131,76,198,138,226>>, <<63,197,245,31,237,158,189,0>>, <<63,188,7,78,85,206,102,15>>,
            <<63,168,16,88,165,103,77,183>>, <<191,144,12,62,42,210,202,24>>, <<191,180,10,66,115,106,177,38>>, <<191,193,254,166,211,168,145,191>>,
            <<191,201,230,19,85,206,116,94>>, <<191,208,217,185,219,56,152,97>>, <<191,212,175,119,143,33,42,152>>, <<191,216,112,103,102,93,62,85>>,
            <<191,220,24,194,237,23,117,167>>, <<191,223,164,220,103,232,219,247>>, <<191,225,136,145,67,126,5,153>>, <<191,227,45,17,254,77,130,59>>,
            <<191,228,190,73,121,197,240,120>>, <<191,230,58,164,48,224,115,243>>, <<191,231,160,163,154,2,59,222>>, <<191,232,238,223,167,184,54,190>>,
            <<191,234,36,8,50,213,146,15>>, <<191,235,62,230,76,136,225,72>>, <<191,236,62,93,119,19,196,142>>, <<191,237,33,108,195,234,176,146>>,
            <<191,237,231,47,214,29,10,174>>, <<191,238,142,223,200,1,165,72>>, <<191,239,23,211,243,64,164,195>>, <<191,239,129,130,154,113,169,18>>,
            <<191,239,203,129,115,163,162,172>>, <<191,239,245,134,19,66,232,59>>, <<191,239,255,102,54,242,41,60>>, <<191,239,233,23,240,10,226,196>>,
            <<191,239,178,177,173,154,158,43>>, <<191,239,92,106,37,210,236,179>>, <<191,238,230,152,31,2,209,107>>, <<191,238,81,178,24,80,240,155>>,
            <<191,237,158,77,210,142,74,244>>, <<191,236,205,31,185,153,96,186>>, <<191,235,222,250,46,233,57,48>>, <<191,234,212,204,181,246,192,5>>,
            <<191,233,175,163,3,89,111,159>>, <<191,232,112,163,239,137,75,86>>, <<191,231,25,16,78,85,40,201>>, <<191,229,170,65,172,55,130,41>>,
            <<191,228,37,168,242,206,50,240>>, <<191,226,140,204,245,210,200,175>>, <<191,224,225,72,234,8,130,82>>, <<191,222,73,149,143,86,167,193>>,
            <<191,218,178,35,51,255,190,145>>, <<191,214,255,215,123,110,155,144>>, <<191,211,54,106,31,214,117,89>>, <<191,206,179,84,62,21,138,199>>,
            <<191,198,218,243,203,209,81,152>>, <<191,189,215,45,160,212,118,52>>, <<191,171,180,225,70,231,96,15>>, <<63,129,129,217,45,98,229,6>>,
            <<63,178,56,179,124,116,24,140>>, <<63,193,23,108,44,188,184,202>>, <<63,201,1,78,17,221,10,238>>, <<63,208,105,4,245,114,187,249>>,
            <<63,212,64,225,192,16,48,100>>, <<63,216,4,95,230,78,105,22>>, <<63,219,175,182,98,71,135,246>>, <<63,223,63,52,121,62,90,54>>,
            <<63,225,87,162,184,226,124,117>>, <<63,226,254,58,22,220,177,116>>, <<63,228,145,183,82,60,22,128>>, <<63,230,16,132,156,227,22,218>>,
            <<63,231,121,32,247,10,165,152>>, <<63,232,202,33,178,119,187,150>>, <<63,234,2,51,223,62,125,248>>, <<63,235,32,29,160,164,50,22>>,
            <<63,236,34,191,104,201,38,10>>, <<63,237,9,21,25,221,31,213>>, <<63,237,210,55,11,187,89,126>>, <<63,238,125,90,244,231,13,20>>,
            <<63,239,9,212,181,254,52,237>>, <<63,239,119,23,6,213,213,171>>, <<63,239,196,180,4,145,190,4>>, <<63,239,242,93,160,40,220,110>>,
            <<63,239,255,229,236,230,254,169>>, <<63,239,237,63,78,156,252,91>>, <<63,239,186,124,135,80,232,66>>, <<63,239,103,208,164,96,121,150>>,
            <<63,238,245,142,203,40,170,76>>, <<63,238,100,41,229,102,45,154>>, <<63,237,180,52,45,162,217,14>>, <<63,236,230,94,156,36,60,191>>,
            <<63,235,251,120,52,239,84,6>>, <<63,234,244,109,55,148,82,190>>, <<63,233,210,70,49,147,232,130>>, <<63,232,150,38,244,77,14,107>>,
            <<63,231,65,77,111,126,222,188>>, <<63,229,213,16,113,133,159,129>>, <<63,228,82,222,78,148,173,4>>, <<63,226,188,59,112,72,13,69>>,
            <<63,225,18,192,207,0,13,221>>, <<63,222,176,52,173,31,236,236>>, <<63,219,28,10,111,186,217,182>>, <<63,215,108,156,82,66,204,197>>,
            <<63,211,165,159,45,25,239,80>>, <<63,207,149,191,20,144,26,148>>, <<63,199,192,123,166,183,6,41>>, <<63,191,166,169,173,53,196,130>>,
            <<63,175,89,13,194,168,94,81>>, <<191,87,87,222,89,249,149,147>>, <<191,176,102,231,235,119,3,108>>, <<191,192,47,248,173,226,28,246>>,
            <<191,200,28,53,164,61,14,84>>, <<191,207,240,50,247,143,28,248>>, <<191,211,210,8,148,239,222,27>>, <<191,215,152,8,133,197,63,3>>,
            <<191,219,70,77,194,232,63,115>>, <<191,222,217,36,158,139,76,128>>, <<191,225,38,122,128,200,107,236>>, <<191,226,207,35,4,117,90,48>>,
            <<191,228,100,224,193,203,126,243>>, <<191,229,230,27,166,220,49,35>>, <<191,231,81,80,66,180,153,61>>, <<191,232,165,17,75,7,241,175>>,
            <<191,233,224,9,11,146,148,186>>, <<191,235,0,250,189,196,88,254>>, <<191,236,6,195,199,88,153,77>>, <<191,236,240,92,222,155,123,162>>,
            <<191,237,188,219,19,54,131,2>>, <<191,238,107,112,186,122,36,234>>, <<191,238,251,110,62,54,158,153>>, <<191,239,108,66,205,84,52,252>>,
            <<191,239,189,124,237,121,15,108>>, <<191,239,238,202,237,42,83,162>>, <<191,239,255,251,53,245,166,220>>, <<191,239,240,252,126,80,128,21>>,
            <<191,239,193,221,218,251,24,186>>, <<191,239,114,206,175,213,131,100>>, <<191,239,4,30,128,54,41,94>>, <<191,238,118,60,158,241,158,58>>,
            <<191,237,201,183,190,100,55,85>>, <<191,236,255,61,96,238,2,18>>, <<191,236,23,153,42,113,111,213>>, <<191,235,19,180,19,132,57,104>>,
            <<191,233,244,147,127,32,117,228>>, <<191,232,187,88,51,193,142,209>>, <<191,231,105,61,56,245,103,221>>, <<191,229,255,150,154,133,245,208>>,
            <<191,228,127,208,18,121,205,89>>, <<191,226,235,107,155,67,156,41>>, <<191,225,67,255,235,144,141,91>>, <<191,223,22,109,186,120,19,183>>,
            <<191,219,133,151,130,8,72,50>>, <<191,215,217,19,65,90,165,95>>, <<191,212,20,146,226,172,154,61>>, <<191,208,59,224,111,151,203,208>>,
            <<191,200,165,180,130,238,74,11>>, <<191,192,186,222,58,188,139,205>>, <<191,177,126,104,254,52,100,141>>, <<191,119,87,214,150,123,16,35>>,
            <<63,173,41,203,155,55,235,130>>, <<63,190,144,158,177,187,87,145>>, <<63,199,54,205,6,221,89,119>>, <<63,207,13,241,203,136,217,237>>,
            <<63,211,98,237,126,106,0,229>>, <<63,215,43,98,173,21,37,100>>, <<63,218,220,138,109,140,0,255>>, <<63,222,114,174,43,64,138,120>>,
            <<63,224,245,25,62,172,220,93>>, <<63,226,159,205,99,180,172,217>>, <<63,228,55,198,93,147,248,119>>, <<63,229,187,105,219,216,55,255>>,
            <<63,231,41,50,1,107,86,215>>, <<63,232,127,174,236,173,182,22>>, <<63,233,189,136,41,116,88,179>>, <<63,234,225,126,11,119,49,179>>,
            <<63,235,234,106,239,211,37,195>>, <<63,236,215,68,100,92,101,206>>, <<63,237,167,28,51,152,30,59>>, <<63,238,89,33,84,79,247,114>>,
            <<63,238,236,160,187,206,115,9>>, <<63,239,97,6,17,240,187,133>>, <<63,239,181,220,70,88,182,192>>, <<63,239,234,206,6,41,113,63>>,
            <<63,239,255,166,17,215,87,38>>, <<63,239,244,79,114,181,252,104>>, <<63,239,200,213,144,13,152,101>>, <<63,239,125,100,35,162,253,233>>,
            <<63,239,18,71,13,189,145,171>>, <<63,238,135,234,8,215,137,179>>, <<63,237,222,216,61,69,37,52>>, <<63,237,23,187,181,63,222,179>>,
            <<63,236,51,92,177,226,87,154>>, <<63,235,50,160,225,192,253,14>>, <<63,234,22,138,121,233,245,98>>, <<63,232,224,55,50,52,169,157>>,
            <<63,231,144,223,37,230,25,23>>, <<63,230,41,211,153,202,252,20>>, <<63,228,172,125,169,3,84,39>>, <<63,227,26,92,217,212,205,227>>,
            <<63,225,117,5,155,240,210,32>>, <<63,223,124,63,99,101,64,9>>, <<63,219,238,201,11,220,108,1>>, <<63,216,69,58,223,249,226,114>>,
            <<63,212,131,67,207,140,107,99>>, <<63,208,172,171,87,37,63,128>>, <<63,201,138,155,102,28,69,226>>, <<63,193,162,47,250,193,183,116>>,
            <<63,179,80,16,236,160,239,198>>, <<63,138,66,171,144,103,10,19>>, <<191,169,133,102,97,129,128,245>>, <<191,188,192,230,96,77,225,205>>,
            <<191,198,81,23,52,183,166,63>>, <<191,206,43,73,87,79,43,60>>, <<191,210,243,145,238,3,139,215>>, <<191,214,190,111,197,150,63,226>>,
            <<191,218,114,109,193,242,233,70>>, <<191,222,11,210,116,36,84,148>>, <<191,224,195,127,150,202,138,7>>, <<191,226,112,57,210,7,217,235>>,
            <<191,228,10,104,187,150,233,219>>, <<191,229,144,111,201,213,218,199>>, <<191,231,0,198,184,156,10,15>>, <<191,232,89,251,19,190,127,139>>,
            <<191,233,154,177,171,164,127,145>>, <<191,234,193,167,242,117,71,127>>, <<191,235,205,181,64,127,219,206>>, <<191,236,189,203,254,150,160,24>>,
            <<191,237,144,250,181,50,167,2>>, <<191,238,70,108,255,78,8,100>>, <<191,238,221,108,96,0,254,116>>, <<191,239,85,96,250,10,242,252>>,
            <<191,239,173,210,40,142,229,65>>, <<191,239,230,102,248,105,143,212>>, <<191,239,254,230,129,167,57,231>>, <<191,239,247,56,32,191,78,223>>,
            <<191,239,207,99,143,92,23,217>>, <<191,239,135,144,220,149,184,84>>, <<191,239,32,8,68,168,56,99>>, <<191,238,153,49,232,77,40,229>>,
            <<191,237,243,149,100,1,223,124>>, <<191,237,47,217,71,163,190,105>>, <<191,236,78,194,110,235,147,212>>, <<191,235,81,51,59,112,158,229>>,
            <<191,234,56,42,176,250,83,253>>, <<191,233,4,195,117,5,221,208>>, <<191,231,184,50,178,129,78,195>>, <<191,230,83,198,226,218,104,253>>,
            <<191,228,216,230,125,153,183,98>>, <<191,227,73,14,143,220,77,194>>, <<191,225,165,209,61,22,177,253>>, <<191,223,225,168,85,69,66,125>>,
            <<191,220,87,157,175,92,12,123>>, <<191,216,177,17,198,108,39,253>>, <<191,212,241,176,131,149,116,208>>, <<191,209,29,62,201,207,55,215>>,
            <<191,202,111,45,86,246,195,21>>, <<191,194,137,71,21,85,242,120>>, <<191,181,33,120,159,231,240,225>>, <<191,148,108,138,63,137,150,1>>,
            <<63,165,224,172,70,200,253,133>>, <<63,186,240,206,109,189,132,103>>, <<63,197,107,23,41,198,101,66>>, <<63,205,72,60,140,181,160,118>>,
            <<63,210,131,247,86,23,248,173>>, <<63,214,81,49,57,161,53,234>>, <<63,218,7,249,33,6,22,111>>, <<63,221,164,146,207,77,125,84>>,
            <<63,224,145,174,46,23,198,58>>, <<63,226,64,104,237,170,42,47>>, <<63,227,220,200,114,181,79,160>>, <<63,229,101,45,255,196,42,184>>,
            <<63,230,216,14,238,180,17,59>>, <<63,232,51,246,61,158,193,1>>, <<63,233,119,134,6,0,118,255>>, <<63,234,161,120,220,160,123,21>>,
            <<63,235,176,163,24,218,145,179>>, <<63,236,163,244,1,255,238,51>>, <<63,237,122,118,225,160,157,181>>, <<63,238,51,83,249,169,139,47>>,
            <<63,238,205,209,93,95,149,38>>, <<63,239,73,83,172,93,123,11>>, <<63,239,165,94,174,216,145,146>>, <<63,239,225,149,210,143,19,185>>,
            <<63,239,253,188,135,226,106,121>>, <<63,239,249,182,126,191,200,185>>, <<63,239,213,135,195,25,215,109>>, <<63,239,145,84,184,214,210,79>>,
            <<63,239,45,97,247,55,38,21>>, <<63,238,170,20,3,217,105,231>>, <<63,238,7,238,237,161,8,185>>, <<63,237,71,149,199,229,89,169>>,
            <<63,236,105,202,6,110,155,166>>, <<63,235,111,106,186,229,249,42>>, <<63,234,89,115,180,124,17,148>>, <<63,233,40,252,130,167,200,60>>,
            <<63,231,223,55,91,252,4,245>>, <<63,230,125,111,234,47,46,171>>, <<63,229,5,9,252,138,29,63>>, <<63,227,119,128,34,13,253,207>>,
            <<63,225,214,98,44,185,17,77>>, <<63,224,35,83,159,105,51,155>>, <<63,220,192,20,15,224,254,157>>, <<63,217,28,150,142,9,91,218>>,
            <<63,213,95,215,143,134,166,50>>, <<63,209,141,153,81,45,19,167>>, <<63,203,83,103,93,78,15,188>>, <<63,195,112,32,137,231,198,137>>,
            <<63,182,242,154,12,45,39,29>>, <<63,155,183,122,201,157,31,155>>, <<191,162,59,169,105,38,226,159>>, <<191,185,32,92,225,137,215,157>>,
            <<191,196,132,207,226,250,224,150>>, <<191,204,100,206,94,221,187,226>>, <<191,210,20,31,41,212,89,156>>, <<191,213,227,168,116,138,13,154>>,
            <<191,217,157,45,236,211,98,147>>, <<191,221,60,240,148,31,104,82>>, <<191,224,95,165,170,68,65,158>>, <<191,226,16,91,85,162,194,214>>,
            <<191,227,174,230,26,173,232,128>>, <<191,229,57,165,13,128,194,151>>, <<191,230,175,11,43,31,48,73>>, <<191,232,13,160,232,192,72,148>>,
            <<191,233,84,5,173,128,229,184>>, <<191,234,128,241,53,2,162,102>>, <<191,235,147,52,217,146,167,237>>, <<191,236,137,188,196,139,253,182>>,
            <<191,237,99,145,3,195,139,9>>, <<191,238,31,214,130,230,148,23>>, <<191,238,189,207,231,208,246,144>>, <<191,239,60,222,80,253,137,67>>,
            <<191,239,156,129,245,81,22,154>>, <<191,239,220,90,164,159,60,48>>, <<191,239,252,40,40,103,237,189>>, <<191,239,251,202,132,108,79,190>>,
            <<191,239,219,66,22,217,246,109>>, <<191,239,154,175,151,236,43,230>>, <<191,239,58,83,249,3,164,176>>, <<191,238,186,144,35,85,175,41>>,
            <<191,238,27,228,150,116,149,120>>, <<191,237,94,240,231,19,62,195>>, <<191,236,132,115,30,134,2,17>>, <<191,235,141,70,251,162,15,29>>,
            <<191,234,122,101,21,187,178,126>>, <<191,233,76,225,226,161,196,116>>, <<191,232,5,236,160,145,152,38>>, <<191,230,166,206,37,59,42,232>>,
            <<191,229,48,231,147,8,68,91>>, <<191,227,165,176,245,243,40,29>>, <<191,226,6,183,201,82,12,41>>, <<191,224,85,157,104,19,180,48>>,
            <<191,221,40,42,209,254,129,119>>, <<191,217,135,199,209,58,189,105>>, <<191,213,205,183,133,6,176,116>>, <<191,209,253,185,119,147,73,143>>,
            <<191,204,55,70,130,22,222,221>>, <<191,196,86,185,88,179,4,239>>, <<191,184,195,111,38,126,12,212>>, <<191,161,129,7,146,165,218,49>>,
            <<63,157,44,211,207,75,95,114>>, <<63,183,79,151,196,92,114,119>>, <<63,195,158,68,94,51,75,190>>, <<63,203,129,1,194,44,213,117>>,
            <<63,209,164,10,221,50,142,114>>, <<63,213,117,214,226,155,197,154>>, <<63,217,50,13,136,136,100,20>>, <<63,220,212,237,27,69,42,36>>,
            <<63,224,45,102,177,183,10,206>>, <<63,225,224,17,169,194,184,125>>, <<63,227,128,194,76,27,13,204>>, <<63,229,13,213,131,213,220,60>>,
            <<63,230,133,187,246,69,237,52>>, <<63,231,230,251,148,160,157,170>>, <<63,233,48,49,24,56,26,73>>, <<63,234,96,17,103,204,36,168>>,
            <<63,235,117,106,228,137,201,178>>, <<63,236,111,38,157,107,72,61>>, <<63,237,76,73,103,195,8,122>>, <<63,238,11,244,219,215,68,246>>,
            <<63,238,173,104,52,144,155,136>>, <<63,239,48,1,17,90,99,196>>, <<63,239,147,60,25,113,220,46>>, <<63,239,214,181,127,255,236,235>>,
            <<63,239,250,41,104,120,164,22>>, <<63,239,253,116,42,219,120,202>>, <<63,239,224,146,119,143,176,69>>, <<63,239,163,161,90,184,212,22>>,
            <<63,239,70,222,30,255,223,247>>, <<63,238,202,166,15,238,137,31>>, <<63,238,47,118,28,26,158,65>>, <<63,237,117,234,87,127,224,93>>,
            <<63,236,158,189,94,134,170,3>>, <<63,235,170,199,154,85,89,60>>, <<63,234,154,254,103,41,45,123>>, <<63,233,112,115,29,145,122,235>>,
            <<63,232,44,81,255,133,114,11>>, <<63,230,207,225,10,105,2,107>>, <<63,229,92,126,175,48,107,241>>, <<63,227,211,160,113,236,93,91>>,
            <<63,226,54,209,114,33,12,62>>, <<63,224,135,176,221,98,25,161>>, <<63,221,143,224,155,133,222,110>>, <<63,217,242,164,43,127,20,231>>,
            <<63,214,59,78,246,168,154,219>>, <<63,210,109,157,200,24,182,54>>, <<63,205,26,199,207,116,21,82>>, <<63,197,61,14,130,202,18,28>>,
            <<63,186,147,241,228,229,240,100>>, <<63,165,38,23,137,83,189,119>>, <<191,149,225,243,196,51,164,46>>, <<191,181,126,133,31,244,249,97>>,
            <<191,194,183,119,154,48,208,135>>, <<191,202,156,217,172,66,86,178>>, <<191,209,51,187,228,244,111,117>>, <<191,213,7,189,241,19,116,38>>,
            <<191,216,198,153,88,110,32,170>>, <<191,220,108,137,190,173,91,247>>, <<191,223,245,227,215,24,105,216>>, <<191,225,175,140,138,162,235,80>>,
            <<191,227,82,93,160,112,234,54>>, <<191,228,225,191,244,120,128,244>>, <<191,230,92,33,217,139,160,34>>, <<191,231,192,6,193,199,78,82>>,
            <<191,233,12,8,189,80,157,82>>, <<191,234,62,217,226,82,148,204>>, <<191,235,87,69,156,210,157,34>>, <<191,236,84,49,229,9,241,115>>,
            <<191,237,52,160,91,11,196,165>>, <<191,237,247,175,70,154,245,166>>, <<191,238,156,154,122,46,6,70>>, <<191,239,34,188,24,60,215,120>>,
            <<191,239,137,141,58,17,242,235>>, <<191,239,208,166,119,119,116,125>>, <<191,239,247,192,78,183,56,238>>, <<191,239,254,179,108,133,159,133>>,
            <<191,239,229,120,211,142,161,218>>, <<191,239,172,41,227,125,108,107>>, <<191,239,83,0,63,119,106,196>>, <<191,238,218,85,148,36,112,249>>,
            <<191,238,66,163,61,126,79,130>>, <<191,237,140,129,204,194,134,100>>, <<191,236,184,168,111,0,217,82>>, <<191,235,199,236,52,225,25,156>>,
            <<191,234,187,63,60,89,99,53>>, <<191,233,147,175,189,44,107,162>>, <<191,232,82,102,249,36,181,192>>, <<191,230,248,168,17,29,231,134>>,
            <<191,229,135,206,192,9,57,17>>, <<191,228,1,77,253,51,131,183>>, <<191,226,102,174,135,44,223,111>>, <<191,224,185,141,88,200,250,81>>,
            <<191,221,247,52,19,138,225,93>>, <<191,218,93,42,57,111,195,101>>, <<191,214,168,156,119,240,160,149>>, <<191,210,221,68,206,154,249,149>>,
            <<191,205,253,232,80,192,224,163>>, <<191,198,35,29,10,32,201,95>>, <<191,188,100,28,62,129,233,245>>, <<191,168,202,225,41,161,42,175>>,
            <<63,141,45,149,227,224,72,65>>, <<63,179,173,42,255,20,105,211>>, <<63,193,208,108,150,141,168,198>>, <<63,201,184,89,19,237,242,150>>,
            <<63,208,195,51,182,158,245,171>>, <<63,212,153,95,14,27,143,204>>, <<63,216,90,210,193,228,71,239>>, <<63,220,3,199,217,133,121,158>>,
            <<63,223,144,143,255,37,163,59>>, <<63,225,126,204,153,161,244,49>>, <<63,227,35,184,177,251,76,18>>, <<63,228,181,100,242,6,152,248>>,
            <<63,230,50,61,95,76,215,193>>, <<63,231,152,194,241,196,83,174>>, <<63,232,231,141,21,11,128,77>>, <<63,234,29,75,19,15,60,187>>,
            <<63,235,56,197,102,175,144,105>>, <<63,236,56,222,245,14,162,219>>, <<63,237,28,150,44,78,121,154>>, <<63,237,227,6,6,157,88,22>>,
            <<63,238,139,102,240,140,14,31>>, <<63,239,21,15,145,198,169,193>>, <<63,239,127,117,119,101,170,203>>, <<63,239,202,45,159,44,77,231>>,
            <<63,239,244,236,227,40,12,99>>, <<63,239,255,136,69,68,248,148>>, <<63,239,233,245,26,139,0,16>>, <<63,239,180,73,21,216,142,140>>,
            <<63,239,94,186,50,15,206,53>>, <<63,238,233,158,123,204,115,243>>, <<63,238,85,107,186,216,179,15>>, <<63,237,162,182,251,184,99,184>>,
            <<63,236,210,51,249,193,116,197>>, <<63,235,228,180,106,88,140,45>>, <<63,234,219,39,42,7,110,109>>, <<63,233,182,151,76,65,131,142>>,
            <<63,232,120,43,14,199,232,121>>, <<63,231,33,34,177,187,93,180>>, <<63,229,178,215,53,133,152,197>>, <<63,228,46,184,255,221,207,197>>,
            <<63,226,150,78,105,69,203,222>>, <<63,224,235,50,52,115,199,149>>, <<63,222,94,35,226,104,83,195>>, <<63,218,199,88,152,197,16,9>>,
            <<63,215,21,158,157,88,229,98>>, <<63,211,76,173,23,195,191,175>>, <<63,206,224,165,18,154,45,245>>, <<63,199,8,225,241,149,116,11>>,
            <<63,190,51,232,43,149,108,196>>, <<63,172,111,88,85,66,192,199>>, <<191,125,45,198,105,127,239,230>>, <<191,177,219,143,109,106,96,221>>,
            <<191,192,233,38,83,178,214,47>>, <<191,200,211,130,241,37,123,148>>, <<191,208,82,115,200,117,104,80>>, <<191,212,42,187,168,199,53,56>>,
            <<191,215,238,187,43,92,150,19>>, <<191,219,154,168,200,53,101,250>>, <<191,223,42,211,44,149,99,133>>, <<191,225,77,210,120,226,12,4>>,
            <<191,226,244,212,27,219,198,255>>, <<191,228,136,197,16,5,6,203>>, <<191,230,8,15,18,221,98,100>>, <<191,231,113,48,167,46,88,127>>,
            <<191,232,194,190,152,190,245,67>>, <<191,233,251,101,105,157,187,152>>, <<191,235,25,234,167,145,109,65>>, <<191,236,29,46,40,89,90,42>>,
            <<191,237,4,43,43,126,249,52>>, <<191,237,205,249,96,149,153,135>>, <<191,238,121,205,208,224,31,176>>, <<191,239,6,251,171,114,6,176>>,
            <<191,239,116,244,242,254,47,145>>, <<191,239,195,75,12,164,221,147>>, <<191,239,241,175,47,49,23,165>>, <<191,239,255,242,178,85,159,101>>,
            <<191,239,238,7,61,153,207,232>>, <<191,239,187,254,214,199,41,242>>, <<191,239,106,11,207,201,14,254>>, <<191,238,248,128,148,16,229,68>>,
            <<191,238,103,207,85,177,139,2>>, <<191,237,184,137,154,133,119,72>>, <<191,236,235,95,169,211,11,7>>, <<191,236,1,31,219,2,70,250>>,
            <<191,234,250,181,198,22,39,178>>, <<191,233,217,41,86,186,135,253>>, <<191,232,157,157,194,212,148,52>>, <<191,231,73,80,101,161,10,124>>,
            <<191,229,221,151,128,134,159,46>>, <<191,228,91,224,226,221,186,173>>, <<191,226,197,176,122,7,161,94>>, <<191,225,28,158,203,70,241,193>>,
            <<191,222,196,174,177,196,115,165>>, <<191,219,49,45,232,90,223,198>>, <<191,215,130,83,252,86,46,151>>, <<191,211,187,213,49,13,63,74>>,
            <<191,207,194,251,34,232,184,183>>, <<191,199,238,90,60,251,166,192>>, <<191,192,1,167,210,206,203,55>>, <<191,176,9,184,119,127,45,110>>,
            <<61,35,221,197,188,226,0,187>>, <<63,176,9,184,119,127,65,65>>, <<63,192,1,167,210,206,213,18>>, <<63,199,238,90,60,251,176,130>>,
            <<63,207,194,251,34,232,178,214>>, <<63,211,187,213,49,13,60,103>>, <<63,215,130,83,252,86,51,54>>, <<63,219,49,45,232,90,235,131>>,
            <<63,222,196,174,177,196,112,252>>, <<63,225,28,158,203,70,240,121>>, <<63,226,197,176,122,7,160,36>>, <<63,228,91,224,226,221,188,152>>,
            <<63,229,221,151,128,134,158,19>>, <<63,231,73,80,101,161,9,114>>, <<63,232,157,157,194,212,149,202>>, <<63,233,217,41,86,186,137,116>>,
            <<63,234,250,181,198,22,41,8>>, <<63,236,1,31,219,2,70,62>>, <<63,236,235,95,169,211,12,23>>, <<63,237,184,137,154,133,120,52>>,
            <<63,238,103,207,85,177,139,200>>, <<63,238,248,128,148,16,228,227>>, <<63,239,106,11,207,201,14,180>>, <<63,239,187,254,214,199,42,68>>,
            <<63,239,238,7,61,153,208,18>>, <<63,239,255,242,178,85,159,100>>, <<63,239,241,175,47,49,23,188>>, <<63,239,195,75,12,164,221,194>>,
            <<63,239,116,244,242,254,47,29>>, <<63,239,6,251,171,114,6,21>>, <<63,238,121,205,208,224,32,39>>, <<63,237,205,249,96,149,152,160>>,
            <<63,237,4,43,43,126,248,39>>, <<63,236,29,46,40,89,88,250>>, <<63,235,25,234,167,145,110,16>>, <<63,233,251,101,105,157,188,122>>,
            <<63,232,194,190,152,190,243,176>>, <<63,231,113,48,167,46,86,206>>, <<63,230,8,15,18,221,96,151>>, <<63,228,136,197,16,5,7,245>>,
            <<63,226,244,212,27,219,196,255>>, <<63,225,77,210,120,226,9,237>>, <<63,223,42,211,44,149,102,43>>, <<63,219,154,168,200,53,104,183>>,
            <<63,215,238,187,43,92,152,227>>, <<63,212,42,187,168,199,40,234>>, <<63,208,82,115,200,117,99,130>>, <<63,200,211,130,241,37,129,136>>,
            <<63,192,233,38,83,178,220,50>>, <<63,177,219,143,109,106,77,11>>, <<63,125,45,198,105,126,178,12>>, <<191,172,111,88,85,66,232,115>>,
            <<191,190,51,232,43,149,128,126>>, <<191,199,8,225,241,149,125,208>>, <<191,206,224,165,18,154,55,152>>, <<191,211,76,173,23,195,196,108>>,
            <<191,215,21,158,157,88,226,141>>, <<191,218,199,88,152,197,13,72>>, <<191,222,94,35,226,104,88,34>>, <<191,224,235,50,52,115,198,75>>,
            <<191,226,150,78,105,69,202,162>>, <<191,228,46,184,255,221,206,152>>, <<191,229,178,215,53,133,154,152>>, <<191,231,33,34,177,187,95,107>>,
            <<191,232,120,43,14,199,231,127>>, <<191,233,182,151,76,65,130,167>>, <<191,234,219,39,42,7,111,198>>, <<191,235,228,180,106,88,141,100>>,
            <<191,236,210,51,249,193,117,218>>, <<191,237,162,182,251,184,99,38>>, <<191,238,85,107,186,216,179,217>>, <<191,238,233,158,123,204,116,151>>,
            <<191,239,94,186,50,15,206,179>>, <<191,239,180,73,21,216,142,88>>, <<191,239,233,245,26,138,255,243>>, <<191,239,255,136,69,68,248,155>>,
            <<191,239,244,236,227,40,12,13>>, <<191,239,202,45,159,44,78,19>>, <<191,239,127,117,119,101,171,15>>, <<191,239,21,15,145,198,170,29>>,
            <<191,238,139,102,240,140,13,97>>, <<191,237,227,6,6,157,88,161>>, <<191,237,28,150,44,78,122,59>>, <<191,236,56,222,245,14,161,176>>,
            <<191,235,56,197,102,175,143,26>>, <<191,234,29,75,19,15,59,76>>, <<191,232,231,141,21,11,129,65>>, <<191,231,152,194,241,196,84,180>>,
            <<191,230,50,61,95,76,213,247>>, <<191,228,181,100,242,6,151,19>>, <<191,227,35,184,177,251,74,20>>, <<191,225,126,204,153,161,245,118>>,
            <<191,223,144,143,255,37,158,233>>, <<191,220,3,199,217,133,117,38>>, <<191,216,90,210,193,228,74,189>>, <<191,212,153,95,14,27,146,172>>,
            <<191,208,195,51,182,158,248,153>>, <<191,201,184,89,19,237,217,47>>, <<191,193,208,108,150,141,158,239>>, <<191,179,173,42,255,20,117,236>>,
            <<191,141,45,149,227,224,169,81>>, <<63,168,202,225,41,161,82,95>>, <<63,188,100,28,62,129,253,180>>, <<63,198,35,29,10,32,195,101>>,
            <<63,205,253,232,80,192,218,189>>, <<63,210,221,68,206,154,254,84>>, <<63,214,168,156,119,240,165,58>>, <<63,218,93,42,57,111,199,236>>,
            <<63,221,247,52,19,138,222,175>>, <<63,224,185,141,88,200,249,6>>, <<63,226,102,174,135,44,225,119>>, <<63,228,1,77,253,51,130,136>>,
            <<63,229,135,206,192,9,55,241>>, <<63,230,248,168,17,29,230,119>>, <<63,232,82,102,249,36,183,93>>, <<63,233,147,175,189,44,109,32>>,
            <<63,234,187,63,60,89,98,95>>, <<63,235,199,236,52,225,24,220>>, <<63,236,184,168,111,0,218,106>>, <<63,237,140,129,204,194,135,88>>,
            <<63,238,66,163,61,126,80,81>>, <<63,238,218,85,148,36,113,162>>, <<63,239,83,0,63,119,107,70>>, <<63,239,172,41,227,125,108,198>>,
            <<63,239,229,120,211,142,162,13>>, <<63,239,254,179,108,133,159,126>>, <<63,239,247,192,78,183,57,0>>, <<63,239,208,166,119,119,116,56>>,
            <<63,239,137,141,58,17,241,210>>, <<63,239,34,188,24,60,215,209>>, <<63,238,156,154,122,46,6,183>>, <<63,237,247,175,70,154,246,46>>,
            <<63,237,52,160,91,11,195,161>>, <<63,236,84,49,229,9,242,39>>, <<63,235,87,69,156,210,157,236>>, <<63,234,62,217,226,82,147,96>>,
            <<63,233,12,8,189,80,155,198>>, <<63,231,192,6,193,199,76,168>>, <<63,230,92,33,217,139,161,56>>, <<63,228,225,191,244,120,127,18>>,
            <<63,227,82,93,160,112,232,60>>, <<63,225,175,140,138,162,233,63>>, <<63,223,245,227,215,24,101,139>>, <<63,220,108,137,190,173,94,175>>,
            <<63,216,198,153,88,110,28,22>>, <<63,213,7,189,241,19,111,117>>, <<63,209,51,187,228,244,114,97>>, <<63,202,156,217,172,66,92,161>>,
            <<63,194,183,119,154,48,214,136>>, <<63,181,126,133,31,244,229,149>>, <<63,149,225,243,196,51,84,187>>, <<191,165,38,23,137,83,165,56>>,
            <<191,186,147,241,228,229,228,82>>, <<191,197,61,14,130,202,27,231>>, <<191,205,26,199,207,116,30,254>>, <<191,210,109,157,200,24,179,78>>,
            <<191,214,59,78,246,168,152,2>>, <<191,217,242,164,43,127,25,113>>, <<191,221,143,224,155,133,226,213>>, <<191,224,135,176,221,98,27,193>>,
            <<191,226,54,209,114,33,10,255>>, <<191,227,211,160,113,236,95,78>>, <<191,229,92,126,175,48,109,202>>, <<191,230,207,225,10,105,1,91>>,
            <<191,232,44,81,255,133,113,13>>, <<191,233,112,115,29,145,122,0>>, <<191,234,154,254,103,41,49,21>>, <<191,235,170,199,154,85,90,124>>,
            <<191,236,158,189,94,134,169,85>>, <<191,237,117,234,87,127,223,197>>, <<191,238,47,118,28,26,159,20>>, <<191,238,202,166,15,238,137,204>>,
            <<191,239,70,222,30,255,224,126>>, <<191,239,163,161,90,184,212,117>>, <<191,239,224,146,119,143,176,125>>, <<191,239,253,116,42,219,120,218>>,
            <<191,239,250,41,104,120,163,254>>, <<191,239,214,181,127,255,237,17>>, <<191,239,147,60,25,113,220,109>>, <<191,239,48,1,17,90,99,54>>,
            <<191,238,173,104,52,144,154,211>>, <<191,238,11,244,219,215,69,124>>, <<191,237,76,73,103,195,9,22>>, <<191,236,111,38,157,107,71,26>>,
            <<191,235,117,106,228,137,200,108>>, <<191,234,96,17,103,204,37,132>>, <<191,233,48,49,24,56,27,56>>, <<191,231,230,251,148,160,156,3>>,
            <<191,230,133,187,246,69,235,113>>, <<191,229,13,213,131,213,218,93>>, <<191,227,128,194,76,27,15,0>>, <<191,225,224,17,169,194,182,110>>,
            <<191,224,45,102,177,183,8,169>>, <<191,220,212,237,27,69,37,181>>, <<191,217,50,13,136,136,102,222>>, <<191,213,117,214,226,155,200,118>>,
            <<191,209,164,10,221,50,137,172>>, <<191,203,129,1,194,44,203,194>>, <<191,195,158,68,94,51,81,188>>, <<191,183,79,151,196,92,126,140>>,
            <<191,157,44,211,207,75,143,245>>, <<63,161,129,7,146,166,1,230>>, <<63,184,195,111,38,126,0,192>>, <<63,196,86,185,88,178,254,241>>,
            <<63,204,55,70,130,22,216,243>>, <<63,209,253,185,119,147,78,83>>, <<63,213,205,183,133,6,181,31>>, <<63,217,135,199,209,58,186,161>>,
            <<63,221,40,42,209,254,133,227>>, <<63,224,85,157,104,19,182,83>>, <<63,226,6,183,201,82,14,54>>, <<63,227,165,176,245,243,42,19>>,
            <<63,229,48,231,147,8,67,56>>, <<63,230,166,206,37,59,44,169>>, <<63,232,5,236,160,145,153,202>>, <<63,233,76,225,226,161,195,134>>,
            <<63,234,122,101,21,187,177,164>>, <<63,235,141,70,251,162,14,88>>, <<63,236,132,115,30,134,5,2>>, <<63,237,94,240,231,19,63,191>>,
            <<63,238,27,228,150,116,148,244>>, <<63,238,186,144,35,85,174,189>>, <<63,239,58,83,249,3,165,58>>, <<63,239,154,175,151,236,44,74>>,
            <<63,239,219,66,22,217,246,72>>, <<63,239,251,202,132,108,79,210>>, <<63,239,252,40,40,103,237,169>>, <<63,239,220,90,164,159,59,244>>,
            <<63,239,156,129,245,81,22,55>>, <<63,239,60,222,80,253,137,151>>, <<63,238,189,207,231,208,245,223>>, <<63,238,31,214,130,230,147,65>>,
            <<63,237,99,145,3,195,138,13>>, <<63,236,137,188,196,139,254,102>>, <<63,235,147,52,217,146,168,178>>, <<63,234,128,241,53,2,161,2>>,
            <<63,233,84,5,173,128,228,51>>, <<63,232,13,160,232,192,73,148>>, <<63,230,175,11,43,31,49,91>>, <<63,229,57,165,13,128,192,187>>,
            <<63,227,174,230,26,173,230,139>>, <<63,226,16,91,85,162,192,201>>, <<63,224,95,165,170,68,66,235>>, <<63,221,60,240,148,31,99,231>>,
            <<63,217,157,45,236,211,94,6>>, <<63,213,227,168,116,138,8,239>>, <<63,210,20,31,41,212,92,133>>, <<63,204,100,206,94,221,193,204>>,
            <<63,196,132,207,226,250,214,200>>, <<63,185,32,92,225,137,195,216>>, <<63,162,59,169,105,38,250,224>>, <<191,155,183,122,201,156,239,22>>,
            <<191,182,242,154,12,45,58,230>>, <<191,195,112,32,137,231,208,90>>, <<191,203,83,103,93,78,9,207>>, <<191,209,141,153,81,45,16,188>>,
            <<191,213,95,215,143,134,170,224>>, <<191,217,28,150,142,9,96,108>>, <<191,220,192,20,15,225,3,13>>, <<191,224,35,83,159,105,50,75>>,
            <<191,225,214,98,44,185,19,92>>, <<191,227,119,128,34,13,255,199>>, <<191,229,5,9,252,138,31,30>>, <<191,230,125,111,234,47,48,111>>,
            <<191,231,223,55,91,252,3,243>>, <<191,233,40,252,130,167,201,197>>, <<191,234,89,115,180,124,18,252>>, <<191,235,111,106,186,229,248,99>>,
            <<191,236,105,202,6,110,154,244>>, <<191,237,71,149,199,229,89,12>>, <<191,238,7,238,237,161,10,246>>, <<191,238,170,20,3,217,105,120>>,
            <<191,239,45,97,247,55,37,190>>, <<191,239,145,84,184,214,210,15>>, <<191,239,213,135,195,25,215,174>>, <<191,239,249,182,126,191,200,210>>,
            <<191,239,253,188,135,226,106,130>>, <<191,239,225,149,210,143,19,131>>, <<191,239,165,94,174,216,145,52>>, <<191,239,73,83,172,93,122,134>>,
            <<191,238,205,209,93,95,148,122>>, <<191,238,51,83,249,169,139,175>>, <<191,237,122,118,225,160,156,189>>, <<191,236,163,244,1,255,237,24>>,
            <<191,235,176,163,24,218,146,117>>, <<191,234,161,120,220,160,123,236>>, <<191,233,119,134,6,0,119,234>>, <<191,232,51,246,61,158,191,97>>,
            <<191,230,216,14,238,180,15,125>>, <<191,229,101,45,255,196,43,217>>, <<191,227,220,200,114,181,80,209>>, <<191,226,64,104,237,170,40,37>>,
            <<191,224,145,174,46,23,196,26>>, <<191,221,164,146,207,77,128,4>>, <<191,218,7,249,33,6,25,52>>, <<191,214,81,49,57,161,49,66>>,
            <<191,210,131,247,86,23,243,236>>, <<191,205,72,60,140,181,150,202>>, <<191,197,107,23,41,198,107,61>>, <<191,186,240,206,109,189,144,120>>,
            <<191,165,224,172,70,200,213,211>>, <<63,148,108,138,63,137,229,116>>, <<63,181,33,120,159,231,228,202>>, <<63,194,137,71,21,85,236,119>>,
            <<63,202,111,45,86,246,204,205>>, <<63,209,29,62,201,207,60,160>>, <<63,212,241,176,131,149,113,242>>, <<63,216,177,17,198,108,37,48>>,
            <<63,220,87,157,175,92,16,239>>, <<63,223,225,168,85,69,70,203>>, <<63,225,165,209,61,22,180,16>>, <<63,227,73,14,143,220,76,140>>,
            <<63,228,216,230,125,153,185,68>>, <<63,230,83,198,226,218,106,197>>, <<63,231,184,50,178,129,80,110>>, <<63,233,4,195,117,5,223,93>>,
            <<63,234,56,42,176,250,83,30>>, <<63,235,81,51,59,112,160,48>>, <<63,236,78,194,110,235,148,253>>, <<63,237,47,217,71,163,189,202>>,
            <<63,237,243,149,100,1,222,244>>, <<63,238,153,49,232,77,40,115>>, <<63,239,32,8,68,168,57,229>>, <<63,239,135,144,220,149,184,17>>,
            <<63,239,207,99,143,92,23,174>>, <<63,239,247,56,32,191,78,205>>, <<63,239,254,230,129,167,57,220>>, <<63,239,230,102,248,105,143,162>>,
            <<63,239,173,210,40,142,229,120>>, <<63,239,85,96,250,10,242,123>>, <<63,238,221,108,96,0,253,205>>, <<63,238,70,108,255,78,7,150>>,
            <<63,237,144,250,181,50,166,14>>, <<63,236,189,203,254,150,160,195>>, <<63,235,205,181,64,127,218,148>>, <<63,234,193,167,242,117,70,34>>,
            <<63,233,154,177,171,164,128,122>>, <<63,232,89,251,19,190,128,135>>, <<63,231,0,198,184,156,11,28>>, <<63,229,144,111,201,213,216,241>>,
            <<63,228,10,104,187,150,231,235>>, <<63,226,112,57,210,7,219,40>>, <<63,224,195,127,150,202,139,81>>, <<63,222,11,210,116,36,80,50>>,
            <<63,218,114,109,193,242,228,192>>, <<63,214,190,111,197,150,66,184>>, <<63,210,243,145,238,3,135,25>>, <<63,206,43,73,87,79,33,149>>,
            <<63,198,81,23,52,183,156,120>>, <<63,188,192,230,96,77,206,16>>, <<63,169,133,102,97,129,153,50>>, <<191,138,66,171,144,103,168,254>>,
            <<191,179,80,16,236,161,3,149>>, <<191,193,162,47,250,193,193,74>>, <<191,201,138,155,102,28,63,240>>, <<191,208,172,171,87,37,60,147>>,
            <<191,212,131,67,207,140,112,24>>, <<191,216,69,58,223,249,231,10>>, <<191,219,238,201,11,220,105,71>>, <<191,223,124,63,99,101,61,101>>,
            <<191,225,117,5,155,240,212,53>>, <<191,227,26,92,217,212,207,225>>, <<191,228,172,125,169,3,86,13>>, <<191,230,41,211,153,202,250,252>>,
            <<191,231,144,223,37,230,26,197>>, <<191,232,224,55,50,52,171,45>>, <<191,234,22,138,121,233,246,210>>, <<191,235,50,160,225,192,254,93>>,
            <<191,236,51,92,177,226,86,226>>, <<191,237,23,187,181,63,223,188>>, <<191,237,222,216,61,69,38,24>>, <<191,238,135,234,8,215,137,62>>,
            <<191,239,18,71,13,189,145,79>>, <<191,239,125,100,35,162,254,90>>, <<191,239,200,213,144,13,152,175>>, <<191,239,244,79,114,181,252,83>>,
            <<191,239,255,166,17,215,87,41>>, <<191,239,234,206,6,41,113,91>>, <<191,239,181,220,70,88,182,106>>, <<191,239,97,6,17,240,187,8>>,
            <<191,238,236,160,187,206,115,109>>, <<191,238,89,33,84,79,246,169>>, <<191,237,167,28,51,152,29,76>>, <<191,236,215,68,100,92,100,186>>,
            <<191,235,234,106,239,211,36,140>>, <<191,234,225,126,11,119,50,133>>, <<191,233,189,136,41,116,87,57>>, <<191,232,127,174,236,173,180,125>>,
            <<191,231,41,50,1,107,87,227>>, <<191,229,187,105,219,216,57,28>>, <<191,228,55,198,93,147,249,164>>, <<191,226,159,205,99,180,167,148>>,
            <<191,224,245,25,62,172,221,166>>, <<191,222,114,174,43,64,141,35>>, <<191,218,220,138,109,140,3,192>>, <<191,215,43,98,173,21,32,195>>,
            <<191,211,98,237,126,105,252,42>>, <<191,207,13,241,203,136,223,208>>, <<191,199,54,205,6,221,79,178>>, <<191,190,144,158,177,187,67,216>>,
            <<191,173,41,203,155,55,195,215>>, <<63,119,87,214,150,124,77,254>>, <<63,177,126,104,254,52,88,114>>, <<63,192,186,222,58,188,149,166>>,
            <<63,200,165,180,130,238,83,202>>, <<63,208,59,224,111,151,208,158>>, <<63,212,20,146,226,172,151,92>>, <<63,215,217,19,65,90,162,142>>,
            <<63,219,133,151,130,8,76,174>>, <<63,223,22,109,186,120,24,14>>, <<63,225,67,255,235,144,140,20>>, <<63,226,235,107,155,67,154,239>>,
            <<63,228,127,208,18,121,207,65>>, <<63,229,255,150,154,133,247,157>>, <<63,231,105,61,56,245,102,212>>, <<63,232,187,88,51,193,141,219>>,
            <<63,233,244,147,127,32,119,87>>, <<63,235,19,180,19,132,58,187>>, <<63,236,23,153,42,113,113,5>>, <<63,236,255,61,96,238,1,110>>,
            <<63,237,201,183,190,100,56,61>>, <<63,238,118,60,158,241,158,253>>, <<63,239,4,30,128,54,41,250>>, <<63,239,114,206,175,213,131,28>>,
            <<63,239,193,221,218,251,24,138>>, <<63,239,240,252,126,80,128,60>>, <<63,239,255,251,53,245,166,219>>, <<63,239,238,202,237,42,83,187>>,
            <<63,239,189,124,237,121,15,157>>, <<63,239,108,66,205,84,52,131>>, <<63,238,251,110,62,54,157,250>>, <<63,238,107,112,186,122,36,37>>,
            <<63,237,188,219,19,54,131,146>>, <<63,236,240,92,222,155,122,147>>, <<63,236,6,195,199,88,152,26>>, <<63,235,0,250,189,196,87,169>>,
            <<63,233,224,9,11,146,147,68>>, <<63,232,165,17,75,7,242,167>>, <<63,231,81,80,66,180,151,138>>, <<63,229,230,27,166,220,47,83>>,
            <<63,228,100,224,193,203,128,30>>, <<63,226,207,35,4,117,91,106>>, <<63,225,38,122,128,200,105,211>>, <<63,222,217,36,158,139,65,35>>,
            <<63,219,70,77,194,232,66,49>>, <<63,215,152,8,133,197,65,213>>, <<63,211,210,8,148,239,224,254>>, <<63,207,240,50,247,143,19,89>>,
            <<63,200,28,53,164,61,4,147>>, <<63,192,47,248,173,226,34,251>>, <<63,176,102,231,235,118,239,152>>, <<63,87,87,222,89,244,158,34>>,
            <<191,175,89,13,194,168,133,250>>, <<191,191,166,169,173,53,216,57>>, <<191,199,192,123,166,183,0,51>>, <<191,207,149,191,20,144,36,52>>,
            <<191,211,165,159,45,25,244,10>>, <<191,215,108,156,82,66,201,242>>, <<191,219,28,10,111,186,214,246>>, <<191,222,176,52,173,31,234,67>>,
            <<191,225,18,192,207,0,15,247>>, <<191,226,188,59,112,72,12,10>>, <<191,228,82,222,78,148,171,216>>, <<191,229,213,16,113,133,158,101>>,
            <<191,231,65,77,111,126,224,113>>, <<191,232,150,38,244,77,16,2>>, <<191,233,210,70,49,147,231,156>>, <<191,234,244,109,55,148,81,237>>,
            <<191,235,251,120,52,239,85,59>>, <<191,236,230,94,156,36,61,208>>, <<191,237,180,52,45,162,217,250>>, <<191,238,100,41,229,102,45,32>>,
            <<191,238,245,142,203,40,170,237>>, <<191,239,103,208,164,96,122,16>>, <<191,239,186,124,135,80,232,149>>, <<191,239,237,63,78,156,252,65>>,
            <<191,239,255,229,236,230,254,167>>, <<191,239,242,93,160,40,220,73>>, <<191,239,196,180,4,145,189,184>>, <<191,239,119,23,6,213,213,242>>,
            <<191,239,9,212,181,254,53,76>>, <<191,238,125,90,244,231,12,83>>, <<191,237,210,55,11,187,88,151>>, <<191,237,9,21,25,221,32,120>>,
            <<191,236,34,191,104,201,38,195>>, <<191,235,32,29,160,164,48,197>>, <<191,234,2,51,223,62,124,134>>, <<191,232,202,33,178,119,186,4>>,
            <<191,231,121,32,247,10,163,232>>, <<191,230,16,132,156,227,23,243>>, <<191,228,145,183,82,60,20,153>>, <<191,226,254,58,22,220,175,117>>,
            <<191,225,87,162,184,226,125,188>>, <<191,223,63,52,121,62,92,220>>, <<191,219,175,182,98,71,131,124>>, <<191,216,4,95,230,78,93,17>>,
            <<191,212,64,225,192,16,51,69>>, <<191,208,105,4,245,114,190,231>>, <<191,201,1,78,17,221,16,226>>, <<191,193,23,108,44,188,174,242>>,
            <<191,178,56,179,124,116,4,188>>, <<191,129,129,217,45,99,70,23>>, <<63,171,180,225,70,231,135,187>>, <<63,189,215,45,160,212,137,239>>,
            <<63,198,218,243,203,209,91,94>>, <<63,206,179,84,62,21,132,227>>, <<63,211,54,106,31,214,114,116>>, <<63,214,255,215,123,110,160,50>>,
            <<63,218,178,35,51,255,195,20>>, <<63,222,73,149,143,86,165,21>>, <<63,224,225,72,234,8,129,8>>, <<63,226,140,204,245,210,199,114>>,
            <<63,228,37,168,242,206,52,222>>, <<63,229,170,65,172,55,129,11>>, <<63,231,25,16,78,85,39,188>>, <<63,232,112,163,239,137,74,92>>,
            <<63,233,175,163,3,89,113,26>>, <<63,234,212,204,181,246,193,96>>, <<63,235,222,250,46,233,56,113>>, <<63,236,205,31,185,153,97,207>>,
            <<63,237,158,77,210,142,75,229>>, <<63,238,81,178,24,80,241,103>>, <<63,238,230,152,31,2,210,16>>, <<63,239,92,106,37,210,236,102>>,
            <<63,239,178,177,173,154,158,130>>, <<63,239,233,23,240,10,226,244>>, <<63,239,255,102,54,242,41,68>>, <<63,239,245,134,19,66,232,79>>,
            <<63,239,203,129,115,163,162,215>>, <<63,239,129,130,154,113,168,163>>, <<63,239,23,211,243,64,164,45>>, <<63,238,142,223,200,1,165,187>>,
            <<63,237,231,47,214,29,11,57>>, <<63,237,33,108,195,234,175,139>>, <<63,236,62,93,119,19,195,100>>, <<63,235,62,230,76,136,226,20>>,
            <<63,234,36,8,50,213,146,238>>, <<63,232,238,223,167,184,53,47>>, <<63,231,160,163,154,2,58,50>>, <<63,230,58,164,48,224,114,42>>,
            <<63,228,190,73,121,197,238,148>>, <<63,227,45,17,254,77,128,62>>, <<63,225,136,145,67,126,3,133>>, <<63,223,164,220,103,232,215,166>>,
            <<63,220,24,194,237,23,120,96>>, <<63,216,112,103,102,93,65,34>>, <<63,212,175,119,143,33,37,229>>, <<63,208,217,185,219,56,147,151>>,
            <<63,201,230,19,85,206,122,79>>, <<63,193,254,166,211,168,151,193>>, <<63,180,10,66,115,106,189,63>>, <<63,144,12,62,42,210,122,163>>,
            <<191,168,16,88,165,103,117,104>>, <<191,188,7,78,85,206,89,255>>, <<191,197,245,31,237,158,198,201>>, <<191,205,208,131,76,198,148,139>>,
            <<191,210,198,245,44,189,141,92>>, <<191,214,146,198,38,157,107,127>>, <<191,218,71,227,47,14,111,7>>, <<191,221,226,145,182,105,179,137>>,
            <<191,224,175,152,225,47,241,212>>, <<191,226,93,32,201,163,173,96>>, <<191,227,248,48,149,129,116,204>>, <<191,229,127,42,216,250,177,225>>,
            <<191,230,240,134,91,76,26,37>>, <<191,232,74,207,162,56,74,90>>, <<191,233,140,170,103,163,218,178>>, <<191,234,180,210,247,219,45,87>>,
            <<191,235,194,31,119,33,210,26>>, <<191,236,179,129,13,67,235,199>>, <<191,237,136,4,245,252,94,5>>, <<191,238,62,213,117,29,202,157>>,
            <<191,238,215,58,173,136,206,84>>, <<191,239,80,155,90,23,75,70>>, <<191,239,170,125,103,194,197,195>>, <<191,239,228,134,112,106,202,119>>,
            <<191,239,254,124,21,191,229,82>>, <<191,239,248,68,59,247,177,220>>, <<191,239,209,229,36,15,5,239>>, <<191,239,139,133,101,127,195,121>>,
            <<191,239,37,107,199,112,167,166>>, <<191,238,159,254,249,134,38,38>>, <<191,237,251,197,44,155,229,184>>, <<191,237,57,99,139,206,171,145>>,
            <<191,236,89,157,150,94,151,182>>, <<191,235,93,84,91,16,153,254>>, <<191,234,69,133,149,213,5,252>>, <<191,233,19,74,176,150,184,64>>,
            <<191,231,199,215,168,51,190,104>>, <<191,230,100,121,214,187,224,183>>, <<191,228,234,150,164,44,193,90>>, <<191,227,91,170,30,252,179,83>>,
            <<191,225,185,69,125,221,211,209>>, <<191,224,5,13,140,57,189,51>>, <<191,220,129,114,5,247,221,160>>, <<191,216,220,29,158,168,49,23>>,
            <<191,213,29,200,146,89,16,240>>, <<191,209,74,54,182,65,15,242>>, <<191,202,202,130,119,54,204,220>>, <<191,194,229,165,161,158,60,168>>,
            <<191,181,219,142,195,252,66,33>>, <<191,151,87,90,95,157,38,147>>, <<63,164,107,127,251,156,69,254>>, <<63,186,55,17,210,230,116,72>>,
            <<63,197,15,3,8,125,177,62>>, <<63,204,237,79,50,253,185,217>>, <<63,210,87,65,198,127,13,151>>, <<63,214,37,105,190,140,238,213>>,
            <<63,217,221,75,194,69,188,145>>, <<63,221,123,42,120,245,111,55>>, <<63,224,125,177,89,183,19,160>>, <<63,226,45,55,138,71,208,169>>,
            <<63,227,202,117,205,232,101,172>>, <<63,229,83,204,135,29,219,124>>, <<63,230,199,176,29,55,7,102>>, <<63,232,36,170,138,42,117,223>>,
            <<63,233,105,92,210,194,11,252>>, <<63,234,148,128,103,154,3,22>>, <<63,235,164,232,109,144,34,230>>, <<63,236,153,130,236,88,235,206>>,
            <<63,237,113,89,226,10,125,150>>, <<63,238,43,148,58,135,250,14>>, <<63,238,199,118,169,212,155,37>>, <<63,239,68,100,104,114,230,7>>,
            <<63,239,161,223,209,18,135,95>>, <<63,239,223,138,222,238,67,24>>, <<63,239,253,39,140,90,224,12>>, <<63,239,250,152,17,39,245,232>>,
            <<63,239,215,223,0,147,223,194>>, <<63,239,149,31,70,180,182,135>>, <<63,239,50,156,5,88,232,236>>, <<63,238,176,184,80,130,202,50>>,
            <<63,238,15,246,202,194,244,88>>, <<63,237,80,249,33,213,206,152>>, <<63,236,116,127,108,8,53,204>>, <<63,235,123,103,103,6,237,208>>,
            <<63,234,102,171,152,219,42,235>>, <<63,233,55,98,83,244,99,241>>, <<63,231,238,188,159,60,237,156>>, <<63,230,142,5,3,82,219,245>>,
            <<63,229,22,158,62,25,181,79>>, <<63,227,138,1,221,243,77,148>>, <<63,225,233,190,198,6,157,80>>, <<63,224,55,119,157,18,123,143>>,
            <<63,220,233,194,80,191,113,226>>, <<63,217,71,129,40,243,246,253>>, <<63,213,139,211,90,210,229,157>>, <<63,209,186,122,16,110,151,97>>,
            <<63,203,174,152,126,90,75,142>>, <<63,195,204,101,150,93,7,231>>, <<63,183,172,146,98,167,71,56>>, <<63,158,162,40,243,94,126,197>>,
            <<191,160,198,99,104,4,29,42>>, <<191,184,102,126,32,22,11,249>>, <<191,196,40,160,25,191,105,220>>, <<191,204,9,186,228,95,36,14>>,
            <<191,209,231,81,96,154,141,28>>, <<191,213,183,195,174,244,149,204>>, <<191,217,114,94,80,39,12,206>>, <<191,221,19,97,46,224,215,45>>,
            <<191,224,75,146,249,151,54,51>>, <<191,225,253,17,215,23,90,75>>, <<191,227,156,121,52,25,206,136>>, <<191,229,40,39,70,221,132,184>>,
            <<191,230,158,142,27,231,15,208>>, <<191,231,254,53,38,60,219,170>>, <<191,233,69,186,186,29,126,73>>, <<191,234,115,213,112,179,25,116>>,
            <<191,235,135,85,115,94,55,161>>, <<191,236,127,37,173,74,234,6>>, <<191,237,90,76,226,28,190,136>>, <<191,238,23,238,168,153,76,158>>,
            <<191,238,183,76,72,85,86,117>>, <<191,239,55,197,121,133,112,76>>, <<191,239,152,217,6,49,79,172>>, <<191,239,218,37,76,39,160,45>>,
            <<191,239,251,104,159,47,171,13>>, <<191,239,252,129,139,22,15,164>>, <<191,239,221,110,245,82,30,238>>, <<191,239,158,80,30,34,4,2>>,
            <<191,239,63,100,129,28,151,80>>, <<191,238,193,11,149,88,134,1>>, <<191,238,35,196,109,104,239,227>>, <<191,237,104,45,55,144,26,16>>,
            <<191,236,143,2,158,168,195,173>>, <<191,235,153,31,12,102,19,144>>, <<191,234,135,121,205,168,239,42>>, <<191,233,91,38,25,199,181,233>>,
            <<191,232,21,81,253,194,143,145>>, <<191,230,183,69,44,122,143,16>>, <<191,229,66,95,181,29,78,227>>, <<191,227,184,24,161,16,115,93>>,
            <<191,226,25,252,122,193,49,156>>, <<191,224,105,171,190,211,53,225>>, <<191,221,81,178,114,128,8,215>>, <<191,217,178,144,160,24,57,231>>,
            <<191,213,249,150,122,147,99,224>>, <<191,210,42,130,116,98,227,131>>, <<191,204,146,82,116,165,35,34>>, <<191,196,178,227,178,117,90,2>>,
            <<191,185,125,71,68,220,197,65>>, <<191,162,246,72,210,178,196,200>>, <<63,154,66,30,19,254,121,190>>, <<63,182,149,153,70,120,76,152>>,
            <<63,195,65,250,31,157,239,127>>, <<63,203,37,201,85,206,249,216>>, <<63,209,119,37,111,90,133,2>>, <<63,213,73,213,100,128,194,92>>,
            <<63,217,7,28,60,81,245,87>>, <<63,220,171,55,49,88,251,243>>, <<63,224,25,62,103,128,14,204>>, <<63,225,204,176,80,51,139,37>>,
            <<63,227,110,59,97,7,107,234>>, <<63,228,252,59,169,98,7,109>>, <<63,230,117,32,224,41,57,106>>, <<63,231,215,111,246,87,170,84>>,
            <<63,233,33,196,148,56,208,245>>, <<63,234,82,210,127,204,64,17>>, <<63,235,105,102,234,231,219,224>>, <<63,236,100,105,167,200,200,241>>,
            <<63,237,66,222,66,220,226,98>>, <<63,238,3,229,0,169,71,16>>, <<63,238,166,187,190,206,146,90>>, <<63,239,42,190,183,72,118,235>>,
            <<63,239,143,105,37,36,111,5>>, <<63,239,212,85,202,9,196,124>>, <<63,239,249,63,84,12,173,157>>, <<63,239,254,0,163,102,20,175>>,
            <<63,239,226,148,239,201,235,206>>, <<63,239,167,23,205,54,127,240>>, <<63,239,75,197,16,55,244,181>>, <<63,238,208,248,145,187,206,65>>,
            <<63,238,55,45,210,177,14,4>>, <<63,237,126,255,127,209,202,17>>, <<63,236,169,38,214,19,45,184>>, <<63,235,182,122,232,88,77,126>>,
            <<63,234,167,239,199,35,68,196>>, <<63,233,126,149,139,30,21,134>>, <<63,232,59,151,67,114,36,246>>, <<63,230,224,57,201,1,160,169>>,
            <<63,229,109,218,119,177,85,154>>, <<63,227,229,237,207,11,105,33>>, <<63,226,73,253,251,156,120,186>>, <<63,224,155,169,74,131,219,61>>,
            <<63,221,185,65,17,139,120,92>>, <<63,218,29,74,160,4,70,195>>, <<63,214,103,16,132,141,98,237>>, <<63,210,154,78,109,131,175,196>>,
            <<63,205,117,173,100,182,47,98>>, <<63,197,153,28,247,82,193,81>>, <<63,187,77,167,97,18,179,10>>, <<63,166,155,62,27,41,210,120>>,
            <<191,146,247,30,3,76,232,69>>, <<191,180,196,105,80,54,103,28>>, <<191,194,91,20,25,50,170,59>>, <<191,202,65,125,125,103,132,12>>,
            <<191,209,6,191,103,207,88,122>>, <<191,212,219,160,76,206,16,5>>, <<191,216,155,134,235,127,132,112>>, <<191,220,66,173,218,204,138,159>>,
            <<191,223,205,104,149,171,34,99>>, <<191,225,156,19,150,132,154,80>>, <<191,227,63,188,238,123,227,151>>, <<191,228,208,10,64,189,206,98>>,
            <<191,230,75,104,243,196,199,210>>, <<191,231,176,91,123,108,98,7>>, <<191,232,253,122,216,174,29,8>>, <<191,234,49,120,2,175,238,205>>,
            <<191,235,75,29,55,185,105,85>>, <<191,236,73,79,52,188,152,152>>, <<191,237,43,14,82,57,81,50>>, <<191,237,239,119,133,92,78,31>>,
            <<191,238,149,197,68,87,162,60>>, <<191,239,29,80,77,14,213,28>>, <<191,239,133,144,77,78,181,240>>, <<191,239,206,28,107,231,229,90>>,
            <<191,239,246,171,178,34,17,101>>, <<191,239,255,21,85,29,232,152>>, <<191,239,231,80,222,219,229,138>>, <<191,239,175,118,54,190,191,84>>,
            <<191,239,87,189,137,128,230,156>>, <<191,238,224,127,16,181,64,61>>, <<191,238,74,50,186,11,239,82>>, <<191,237,149,111,174,180,108,73>>,
            <<191,236,194,235,187,86,56,20>>, <<191,235,211,122,153,57,18,57>>, <<191,234,200,13,25,84,152,90>>, <<191,233,161,176,50,29,107,146>>,
            <<191,232,97,139,241,3,143,148>>, <<191,231,8,226,80,177,248,85>>, <<191,229,153,13,245,58,184,3>>, <<191,228,19,128,207,117,145,49>>,
            <<191,226,121,194,168,239,151,90>>, <<191,224,205,111,153,225,230,36>>, <<191,222,32,108,213,119,199,152>>, <<191,218,135,173,197,195,169,41>>,
            <<191,214,212,64,12,167,0,58>>, <<191,211,9,220,135,255,175,92>>, <<191,206,88,166,90,103,216,85>>, <<191,198,127,14,103,69,144,182>>,
            <<191,189,29,172,174,217,215,141>>, <<191,170,63,232,52,55,149,95>>, <<63,135,87,189,190,150,44,112>>, <<63,178,242,244,72,114,252,29>>,
            <<63,193,115,241,6,107,134,243>>, <<63,201,92,218,82,111,99,250>>, <<63,208,150,32,191,202,208,196>>, <<63,212,109,37,214,100,147,217>>,
            <<63,216,47,159,195,125,129,3>>, <<63,219,217,198,134,231,76,159>>, <<63,223,103,234,151,91,140,233>>, <<63,225,107,60,75,183,161,59>>,
            <<63,227,16,254,119,24,200,46>>, <<63,228,163,147,159,235,96,158>>, <<63,230,33,102,225,121,99,246>>, <<63,231,136,248,55,116,68,182>>,
            <<63,232,216,222,0,45,130,103>>, <<63,234,15,198,104,75,182,165>>, <<63,235,44,120,190,142,96,8>>, <<63,236,45,214,174,74,131,45>>,
            <<63,237,18,221,95,100,40,59>>, <<63,237,218,166,122,162,193,199>>, <<63,238,132,105,17,90,228,210>>, <<63,239,15,122,103,132,37,94>>,
            <<63,239,123,78,159,112,12,189>>, <<63,239,199,121,70,117,72,135>>, <<63,239,243,173,194,1,170,134>>, <<63,239,255,191,156,165,78,25>>,
            <<63,239,235,162,178,201,91,16>>, <<63,239,183,107,62,229,114,121>>, <<63,239,99,77,197,39,126,30>>, <<63,238,239,158,222,162,87,174>>,
            <<63,238,92,210,228,56,103,51>>, <<63,237,171,125,121,151,203,2>>, <<63,236,220,80,248,189,184,243>>, <<63,235,240,29,190,150,111,181>>,
            <<63,234,231,209,89,110,31,220>>, <<63,233,196,117,154,5,143,170>>, <<63,232,135,47,136,58,198,149>>, <<63,231,49,62,60,82,145,128>>,
            <<63,229,195,249,158,11,105,192>>, <<63,228,64,209,10,188,99,163>>, <<63,226,169,73,227,219,254,130>>, <<63,224,254,254,7,98,133,120>>,
            <<63,222,135,52,103,35,197,26>>, <<63,218,241,184,175,130,199,225>>, <<63,215,65,35,167,190,7,193>>, <<63,211,121,43,80,211,90,62>>,
            <<63,207,59,58,98,218,206,226>>, <<63,199,100,181,5,141,17,98>>, <<63,190,237,81,38,240,124,54>>, <<63,173,228,58,255,248,136,70>>,
            <<191,113,129,227,168,123,109,161>>, <<191,177,33,64,59,54,193,152>>, <<191,192,140,147,232,1,250,140>>, <<191,200,119,226,205,79,119,134>>,
            <<191,208,37,74,237,218,206,73>>, <<191,211,254,103,112,179,33,17>>, <<191,215,195,104,43,42,21,227>>, <<191,219,112,130,146,141,163,114>>,
            <<191,223,2,4,37,157,24,245>>, <<191,225,58,43,18,60,129,244>>, <<191,226,226,0,150,84,150,225>>, <<191,228,118,216,90,203,123,138>>,
            <<191,229,247,27,52,253,81,110>>, <<191,231,97,70,173,110,152,154>>, <<191,232,179,238,132,123,138,42>>, <<191,233,237,190,32,174,245,84>>,
            <<191,235,13,121,229,80,45,244>>, <<191,236,18,0,111,207,133,82>>, <<191,236,250,75,186,210,27,179>>, <<191,237,197,114,37,184,42,239>>,
            <<191,238,114,167,95,149,3,183>>, <<191,239,1,61,52,172,40,20>>, <<191,239,112,164,61,165,7,91>>, <<191,239,192,108,111,197,4,56>>,
            <<191,239,240,69,141,158,219,23>>, <<191,239,255,255,119,197,243,19>>, <<191,239,239,138,93,52,127,106>>, <<191,239,190,246,203,51,196,21>>,
            <<191,239,110,117,156,182,124,87>>, <<191,238,254,87,201,54,25,86>>, <<191,238,111,14,19,68,84,242>>, <<191,237,193,40,151,34,237,56>>,
            <<191,236,245,86,57,211,161,250>>, <<191,236,12,99,249,50,53,248>>, <<191,235,7,60,29,201,92,154>>, <<191,233,230,229,79,49,238,53>>,
            <<191,232,172,129,139,233,93,229>>, <<191,231,89,77,5,169,30,175>>, <<191,229,238,156,227,100,80,3>>, <<191,228,109,221,234,43,117,225>>,
            <<191,226,216,147,14,79,120,180>>, <<191,225,48,83,238,52,191,171>>, <<191,222,237,150,112,187,152,18>>, <<191,219,91,105,252,147,125,170>>,
            <<191,215,173,185,235,172,201,213>>, <<191,211,232,57,85,205,190,254>>, <<191,208,14,179,70,63,152,7>>, <<191,200,74,13,214,97,98,118>>,
            <<191,192,94,71,97,171,140,88>>, <<191,176,196,21,48,213,223,255>>, <<191,103,87,220,204,118,184,143>>, <<63,174,158,166,106,183,205,227>>,
            <<63,191,73,255,126,224,47,96>>, <<63,199,146,153,231,137,86,42>>, <<63,207,104,126,210,137,204,229>>, <<63,211,143,102,140,10,93,5>>,
            <<63,215,86,225,138,110,185,71>>, <<63,219,6,227,91,216,7,141>>, <<63,222,155,182,147,87,22,28>>, <<63,225,8,224,141,67,202,241>>,
            <<63,226,178,195,232,120,178,109>>, <<63,228,73,217,6,35,39,38>>, <<63,229,204,134,122,251,157,215>>, <<63,231,57,71,97,94,247,47>>,
            <<63,232,142,172,224,111,148,23>>, <<63,233,203,95,157,9,62,20>>, <<63,234,238,33,19,20,209,200>>, <<63,235,245,204,213,224,92,96>>,
            <<63,236,225,89,182,57,125,60>>, <<63,237,175,218,205,34,65,41>>, <<63,238,96,128,106,20,58,137>>, <<63,238,242,152,227,226,53,30>>,
            <<63,239,101,145,75,102,112,235>>, <<63,239,184,245,255,73,174,206>>, <<63,239,236,115,32,78,114,83>>, <<63,239,255,212,229,171,119,156>>,
            <<63,239,243,7,209,32,153,138>>, <<63,239,198,24,194,145,179,55>>, <<63,239,121,52,235,19,210,76>>, <<63,239,12,169,159,121,185,80>>,
            <<63,238,128,228,10,141,112,109>>, <<63,237,214,112,191,69,8,246>>, <<63,237,13,251,43,97,34,13>>, <<63,236,40,76,235,3,61,214>>,
            <<63,235,38,76,253,233,98,126>>, <<63,234,8,254,223,26,238,163>>, <<63,232,209,129,127,240,74,164>>, <<63,231,129,14,39,123,238,159>>,
            <<63,230,24,247,55,118,252,30>>, <<63,228,154,166,215,238,77,220>>, <<63,227,7,157,139,6,71,207>>, <<63,225,97,112,170,67,164,107>>,
            <<63,223,83,145,157,188,227,224>>, <<63,219,196,192,77,113,174,43>>, <<63,216,26,1,111,78,237,64>>, <<63,212,87,5,37,149,82,6>>,
            <<63,208,127,147,243,143,70,206>>, <<63,201,47,21,222,253,101,55>>, <<63,193,69,175,191,178,29,189>>, <<63,178,149,213,30,237,122,1>>,
            <<63,132,108,204,209,202,76,181>>, <<191,170,250,102,136,244,43,38>>, <<191,189,122,111,29,206,123,244>>, <<191,198,173,2,155,173,45,169>>,
            <<191,206,133,255,84,2,31,38>>, <<191,211,32,36,153,152,73,221>>, <<191,214,234,13,74,59,246,121>>, <<191,218,156,234,66,14,87,186>>,
            <<191,222,53,3,52,199,151,196>>, <<191,224,215,93,96,188,155,178>>, <<191,226,131,73,10,159,94,147>>, <<191,228,28,150,55,153,199,54>>,
            <<191,229,161,169,65,18,76,247>>, <<191,231,16,250,216,75,152,230>>, <<191,232,105,25,143,242,62,17>>, <<191,233,168,171,79,168,250,164>>,
            <<191,234,206,110,176,29,134,27>>, <<191,235,217,60,62,72,53,235>>, <<191,236,200,7,164,145,35,233>>, <<191,237,153,224,184,176,15,242>>,
            <<191,238,77,244,109,55,141,192>>, <<191,238,227,141,165,216,144,178>>, <<191,239,90,21,237,136,218,50>>, <<191,239,177,22,13,213,24,142>>,
            <<191,239,232,54,134,198,133,217>>, <<191,239,255,63,230,227,112,243>>, <<191,239,246,27,2,242,47,73>>, <<191,239,204,209,13,70,97,59>>,
            <<191,239,131,139,140,129,28,81>>, <<191,239,26,148,49,205,66,193>>, <<191,238,146,84,142,194,19,191>>, <<191,237,235,85,171,54,113,150>>,
            <<191,237,38,63,123,111,184,74>>, <<191,236,67,216,55,54,159,183>>, <<191,235,69,3,146,124,62,132>>, <<191,234,42,193,216,87,124,72>>,
            <<191,232,246,46,233,65,99,170>>, <<191,231,168,129,29,147,137,1>>, <<191,230,67,8,13,103,172,9>>, <<191,228,199,43,63,18,127,151>>,
            <<191,227,54,104,189,141,12,147>>, <<191,225,146,83,152,56,90,12>>, <<191,223,185,36,154,251,157,192>>, <<191,220,45,186,67,199,207,220>>,
            <<191,216,133,248,202,133,206,163>>, <<191,212,197,141,79,172,185,253>>, <<191,208,240,61,193,242,248,194>>, <<191,202,19,202,37,168,165,234>>,
            <<191,194,44,222,171,236,55,30>>, <<191,180,103,87,61,65,97,101>>, <<191,145,129,175,65,43,126,25>>, <<63,167,85,204,237,164,158,129>>,
            <<63,187,170,124,178,139,146,83>>, <<63,197,199,31,229,79,233,146>>, <<63,205,163,26,81,106,39,66>>, <<63,210,176,163,11,99,16,52>>,
            <<63,214,124,236,212,132,77,220>>, <<63,218,50,152,165,163,152,158>>, <<63,221,205,235,95,127,121,187>>, <<63,224,165,162,49,82,114,139>>,
            <<63,226,83,144,154,177,168,143>>, <<63,227,239,16,133,183,44,182>>, <<63,229,118,132,21,208,132,188>>, <<63,230,232,97,152,59,140,225>>,
            <<63,232,67,53,15,251,200,4>>, <<63,233,133,161,171,249,229,240>>, <<63,234,174,99,37,213,102,179>>, <<63,235,188,79,8,7,140,231>>,
            <<63,236,174,85,218,15,89,243>>, <<63,237,131,132,49,121,0,173>>, <<63,238,59,3,166,174,3,24>>, <<63,238,212,27,172,151,212,57>>,
            <<63,239,78,50,74,60,28,46>>, <<63,239,168,204,181,151,241,130>>, <<63,239,227,143,207,30,72,245>>, <<63,239,254,64,125,93,103,214>>,
            <<63,239,248,195,232,111,44,208>>, <<63,239,211,31,148,248,103,252>>, <<63,239,141,121,94,156,24,63>>, <<63,239,40,23,81,232,43,166>>,
            <<63,238,163,95,101,226,0,135>>, <<63,237,255,215,21,121,138,67>>, <<63,237,62,34,217,74,67,3>>, <<63,236,95,5,130,48,232,74>>,
            <<63,235,99,95,117,92,76,41>>, <<63,234,76,45,202,158,125,44>>, <<63,233,26,137,77,225,7,157>>, <<63,231,207,165,100,188,115,254>>,
            <<63,230,108,206,217,78,254,198>>, <<63,228,243,106,139,137,122,161>>, <<63,227,100,244,10,66,252,23>>, <<63,225,194,252,21,124,74,81>>,
            <<63,224,15,39,11,83,2,129>>, <<63,220,150,86,130,115,149,240>>, <<63,216,241,158,150,61,157,108>>, <<63,213,51,208,100,119,145,195>>,
            <<63,209,96,175,58,183,122,135>>, <<63,202,248,39,177,193,65,44>>, <<63,195,19,209,37,121,105,185>>, <<63,182,56,149,127,157,120,158>>,
            <<63,152,204,189,224,25,192,83>>, <<191,163,176,229,182,117,148,102>>, <<191,185,218,46,68,26,58,110>>, <<191,196,224,244,193,1,71,177>>,
            <<191,204,191,210,189,95,9,169>>, <<191,210,64,227,84,68,132,55>>, <<191,214,15,129,148,55,211,16>>, <<191,217,199,239,232,48,250,216>>,
            <<191,221,102,112,106,93,134,182>>, <<191,224,115,175,164,107,46,107>>, <<191,226,35,155,55,101,109,113>>, <<191,227,193,72,135,225,145,135>>,
            <<191,229,75,23,136,180,167,59>>, <<191,230,191,124,40,53,25,189>>, <<191,232,28,255,222,146,118,226>>, <<191,233,98,67,38,131,130,112>>,
            <<191,234,141,254,222,208,17,235>>, <<191,235,159,5,147,82,230,28>>, <<191,236,148,68,172,40,196,167>>, <<191,237,108,197,129,219,232,251>>,
            <<191,238,39,174,85,117,212,106>>, <<191,238,196,67,43,126,66,247>>, <<191,239,65,230,137,10,217,210>>, <<191,239,160,26,18,33,120,21>>,
            <<191,239,222,127,8,205,220,194>>, <<191,239,252,214,172,106,209,142>>, <<191,239,251,2,120,191,5,91>>, <<191,239,217,4,68,174,28,195>>,
            <<191,239,150,254,64,95,27,36>>, <<191,239,53,50,210,217,252,254>>, <<191,238,180,4,87,63,31,176>>, <<191,238,19,244,185,219,157,137>>,
            <<191,237,85,164,245,126,20,69>>, <<191,236,121,212,113,143,73,50>>, <<191,235,129,96,65,145,135,25>>, <<191,234,109,66,70,200,71,119>>,
            <<191,233,62,144,52,231,176,26>>, <<191,231,246,122,122,200,229,208>>, <<191,230,150,75,16,59,212,64>>, <<191,229,31,100,42,42,133,222>>,
            <<191,227,147,62,214,91,193,247>>, <<191,225,243,105,128,59,59,198>>, <<191,224,65,134,96,36,183,131>>, <<191,220,254,147,173,138,78,79>>,
            <<191,217,92,241,108,113,143,173>>, <<191,213,161,204,245,63,77,64>>, <<191,209,208,230,231,229,50,104>>, <<191,203,220,43,139,197,182,20>>,
            <<191,195,250,132,44,65,226,43>>, <<191,184,9,137,218,175,82,108>>, <<191,160,11,189,2,21,185,207>>, <<63,160,11,189,2,21,150,135>>,
            <<63,184,9,137,218,175,96,181>>, <<63,195,250,132,44,65,233,65>>, <<63,203,220,43,139,197,189,21>>, <<63,209,208,230,231,229,46,43>>,
            <<63,213,161,204,245,63,80,160>>, <<63,217,92,241,108,113,146,249>>, <<63,220,254,147,173,138,81,130>>, <<63,224,65,134,96,36,185,14>>,
            <<63,225,243,105,128,59,61,66>>, <<63,227,147,62,214,91,195,99>>, <<63,229,31,100,42,42,135,55>>, <<63,230,150,75,16,59,210,176>>,
            <<63,231,246,122,122,200,231,0>>, <<63,233,62,144,52,231,177,52>>, <<63,234,109,66,70,200,72,122>>, <<63,235,129,96,65,145,136,3>>,
            <<63,236,121,212,113,143,72,49>>, <<63,237,85,164,245,126,20,252>>, <<63,238,19,244,185,219,158,38>>, <<63,238,180,4,87,63,32,49>>,
            <<63,239,53,50,210,217,252,130>>, <<63,239,150,254,64,95,26,202>>, <<63,239,217,4,68,174,28,240>>, <<63,239,251,2,120,191,5,107>>,
            <<63,239,252,214,172,106,209,129>>, <<63,239,222,127,8,205,220,152>>, <<63,239,160,26,18,33,119,207>>, <<63,239,65,230,137,10,217,112>>,
            <<63,238,196,67,43,126,67,147>>, <<63,238,39,174,85,117,211,209>>, <<63,237,108,197,129,219,232,71>>, <<63,236,148,68,172,40,195,216>>,
            <<63,235,159,5,147,82,229,53>>, <<63,234,141,254,222,208,19,38>>, <<63,233,98,67,38,131,129,88>>, <<63,232,28,255,222,146,117,180>>,
            <<63,230,191,124,40,53,24,122>>, <<63,229,75,23,136,180,165,228>>, <<63,227,193,72,135,225,147,67>>, <<63,226,35,155,55,101,107,246>>,
            <<63,224,115,175,164,107,44,225>>, <<63,221,102,112,106,93,131,134>>, <<63,217,199,239,232,48,247,144>>, <<63,214,15,129,148,55,207,178>>,
            <<63,210,64,227,84,68,128,199>>, <<63,204,191,210,189,95,2,171>>, <<63,196,224,244,193,1,80,102>>, <<63,185,218,46,68,26,44,39>>,
            <<63,163,176,229,182,117,119,184>>, <<191,152,204,189,224,25,249,181>>, <<191,182,56,149,127,157,103,8>>, <<191,195,19,209,37,121,112,209>>,
            <<191,202,248,39,177,193,72,48>>, <<191,209,96,175,58,183,125,251>>, <<191,213,51,208,100,119,149,37>>, <<191,216,241,158,150,61,153,91>>,
            <<191,220,150,86,130,115,153,38>>, <<191,224,15,39,11,83,4,14>>, <<191,225,194,252,21,124,75,207>>, <<191,227,100,244,10,66,253,132>>,
            <<191,228,243,106,139,137,123,252>>, <<191,230,108,206,217,79,0,13>>, <<191,231,207,165,100,188,117,49>>, <<191,233,26,137,77,225,6,63>>,
            <<191,234,76,45,202,158,126,49>>, <<191,235,99,95,117,92,77,22>>, <<191,236,95,5,130,48,231,68>>, <<191,237,62,34,217,74,67,189>>,
            <<191,237,255,215,21,121,137,127>>, <<191,238,163,95,101,226,1,12>>, <<191,239,40,23,81,232,44,15>>, <<191,239,141,121,94,156,24,139>>,
            <<191,239,211,31,148,248,103,193>>, <<191,239,248,195,232,111,44,227>>, <<191,239,254,64,125,93,103,205>>, <<191,239,227,143,207,30,72,207>>,
            <<191,239,168,204,181,151,241,63>>, <<191,239,78,50,74,60,27,207>>, <<191,238,212,27,172,151,211,190>>, <<191,238,59,3,166,174,2,130>>,
            <<191,237,131,132,49,121,1,136>>, <<191,236,174,85,218,15,89,39>>, <<191,235,188,79,8,7,140,2>>, <<191,234,174,99,37,213,101,182>>,
            <<191,233,133,161,171,249,228,219>>, <<191,232,67,53,15,251,201,116>>, <<191,230,232,97,152,59,139,161>>, <<191,229,118,132,21,208,131,104>>,
            <<191,227,239,16,133,183,43,79>>, <<191,226,83,144,154,177,167,23>>, <<191,224,165,162,49,82,116,109>>, <<191,221,205,235,95,127,118,142>>,
            <<191,218,50,152,165,163,149,89>>, <<191,214,124,236,212,132,74,128>>, <<191,210,176,163,11,99,12,198>>, <<191,205,163,26,81,106,32,71>>,
            <<191,197,199,31,229,79,226,128>>, <<191,187,170,124,178,139,132,15>>, <<191,167,85,204,237,164,129,214>>, <<63,145,129,175,65,43,183,124>>,
            <<63,180,103,87,61,65,111,178>>, <<63,194,44,222,171,236,62,56>>, <<63,202,19,202,37,168,157,70>>, <<63,208,240,61,193,242,252,56>>,
            <<63,212,197,141,79,172,189,98>>, <<63,216,133,248,202,133,209,243>>, <<63,220,45,186,67,199,211,21>>, <<63,223,185,36,154,251,153,235>>,
            <<63,225,146,83,152,56,91,140>>, <<63,227,54,104,189,141,14,3>>, <<63,228,199,43,63,18,128,245>>, <<63,230,67,8,13,103,173,83>>,
            <<63,231,168,129,29,147,138,54>>, <<63,232,246,46,233,65,100,201>>, <<63,234,42,193,216,87,125,80>>, <<63,235,69,3,146,124,61,92>>,
            <<63,236,67,216,55,54,160,142>>, <<63,237,38,63,123,111,185,7>>, <<63,237,235,85,171,54,114,57>>, <<63,238,146,84,142,194,19,25>>,
            <<63,239,26,148,49,205,67,45>>, <<63,239,131,139,140,129,28,160>>, <<63,239,204,209,13,70,97,110>>, <<63,239,246,27,2,242,47,95>>,
            <<63,239,255,63,230,227,112,251>>, <<63,239,232,54,134,198,133,182>>, <<63,239,177,22,13,213,24,78>>, <<63,239,90,21,237,136,217,214>>,
            <<63,238,227,141,165,216,144,58>>, <<63,238,77,244,109,55,141,44>>, <<63,237,153,224,184,176,15,68>>, <<63,236,200,7,164,145,35,32>>,
            <<63,235,217,60,62,72,55,2>>, <<63,234,206,110,176,29,133,32>>, <<63,233,168,171,79,168,249,146>>, <<63,232,105,25,143,242,60,232>>,
            <<63,231,16,250,216,75,151,168>>, <<63,229,161,169,65,18,78,152>>, <<63,228,28,150,55,153,197,209>>, <<63,226,131,73,10,159,93,29>>,
            <<63,224,215,93,96,188,154,43>>, <<63,222,53,3,52,199,155,168>>, <<63,218,156,234,66,14,84,119>>, <<63,214,234,13,74,59,243,32>>,
            <<63,211,32,36,153,152,70,113>>, <<63,206,133,255,84,2,24,47>>, <<63,198,173,2,155,173,38,153>>, <<63,189,122,111,29,206,109,179>>,
            <<63,170,250,102,136,244,14,126>>, <<191,132,108,204,209,202,191,128>>, <<191,178,149,213,30,237,136,81>>, <<191,193,69,175,191,178,36,217>>,
            <<191,201,47,21,222,253,108,64>>, <<191,208,127,147,243,143,74,70>>, <<191,212,87,5,37,149,77,215>>, <<191,216,26,1,111,78,240,147>>,
            <<191,219,196,192,77,113,170,49>>, <<191,223,83,145,157,188,231,0>>, <<191,225,97,112,170,67,165,236>>, <<191,227,7,157,139,6,70,9>>,
            <<191,228,154,166,215,238,79,59>>, <<191,230,24,247,55,118,253,106>>, <<191,231,129,14,39,123,239,215>>, <<191,232,209,129,127,240,75,198>>,
            <<191,234,8,254,223,26,239,174>>, <<191,235,38,76,253,233,99,113>>, <<191,236,40,76,235,3,62,176>>, <<191,237,13,251,43,97,33,32>>,
            <<191,237,214,112,191,69,9,156>>, <<191,238,128,228,10,141,112,248>>, <<191,239,12,169,159,121,185,191>>, <<191,239,121,52,235,19,209,229>>,
            <<191,239,198,24,194,145,179,109>>, <<191,239,243,7,209,32,153,164>>, <<191,239,255,212,229,171,119,153>>, <<191,239,236,115,32,78,114,51>>,
            <<191,239,184,245,255,73,175,24>>, <<191,239,101,145,75,102,112,147>>, <<191,238,242,152,227,226,52,169>>, <<191,238,96,128,106,20,57,248>>,
            <<191,237,175,218,205,34,64,126>>, <<191,236,225,89,182,57,124,118>>, <<191,235,245,204,213,224,91,129>>, <<191,234,238,33,19,20,208,208>>,
            <<191,233,203,95,157,9,63,99>>, <<191,232,142,172,224,111,146,240>>, <<191,231,57,71,97,94,245,243>>, <<191,229,204,134,122,251,156,134>>,
            <<191,228,73,217,6,35,40,218>>, <<191,226,178,195,232,120,180,56>>, <<191,225,8,224,141,67,201,108>>, <<191,222,155,182,147,87,18,246>>,
            <<191,219,6,227,91,216,4,77>>, <<191,215,86,225,138,110,189,99>>, <<191,211,143,102,140,10,89,155>>, <<191,207,104,126,210,137,197,240>>,
            <<191,199,146,153,231,137,79,28>>, <<191,191,73,255,126,224,33,34>>, <<191,174,158,166,106,183,177,61>>, <<63,103,87,220,204,120,131,191>>,
            <<63,176,196,21,48,213,238,80>>, <<63,192,94,71,97,171,131,151>>, <<63,200,74,13,214,97,105,129>>, <<63,208,14,179,70,63,155,128>>,
            <<63,211,232,57,85,205,194,103>>, <<63,215,173,185,235,172,205,42>>, <<63,219,91,105,252,147,121,173>>, <<63,222,237,150,112,187,155,54>>,
            <<63,225,48,83,238,52,193,46>>, <<63,226,216,147,14,79,122,39>>, <<63,228,109,221,234,43,116,46>>, <<63,229,238,156,227,100,78,104>>,
            <<63,231,89,77,5,169,31,233>>, <<63,232,172,129,139,233,95,9>>, <<63,233,230,229,79,49,239,67>>, <<63,235,7,60,29,201,93,144>>,
            <<63,236,12,99,249,50,54,213>>, <<63,236,245,86,57,211,162,189>>, <<63,237,193,40,151,34,237,225>>, <<63,238,111,14,19,68,85,128>>,
            <<63,238,254,87,201,54,25,200>>, <<63,239,110,117,156,182,124,173>>, <<63,239,190,246,203,51,196,79>>, <<63,239,239,138,93,52,127,70>>,
            <<63,239,255,255,119,197,243,20>>, <<63,239,240,69,141,158,218,250>>, <<63,239,192,108,111,197,3,255>>, <<63,239,112,164,61,165,7,5>>,
            <<63,239,1,61,52,172,40,159>>, <<63,238,114,167,95,149,3,42>>, <<63,237,197,114,37,184,42,71>>, <<63,236,250,75,186,210,26,240>>,
            <<63,236,18,0,111,207,134,98>>, <<63,235,13,121,229,80,44,255>>, <<63,233,237,190,32,174,244,71>>, <<63,232,179,238,132,123,137,6>>,
            <<63,231,97,70,173,110,154,28>>, <<63,229,247,27,52,253,80,32>>, <<63,228,118,216,90,203,122,41>>, <<63,226,226,0,150,84,152,169>>,
            <<63,225,58,43,18,60,131,208>>, <<63,223,2,4,37,157,21,209>>, <<63,219,112,130,146,141,160,52>>, <<63,215,195,104,43,42,18,142>>,
            <<63,211,254,103,112,179,29,168>>, <<63,208,37,74,237,218,210,142>>, <<63,200,119,226,205,79,112,123>>, <<63,192,140,147,232,1,243,110>>,
            <<63,177,33,64,59,54,179,71>>, <<63,113,129,227,168,122,136,9>>, <<191,173,228,58,255,248,164,236>>, <<191,190,237,81,38,240,138,117>>,
            <<191,199,100,181,5,141,24,112>>, <<191,207,59,58,98,218,198,83>>, <<191,211,121,43,80,211,93,169>>, <<191,215,65,35,167,190,11,24>>,
            <<191,218,241,184,175,130,203,34>>, <<191,222,135,52,103,35,200,65>>, <<191,224,254,254,7,98,131,153>>, <<191,226,169,73,227,219,255,247>>,
            <<191,228,64,209,10,188,101,7>>, <<191,229,195,249,158,11,107,16>>, <<191,231,49,62,60,82,143,251>>, <<191,232,135,47,136,58,199,188>>,
            <<191,233,196,117,154,5,144,186>>, <<191,234,231,209,89,110,32,213>>, <<191,235,240,29,190,150,112,149>>, <<191,236,220,80,248,189,185,185>>,
            <<191,237,171,125,121,151,203,174>>, <<191,238,92,210,228,56,103,196>>, <<191,238,239,158,222,162,88,35>>, <<191,239,99,77,197,39,126,119>>,
            <<191,239,183,107,62,229,114,182>>, <<191,239,235,162,178,201,91,48>>, <<191,239,255,191,156,165,78,29>>, <<191,239,243,173,194,1,170,165>>,
            <<191,239,199,121,70,117,72,81>>, <<191,239,123,78,159,112,12,107>>, <<191,239,15,122,103,132,36,239>>, <<191,238,132,105,17,90,228,72>>,
            <<191,237,218,166,122,162,194,147>>, <<191,237,18,221,95,100,39,123>>, <<191,236,45,214,174,74,130,83>>, <<191,235,44,120,190,142,95,22>>,
            <<191,234,15,198,104,75,183,236>>, <<191,232,216,222,0,45,129,69>>, <<191,231,136,248,55,116,67,127>>, <<191,230,33,102,225,121,98,170>>,
            <<191,228,163,147,159,235,98,77>>, <<191,227,16,254,119,24,198,189>>, <<191,225,107,60,75,183,159,185>>, <<191,223,103,234,151,91,137,201>>,
            <<191,219,217,198,134,231,80,152>>, <<191,216,47,159,195,125,125,177>>, <<191,212,109,37,214,100,144,114>>, <<191,208,150,32,191,202,205,77>>,
            <<191,201,92,218,82,111,92,242>>, <<191,193,115,241,6,107,143,177>>, <<191,178,242,244,72,114,237,205>>, <<191,135,87,189,190,149,185,166>>,
            <<63,170,63,232,52,55,178,8>>, <<63,189,29,172,174,217,229,207>>, <<63,198,127,14,103,69,151,198>>, <<63,206,88,166,90,103,223,77>>,
            <<63,211,9,220,135,255,178,201>>, <<63,214,212,64,12,166,252,27>>, <<63,218,135,173,197,195,172,108>>, <<63,222,32,108,213,119,202,194>>,
            <<63,224,205,111,153,225,231,171>>, <<63,226,121,194,168,239,149,141>>, <<63,228,19,128,207,117,143,122>>, <<63,229,153,13,245,58,185,86>>,
            <<63,231,8,226,80,177,249,147>>, <<63,232,97,139,241,3,144,189>>, <<63,233,161,176,50,29,106,64>>, <<63,234,200,13,25,84,153,85>>,
            <<63,235,211,122,153,57,19,28>>, <<63,236,194,235,187,86,56,221>>, <<63,237,149,111,174,180,108,248>>, <<63,238,74,50,186,11,239,230>>,
            <<63,238,224,127,16,181,64,181>>, <<63,239,87,189,137,128,230,249>>, <<63,239,175,118,54,190,191,148>>, <<63,239,231,80,222,219,229,174>>,
            <<63,239,255,21,85,29,232,159>>, <<63,239,246,171,178,34,17,79>>, <<63,239,206,28,107,231,229,40>>, <<63,239,133,144,77,78,182,81>>,
            <<63,239,29,80,77,14,212,177>>, <<63,238,149,197,68,87,162,226>>, <<63,237,239,119,133,92,77,124>>, <<63,237,43,14,82,57,82,27>>,
            <<63,236,73,79,52,188,153,160>>, <<63,235,75,29,55,185,104,102>>, <<63,234,49,120,2,175,237,198>>, <<63,232,253,122,216,174,27,233>>,
            <<63,231,176,91,123,108,96,210>>, <<63,230,75,104,243,196,198,137>>, <<63,228,208,10,64,189,205,5>>, <<63,227,63,188,238,123,226,41>>,
            <<63,225,156,19,150,132,152,209>>, <<63,223,205,104,149,171,31,70>>, <<63,220,66,173,218,204,135,103>>, <<63,216,155,134,235,127,129,32>>,
            <<63,212,219,160,76,206,20,49>>, <<63,209,6,191,103,207,85,5>>, <<63,202,65,125,125,103,125,6>>, <<63,194,91,20,25,50,163,33>>,
            <<63,180,196,105,80,54,88,207>>, <<63,146,247,30,3,77,46,220>>, <<191,166,155,62,27,41,239,35>>, <<191,187,77,167,97,18,193,78>>,
            <<191,197,153,28,247,82,200,99>>, <<191,205,117,173,100,182,38,203>>, <<191,210,154,78,109,131,179,50>>, <<191,214,103,16,132,141,102,73>>,
            <<191,218,29,74,160,4,74,9>>, <<191,221,185,65,17,139,116,116>>, <<191,224,155,169,74,131,220,198>>, <<191,226,73,253,251,156,122,51>>,
            <<191,227,229,237,207,11,106,136>>, <<191,229,109,218,119,177,83,246>>, <<191,230,224,57,201,1,161,235>>, <<191,232,59,151,67,114,38,34>>,
            <<191,233,126,149,139,30,22,155>>, <<191,234,167,239,199,35,69,194>>, <<191,235,182,122,232,88,76,100>>, <<191,236,169,38,214,19,46,132>>,
            <<191,237,126,255,127,209,202,195>>, <<191,238,55,45,210,177,14,155>>, <<191,238,208,248,145,187,206,189>>, <<191,239,75,197,16,55,245,21>>,
            <<191,239,167,23,205,54,128,51>>, <<191,239,226,148,239,201,235,245>>, <<191,239,254,0,163,102,20,162>>, <<191,239,249,63,84,12,173,138>>,
            <<191,239,212,85,202,9,196,76>>, <<191,239,143,105,37,36,110,185>>, <<191,239,42,190,183,72,119,107>>, <<191,238,166,187,190,206,146,252>>,
            <<191,238,3,229,0,169,70,113>>, <<191,237,66,222,66,220,225,168>>, <<191,236,100,105,167,200,200,30>>, <<191,235,105,102,234,231,221,3>>,
            <<191,234,82,210,127,204,63,12>>, <<191,233,33,196,148,56,207,217>>, <<191,231,215,111,246,87,169,33>>, <<191,230,117,32,224,41,56,35>>,
            <<191,228,252,59,169,98,6,18>>, <<191,227,110,59,97,7,106,126>>, <<191,225,204,176,80,51,137,167>>, <<191,224,25,62,103,128,13,63>>,
            <<191,220,171,55,49,88,248,190>>, <<191,217,7,28,60,81,242,9>>, <<191,213,73,213,100,128,190,250>>, <<191,209,119,37,111,90,129,142>>,
            <<191,203,37,201,85,207,2,120>>, <<191,195,65,250,31,157,232,103>>, <<191,182,149,153,70,120,62,77>>, <<191,154,66,30,19,254,64,93>>,
            <<63,162,246,72,210,178,161,129>>, <<63,185,125,71,68,220,179,177>>, <<63,196,178,227,178,117,97,22>>, <<63,204,146,82,116,165,42,32>>,
            <<63,210,42,130,116,98,230,244>>, <<63,213,249,150,122,147,95,187>>, <<63,217,178,144,160,24,61,48>>, <<63,221,81,178,114,128,12,8>>,
            <<63,224,105,171,190,211,55,107>>, <<63,226,25,252,122,193,51,23>>, <<63,227,184,24,161,16,116,199>>, <<63,229,66,95,181,29,80,59>>,
            <<63,230,183,69,44,122,144,84>>, <<63,232,21,81,253,194,142,29>>, <<63,233,91,38,25,199,183,1>>, <<63,234,135,121,205,168,240,42>>,
            <<63,235,153,31,12,102,20,120>>, <<63,236,143,2,158,168,196,124>>, <<63,237,104,45,55,144,25,49>>, <<63,238,35,196,109,104,239,37>>,
            <<63,238,193,11,149,88,134,128>>, <<63,239,63,100,129,28,151,179>>, <<63,239,158,80,30,34,3,171>>, <<63,239,221,110,245,82,31,25>>,
            <<63,239,252,129,139,22,15,177>>, <<63,239,251,104,159,47,170,253>>, <<63,239,218,37,76,39,160,99>>, <<63,239,152,217,6,49,79,100>>,
            <<63,239,55,197,121,133,111,232>>, <<63,238,183,76,72,85,85,244>>, <<63,238,23,238,168,153,77,94>>, <<63,237,90,76,226,28,189,209>>,
            <<63,236,127,37,173,74,233,54>>, <<63,235,135,85,115,94,54,183>>, <<63,234,115,213,112,179,24,114>>, <<63,233,69,186,186,29,127,164>>,
            <<63,231,254,53,38,60,218,122>>, <<63,230,158,142,27,231,14,139>>, <<63,229,40,39,70,221,131,96>>, <<63,227,156,121,52,25,205,29>>,
            <<63,225,253,17,215,23,88,207>>, <<63,224,75,146,249,151,52,167>>, <<63,221,19,97,46,224,211,250>>, <<63,217,114,94,80,39,9,131>>,
            <<63,213,183,195,174,244,146,108>>, <<63,209,231,81,96,154,137,170>>, <<63,204,9,186,228,95,29,14>>, <<63,196,40,160,25,191,98,198>>,
            <<63,184,102,126,32,22,29,139>>, <<63,160,198,99,104,4,0,123>>, <<191,158,162,40,243,94,184,36>>, <<191,183,172,146,98,167,85,130>>,
            <<191,195,204,101,150,92,255,47>>, <<191,203,174,152,126,90,82,143>>, <<191,209,186,122,16,110,154,212>>, <<191,213,139,211,90,210,232,254>>,
            <<191,217,71,129,40,243,250,72>>, <<191,220,233,194,80,191,109,242>>, <<191,224,55,119,157,18,125,27>>, <<191,225,233,190,198,6,158,204>>,
            <<191,227,138,1,221,243,79,0>>, <<191,229,22,158,62,25,182,168>>, <<191,230,142,5,3,82,221,59>>, <<191,231,238,188,159,60,238,205>>,
            <<191,233,55,98,83,244,98,150>>, <<191,234,102,171,152,219,41,172>>, <<191,235,123,103,103,6,238,187>>, <<191,236,116,127,108,8,54,158>>,
            <<191,237,80,249,33,213,207,80>>, <<191,238,15,246,202,194,244,245>>, <<191,238,176,184,80,130,201,146>>, <<191,239,50,156,5,88,233,82>>,
            <<191,239,149,31,70,180,182,209>>, <<191,239,215,223,0,147,223,240>>, <<191,239,250,152,17,39,245,211>>, <<191,239,253,39,140,90,224,0>>,
            <<191,239,223,138,222,238,66,239>>, <<191,239,161,223,209,18,135,26>>, <<191,239,68,100,104,114,230,127>>, <<191,238,199,118,169,212,154,167>>,
            <<191,238,43,148,58,135,249,117>>, <<191,237,113,89,226,10,124,226>>, <<191,236,153,130,236,88,236,203>>, <<191,235,164,232,109,144,33,254>>,
            <<191,234,148,128,103,154,2,23>>, <<191,233,105,92,210,194,10,229>>, <<191,232,36,170,138,42,116,178>>, <<191,230,199,176,29,55,8,243>>,
            <<191,229,83,204,135,29,218,37>>, <<191,227,202,117,205,232,100,68>>, <<191,226,45,55,138,71,207,48>>, <<191,224,125,177,89,183,18,23>>,
            <<191,221,123,42,120,245,108,8>>, <<191,217,221,75,194,69,185,73>>, <<191,214,37,105,190,140,235,119>>, <<191,210,87,65,198,127,10,39>>,
            <<191,204,237,79,50,253,178,220>>, <<191,197,15,3,8,125,170,42>>, <<191,186,55,17,210,230,102,1>>, <<191,164,107,127,251,156,105,68>>,
            <<63,151,87,90,95,156,223,254>>, <<63,181,219,142,195,252,80,109>>, <<63,194,229,165,161,158,67,193>>, <<63,202,202,130,119,54,211,224>>,
            <<63,209,74,54,182,65,11,178>>, <<63,213,29,200,146,89,20,83>>, <<63,216,220,29,158,168,52,102>>, <<63,220,129,114,5,247,224,214>>,
            <<63,224,5,13,140,57,190,192>>, <<63,225,185,69,125,221,209,250>>, <<63,227,91,170,30,252,180,192>>, <<63,228,234,150,164,44,194,181>>,
            <<63,230,100,121,214,187,225,255>>, <<63,231,199,215,168,51,191,155>>, <<63,233,19,74,176,150,185,93>>, <<63,234,69,133,149,213,7,2>>,
            <<63,235,93,84,91,16,154,236>>, <<63,236,89,157,150,94,150,176>>, <<63,237,57,99,139,206,172,76>>, <<63,237,251,197,44,155,230,88>>,
            <<63,238,159,254,249,134,38,171>>, <<63,239,37,107,199,112,167,37>>, <<63,239,139,133,101,127,195,26>>, <<63,239,209,229,36,15,6,32>>,
            <<63,239,248,68,59,247,177,240>>, <<63,239,254,124,21,191,229,74>>, <<63,239,228,134,112,106,202,165>>, <<63,239,170,125,103,194,197,129>>,
            <<63,239,80,155,90,23,74,231>>, <<63,238,215,58,173,136,205,217>>, <<63,238,62,213,117,29,202,7>>, <<63,237,136,4,245,252,93,84>>,
            <<63,236,179,129,13,67,234,252>>, <<63,235,194,31,119,33,209,54>>, <<63,234,180,210,247,219,46,142>>, <<63,233,140,170,103,163,217,158>>,
            <<63,232,74,207,162,56,73,47>>, <<63,230,240,134,91,76,24,229>>, <<63,229,127,42,216,250,176,141>>, <<63,227,248,48,149,129,118,133>>,
            <<63,226,93,32,201,163,171,232>>, <<63,224,175,152,225,47,240,76>>, <<63,221,226,145,182,105,176,93>>, <<63,218,71,227,47,14,115,13>>,
            <<63,214,146,198,38,157,104,35>>, <<63,210,198,245,44,189,137,238>>, <<63,205,208,131,76,198,141,145>>, <<63,197,245,31,237,158,191,183>>,
            <<63,188,7,78,85,206,75,188>>, <<63,168,16,88,165,103,88,189>>, <<191,144,12,62,42,210,180,7>>, <<191,180,10,66,115,106,171,166>>,
            <<191,193,254,166,211,168,158,219>>, <<191,201,230,19,85,206,129,86>>, <<191,208,217,185,219,56,143,85>>, <<191,212,175,119,143,33,41,74>>,
            <<191,216,112,103,102,93,61,14>>, <<191,220,24,194,237,23,123,153>>, <<191,223,164,220,103,232,218,196>>, <<191,225,136,145,67,126,5,6>>,
            <<191,227,45,17,254,77,129,174>>, <<191,228,190,73,121,197,239,242>>, <<191,230,58,164,48,224,115,116>>, <<191,231,160,163,154,2,59,103>>,
            <<191,232,238,223,167,184,54,79>>, <<191,234,36,8,50,213,147,247>>, <<191,235,62,230,76,136,227,5>>, <<191,236,62,93,119,19,196,59>>,
            <<191,237,33,108,195,234,174,161>>, <<191,237,231,47,214,29,10,111>>, <<191,238,142,223,200,1,166,67>>, <<191,239,23,211,243,64,164,153>>,
            <<191,239,129,130,154,113,168,243>>, <<191,239,203,129,115,163,162,152>>, <<191,239,245,134,19,66,232,102>>, <<191,239,255,102,54,242,41,62>>,
            <<191,239,233,23,240,10,226,210>>, <<191,239,178,177,173,154,158,67>>, <<191,239,92,106,37,210,236,214>>, <<191,238,230,152,31,2,209,153>>,
            <<191,238,81,178,24,80,240,212>>, <<191,237,158,77,210,142,75,55>>, <<191,236,205,31,185,153,97,7>>, <<191,235,222,250,46,233,55,143>>,
            <<191,234,212,204,181,246,192,102>>, <<191,233,175,163,3,89,112,8>>, <<191,232,112,163,239,137,75,200>>, <<191,231,25,16,78,85,38,126>>,
            <<191,229,170,65,172,55,127,185>>, <<191,228,37,168,242,206,51,122>>, <<191,226,140,204,245,210,201,62>>, <<191,224,225,72,234,8,130,232>>,
            <<191,222,73,149,143,86,161,236>>, <<191,218,178,35,51,255,191,209>>, <<191,214,255,215,123,110,156,217>>, <<191,211,54,106,31,214,118,170>>,
            <<191,206,179,84,62,21,125,236>>, <<191,198,218,243,203,209,84,79>>, <<191,189,215,45,160,212,123,174>>, <<191,171,180,225,70,231,107,19>>,
            <<63,129,129,217,45,99,184,225>>, <<63,178,56,179,124,116,19,12>>, <<63,193,23,108,44,188,182,14>>, <<63,201,1,78,17,221,8,58>>,
            <<63,208,105,4,245,114,194,95>>, <<63,212,64,225,192,16,54,172>>, <<63,216,4,95,230,78,96,101>>, <<63,219,175,182,98,71,134,184>>,
            <<63,223,63,52,121,62,89,2>>, <<63,225,87,162,184,226,127,62>>, <<63,226,254,58,22,220,176,230>>, <<63,228,145,183,82,60,21,249>>,
            <<63,230,16,132,156,227,22,90>>, <<63,231,121,32,247,10,165,32>>, <<63,232,202,33,178,119,187,38>>, <<63,234,2,51,223,62,125,145>>,
            <<63,235,32,29,160,164,49,185>>, <<63,236,34,191,104,201,39,158>>, <<63,237,9,21,25,221,33,57>>, <<63,237,210,55,11,187,89,62>>,
            <<63,238,125,90,244,231,11,167>>, <<63,239,9,212,181,254,53,187>>, <<63,239,119,23,6,213,214,69>>, <<63,239,196,180,4,145,189,239>>,
            <<63,239,242,93,160,40,220,100>>, <<63,239,255,229,236,230,254,170>>, <<63,239,237,63,78,156,252,34>>, <<63,239,186,124,135,80,232,89>>,
            <<63,239,103,208,164,96,121,184>>, <<63,238,245,142,203,40,170,121>>, <<63,238,100,41,229,102,45,209>>, <<63,237,180,52,45,162,217,79>>,
            <<63,236,230,94,156,36,61,11>>, <<63,235,251,120,52,239,84,92>>, <<63,234,244,109,55,148,80,245>>, <<63,233,210,70,49,147,230,141>>,
            <<63,232,150,38,244,77,14,220>>, <<63,231,65,77,111,126,223,54>>, <<63,229,213,16,113,133,160,2>>, <<63,228,82,222,78,148,170,117>>,
            <<63,226,188,59,112,72,10,150>>, <<63,225,18,192,207,0,14,115>>, <<63,222,176,52,173,31,238,34>>, <<63,219,28,10,111,186,211,183>>,
            <<63,215,108,156,82,66,206,13>>, <<63,211,165,159,45,25,240,160>>, <<63,207,149,191,20,144,29,64>>, <<63,199,192,123,166,183,8,223>>,
            <<63,191,166,169,173,53,201,252>>, <<63,175,89,13,194,168,105,85>>, <<191,87,87,222,89,248,52,129>>, <<191,176,102,231,235,118,253,234>>,
            <<191,192,47,248,173,226,42,25>>, <<191,200,28,53,164,61,11,158>>, <<191,207,240,50,247,143,26,76>>, <<191,211,210,8,148,239,220,204>>,
            <<191,215,152,8,133,197,69,43>>, <<191,219,70,77,194,232,69,112>>, <<191,222,217,36,158,139,68,72>>, <<191,225,38,122,128,200,107,86>>,
            <<191,226,207,35,4,117,89,161>>, <<191,228,100,224,193,203,129,128>>, <<191,229,230,27,166,220,48,162>>, <<191,231,81,80,66,180,152,196>>,
            <<191,232,165,17,75,7,241,63>>, <<191,233,224,9,11,146,148,82>>, <<191,235,0,250,189,196,88,159>>, <<191,236,6,195,199,88,152,248>>,
            <<191,236,240,92,222,155,123,87>>, <<191,237,188,219,19,54,132,59>>, <<191,238,107,112,186,122,36,180>>, <<191,238,251,110,62,54,158,109>>,
            <<191,239,108,66,205,84,52,25>>, <<191,239,189,124,237,121,15,216>>, <<191,239,238,202,237,42,83,217>>, <<191,239,255,251,53,245,166,220>>,
            <<191,239,240,252,126,80,128,32>>, <<191,239,193,221,218,251,24,207>>, <<191,239,114,206,175,213,130,200>>, <<191,239,4,30,128,54,41,137>>,
            <<191,238,118,60,158,241,158,112>>, <<191,237,201,183,190,100,55,149>>, <<191,236,255,61,96,238,2,92>>, <<191,236,23,153,42,113,112,41>>,
            <<191,235,19,180,19,132,57,198>>, <<191,233,244,147,127,32,118,75>>, <<191,232,187,88,51,193,140,184>>, <<191,231,105,61,56,245,101,155>>,
            <<191,229,255,150,154,133,246,80>>, <<191,228,127,208,18,121,208,243>>, <<191,226,235,107,155,67,156,183>>, <<191,225,67,255,235,144,138,145>>,
            <<191,223,22,109,186,120,20,235>>, <<191,219,133,151,130,8,73,113>>, <<191,215,217,19,65,90,166,167>>, <<191,212,20,146,226,172,147,244>>,
            <<191,208,59,224,111,151,205,37>>, <<191,200,165,180,130,238,76,192>>, <<191,192,186,222,58,188,142,137>>, <<191,177,126,104,254,52,106,14>>,
            <<191,119,87,214,150,123,104,103>>, <<63,173,41,203,155,55,224,126>>, <<63,190,144,158,177,187,82,23>>, <<63,199,54,205,6,221,86,193>>,
            <<63,207,13,241,203,136,230,197>>, <<63,211,98,237,126,105,255,149>>, <<63,215,43,98,173,21,36,27>>, <<63,218,220,138,109,139,255,191>>,
            <<63,222,114,174,43,64,144,75>>, <<63,224,245,25,62,172,223,44>>, <<63,226,159,205,99,180,169,9>>, <<63,228,55,198,93,147,247,238>>,
            <<63,229,187,105,219,216,55,125>>, <<63,231,41,50,1,107,89,32>>, <<63,232,127,174,236,173,181,165>>, <<63,233,189,136,41,116,88,74>>,
            <<63,234,225,126,11,119,49,83>>, <<63,235,234,106,239,211,37,109>>, <<63,236,215,68,100,92,101,129>>, <<63,237,167,28,51,152,29,248>>,
            <<63,238,89,33,84,79,247,58>>, <<63,238,236,160,187,206,115,227>>, <<63,239,97,6,17,240,187,98>>, <<63,239,181,220,70,88,182,168>>,
            <<63,239,234,206,6,41,113,50>>, <<63,239,255,166,17,215,87,46>>, <<63,239,244,79,114,181,252,59>>, <<63,239,200,213,144,13,152,240>>,
            <<63,239,125,100,35,162,254,8>>, <<63,239,18,71,13,189,145,214>>, <<63,238,135,234,8,215,136,181>>, <<63,237,222,216,61,69,37,115>>,
            <<63,237,23,187,181,63,222,253>>, <<63,236,51,92,177,226,87,237>>, <<63,235,50,160,225,192,253,107>>, <<63,234,22,138,121,233,245,201>>,
            <<63,232,224,55,50,52,170,12>>, <<63,231,144,223,37,230,25,143>>, <<63,230,41,211,153,202,249,177>>, <<63,228,172,125,169,3,84,174>>,
            <<63,227,26,92,217,212,206,113>>, <<63,225,117,5,155,240,214,15>>, <<63,223,124,63,99,101,58,69>>, <<63,219,238,201,11,220,102,12>>,
            <<63,216,69,58,223,249,227,185>>, <<63,212,131,67,207,140,108,178>>, <<63,208,172,171,87,37,64,213>>, <<63,201,138,155,102,28,56,232>>,
            <<63,193,162,47,250,193,186,47>>, <<63,179,80,16,236,160,245,70>>, <<63,138,66,171,144,103,54,52>>, <<191,169,133,102,97,129,117,240>>,
            <<191,188,192,230,96,77,220,82>>, <<191,198,81,23,52,183,163,136>>, <<191,206,43,73,87,79,40,142>>, <<191,210,243,145,238,3,138,134>>,
            <<191,214,190,111,197,150,70,18>>, <<191,218,114,109,193,242,232,5>>, <<191,222,11,210,116,36,83,93>>, <<191,224,195,127,150,202,137,112>>,
            <<191,226,112,57,210,7,220,160>>, <<191,228,10,104,187,150,233,81>>, <<191,229,144,111,201,213,218,68>>, <<191,231,0,198,184,156,9,148>>,
            <<191,232,89,251,19,190,129,177>>, <<191,233,154,177,171,164,129,142>>, <<191,234,193,167,242,117,71,30>>, <<191,235,205,181,64,127,219,119>>,
            <<191,236,189,203,254,150,159,202>>, <<191,237,144,250,181,50,166,190>>, <<191,238,70,108,255,78,8,42>>, <<191,238,221,108,96,0,254,70>>,
            <<191,239,85,96,250,10,242,216>>, <<191,239,173,210,40,142,229,185>>, <<191,239,230,102,248,105,143,198>>, <<191,239,254,230,129,167,57,228>>,
            <<191,239,247,56,32,191,78,231>>, <<191,239,207,99,143,92,23,124>>, <<191,239,135,144,220,149,183,195>>, <<191,239,32,8,68,168,57,122>>,
            <<191,238,153,49,232,77,41,24>>, <<191,237,243,149,100,1,223,187>>, <<191,237,47,217,71,163,189,14>>, <<191,236,78,194,110,235,148,39>>,
            <<191,235,81,51,59,112,159,65>>, <<191,234,56,42,176,250,84,98>>, <<191,233,4,195,117,5,222,62>>, <<191,231,184,50,178,129,79,57>>,
            <<191,230,83,198,226,218,105,124>>, <<191,228,216,230,125,153,183,232>>, <<191,227,73,14,143,220,75,30>>, <<191,225,165,209,61,22,178,144>>,
            <<191,223,225,168,85,69,67,175>>, <<191,220,87,157,175,92,20,228>>, <<191,216,177,17,198,108,33,225>>, <<191,212,241,176,131,149,110,142>>,
            <<191,209,29,62,201,207,57,44>>, <<191,202,111,45,86,246,197,200>>, <<191,194,137,71,21,85,245,51>>, <<191,181,33,120,159,231,214,125>>,
            <<191,148,108,138,63,137,172,17>>, <<63,165,224,172,70,200,242,127>>, <<63,186,240,206,109,189,126,235>>, <<63,197,107,23,41,198,98,138>>,
            <<63,205,72,60,140,181,157,198>>, <<63,210,131,247,86,23,247,91>>, <<63,214,81,49,57,161,52,159>>, <<63,218,7,249,33,6,28,123>>,
            <<63,221,164,146,207,77,131,50>>, <<63,224,145,174,46,23,197,163>>, <<63,226,64,104,237,170,41,158>>, <<63,227,220,200,114,181,82,57>>,
            <<63,229,101,45,255,196,45,47>>, <<63,230,216,14,238,180,16,191>>, <<63,232,51,246,61,158,192,142>>, <<63,233,119,134,6,0,118,148>>,
            <<63,234,161,120,220,160,124,235>>, <<63,235,176,163,24,218,145,90>>, <<63,236,163,244,1,255,237,229>>, <<63,237,122,118,225,160,157,112>>,
            <<63,238,51,83,249,169,138,244>>, <<63,238,205,209,93,95,148,247>>, <<63,239,73,83,172,93,122,230>>, <<63,239,165,94,174,216,145,120>>,
            <<63,239,225,149,210,143,19,170>>, <<63,239,253,188,135,226,106,141>>, <<63,239,249,182,126,191,200,192>>, <<63,239,213,135,195,25,215,127>>,
            <<63,239,145,84,184,214,210,108>>, <<63,239,45,97,247,55,37,87>>, <<63,238,170,20,3,217,104,244>>, <<63,238,7,238,237,161,10,87>>,
            <<63,237,71,149,199,229,89,240>>, <<63,236,105,202,6,110,154,33>>, <<63,235,111,106,186,229,247,118>>, <<63,234,89,115,180,124,17,248>>,
            <<63,233,40,252,130,167,200,170>>, <<63,231,223,55,91,252,5,107>>, <<63,230,125,111,234,47,47,40>>, <<63,229,5,9,252,138,29,196>>,
            <<63,227,119,128,34,13,254,91>>, <<63,225,214,98,44,185,17,223>>, <<63,224,35,83,159,105,48,191>>, <<63,220,192,20,15,224,255,216>>,
            <<63,217,28,150,142,9,93,31>>, <<63,213,95,215,143,134,175,9>>, <<63,209,141,153,81,45,13,73>>, <<63,203,83,103,93,78,2,204>>,
            <<63,195,112,32,137,231,201,67>>, <<63,182,242,154,12,45,44,156>>, <<63,155,183,122,201,157,53,170>>, <<191,162,59,169,105,39,23,142>>,
            <<191,185,32,92,225,137,210,32>>, <<191,196,132,207,226,250,221,220>>, <<191,204,100,206,94,221,185,49>>, <<191,210,20,31,41,212,95,246>>,
            <<191,213,227,168,116,138,12,78>>, <<191,217,157,45,236,211,97,80>>, <<191,221,60,240,148,31,103,24>>, <<191,224,95,165,170,68,68,118>>,
            <<191,226,16,91,85,162,194,68>>, <<191,227,174,230,26,173,231,245>>, <<191,229,57,165,13,128,191,21>>, <<191,230,175,11,43,31,50,158>>,
            <<191,232,13,160,232,192,74,195>>, <<191,233,84,5,173,128,229,76>>, <<191,234,128,241,53,2,162,3>>, <<191,235,147,52,217,146,167,147>>,
            <<191,236,137,188,196,139,255,54>>, <<191,237,99,145,3,195,138,195>>, <<191,238,31,214,130,230,147,219>>, <<191,238,189,207,231,208,246,95>>,
            <<191,239,60,222,80,253,137,28>>, <<191,239,156,129,245,81,22,127>>, <<191,239,220,90,164,159,60,31>>, <<191,239,252,40,40,103,237,183>>,
            <<191,239,251,202,132,108,79,195>>, <<191,239,219,66,22,217,246,28>>, <<191,239,154,175,151,236,44,2>>, <<191,239,58,83,249,3,164,214>>,
            <<191,238,186,144,35,85,175,90>>, <<191,238,27,228,150,116,148,89>>, <<191,237,94,240,231,19,63,9>>, <<191,236,132,115,30,134,4,50>>,
            <<191,235,141,70,251,162,15,119>>, <<191,234,122,101,21,187,176,162>>, <<191,233,76,225,226,161,194,109>>, <<191,232,5,236,160,145,152,155>>,
            <<191,230,166,206,37,59,43,101>>, <<191,229,48,231,147,8,68,223>>, <<191,227,165,176,245,243,40,168>>, <<191,226,6,183,201,82,12,187>>,
            <<191,224,85,157,104,19,180,200>>, <<191,221,40,42,209,254,130,177>>, <<191,217,135,199,209,58,183,87>>, <<191,213,205,183,133,6,177,192>>,
            <<191,209,253,185,119,147,74,226>>, <<191,204,55,70,130,22,225,142>>, <<191,196,86,185,88,178,247,220>>, <<191,184,195,111,38,125,242,120>>,
            <<191,161,129,7,146,165,229,56>>, <<63,157,44,211,207,75,73,99>>, <<63,183,79,151,196,92,108,249>>, <<63,195,158,68,94,51,88,212>>,
            <<63,203,129,1,194,44,210,196>>, <<63,209,164,10,221,50,141,31>>, <<63,213,117,214,226,155,196,78>>, <<63,217,50,13,136,136,98,207>>,
            <<63,220,212,237,27,69,40,233>>, <<63,224,45,102,177,183,10,54>>, <<63,225,224,17,169,194,183,235>>, <<63,227,128,194,76,27,16,108>>,
            <<63,229,13,213,131,213,219,183>>, <<63,230,133,187,246,69,236,183>>, <<63,231,230,251,148,160,154,140>>, <<63,233,48,49,24,56,28,83>>,
            <<63,234,96,17,103,204,38,136>>, <<63,235,117,106,228,137,201,88>>, <<63,236,111,38,157,107,71,236>>, <<63,237,76,73,103,195,8,51>>,
            <<63,238,11,244,219,215,70,26>>, <<63,238,173,104,52,144,155,86>>, <<63,239,48,1,17,90,99,157>>, <<63,239,147,60,25,113,220,18>>,
            <<63,239,214,181,127,255,236,217>>, <<63,239,250,41,104,120,164,15>>, <<63,239,253,116,42,219,120,207>>, <<63,239,224,146,119,143,176,85>>,
            <<63,239,163,161,90,184,212,48>>, <<63,239,70,222,30,255,224,29>>, <<63,238,202,166,15,238,137,79>>, <<63,238,47,118,28,26,158,123>>,
            <<63,237,117,234,87,127,223,18>>, <<63,236,158,189,94,134,168,136>>, <<63,235,170,199,154,85,89,149>>, <<63,234,154,254,103,41,48,22>>,
            <<63,233,112,115,29,145,123,86>>, <<63,232,44,81,255,133,111,224>>, <<63,230,207,225,10,105,0,25>>, <<63,229,92,126,175,48,108,116>>,
            <<63,227,211,160,113,236,93,229>>, <<63,226,54,209,114,33,12,207>>, <<63,224,135,176,221,98,26,56>>, <<63,221,143,224,155,133,223,167>>,
            <<63,217,242,164,43,127,22,42>>, <<63,214,59,78,246,168,156,38>>, <<63,210,109,157,200,24,175,223>>, <<63,205,26,199,207,116,24,2>>,
            <<63,197,61,14,130,202,20,212>>, <<63,186,147,241,228,229,245,224>>, <<63,165,38,23,137,83,136,139>>, <<191,149,225,243,196,51,142,30>>,
            <<191,181,126,133,31,244,211,254>>, <<191,194,183,119,154,48,205,205>>, <<191,202,156,217,172,66,99,166>>, <<191,209,51,187,228,244,117,214>>,
            <<191,213,7,189,241,19,114,217>>, <<191,216,198,153,88,110,31,101>>, <<191,220,108,137,190,173,90,187>>, <<191,223,245,227,215,24,104,166>>,
            <<191,225,175,140,138,162,234,189>>, <<191,227,82,93,160,112,233,170>>, <<191,228,225,191,244,120,128,110>>, <<191,230,92,33,217,139,162,129>>,
            <<191,231,192,6,193,199,77,219>>, <<191,233,12,8,189,80,156,228>>, <<191,234,62,217,226,82,146,29>>, <<191,235,87,69,156,210,158,218>>,
            <<191,236,84,49,229,9,242,253>>, <<191,237,52,160,91,11,196,92>>, <<191,237,247,175,70,154,245,104>>, <<191,238,156,154,122,46,6,18>>,
            <<191,239,34,188,24,60,216,59>>, <<191,239,137,141,58,17,242,31>>, <<191,239,208,166,119,119,116,106>>, <<191,239,247,192,78,183,56,231>>,
            <<191,239,254,179,108,133,159,118>>, <<191,239,229,120,211,142,161,232>>, <<191,239,172,41,227,125,108,132>>, <<191,239,83,0,63,119,106,233>>,
            <<191,238,218,85,148,36,113,40>>, <<191,238,66,163,61,126,79,188>>, <<191,237,140,129,204,194,134,168>>, <<191,236,184,168,111,0,217,160>>,
            <<191,235,199,236,52,225,23,248>>, <<191,234,187,63,60,89,97,99>>, <<191,233,147,175,189,44,108,12>>, <<191,232,82,102,249,36,182,50>>,
            <<191,230,248,168,17,29,232,0>>, <<191,229,135,206,192,9,54,158>>, <<191,228,1,77,253,51,129,33>>, <<191,226,102,174,135,44,223,255>>,
            <<191,224,185,141,88,200,250,231>>, <<191,221,247,52,19,138,226,149>>, <<191,218,93,42,57,111,196,167>>, <<191,214,168,156,119,240,161,223>>,
            <<191,210,221,68,206,154,250,230>>, <<191,205,253,232,80,192,227,81>>, <<191,198,35,29,10,32,188,84>>, <<191,188,100,28,62,129,239,113>>,
            <<191,168,202,225,41,161,53,180>>, <<63,141,45,149,227,225,28,26>>, <<63,179,173,42,255,20,132,59>>, <<63,193,208,108,150,141,166,10>>,
            <<63,201,184,89,19,237,224,54>>, <<63,208,195,51,182,158,244,87>>, <<63,212,153,95,14,27,150,17>>, <<63,216,90,210,193,228,78,14>>,
            <<63,220,3,199,217,133,120,96>>, <<63,223,144,143,255,37,162,8>>, <<63,225,126,204,153,161,243,157>>, <<63,227,35,184,177,251,75,132>>,
            <<63,228,181,100,242,6,152,113>>, <<63,230,50,61,95,76,215,66>>, <<63,231,152,194,241,196,83,55>>, <<63,232,231,141,21,11,130,97>>,
            <<63,234,29,75,19,15,60,85>>, <<63,235,56,197,102,175,144,12>>, <<63,236,56,222,245,14,160,165>>, <<63,237,28,150,44,78,122,250>>,
            <<63,237,227,6,6,157,89,69>>, <<63,238,139,102,240,140,13,234>>, <<63,239,21,15,145,198,169,151>>, <<63,239,127,117,119,101,171,96>>,
            <<63,239,202,45,159,44,78,72>>, <<63,239,244,236,227,40,12,37>>, <<63,239,255,136,69,68,248,150>>, <<63,239,233,245,26,139,0,29>>,
            <<63,239,180,73,21,216,142,25>>, <<63,239,94,186,50,15,206,88>>, <<63,238,233,158,123,204,116,33>>, <<63,238,85,107,186,216,179,71>>,
            <<63,237,162,182,251,184,98,120>>, <<63,236,210,51,249,193,117,18>>, <<63,235,228,180,106,88,140,131>>, <<63,234,219,39,42,7,110,205>>,
            <<63,233,182,151,76,65,129,150>>, <<63,232,120,43,14,199,230,87>>, <<63,231,33,34,177,187,94,46>>, <<63,229,178,215,53,133,153,71>>,
            <<63,228,46,184,255,221,208,78>>, <<63,226,150,78,105,69,201,44>>, <<63,224,235,50,52,115,200,43>>, <<63,222,94,35,226,104,84,250>>,
            <<63,218,199,88,152,197,17,74>>, <<63,215,21,158,157,88,223,53>>, <<63,211,76,173,23,195,193,0>>, <<63,206,224,165,18,154,48,162>>,
            <<63,199,8,225,241,149,118,194>>, <<63,190,51,232,43,149,114,62>>, <<63,172,111,88,85,66,203,204>>, <<191,125,45,198,105,127,151,162>>,
            <<191,177,219,143,109,106,91,92>>, <<191,192,233,38,83,178,227,79>>, <<191,200,211,130,241,37,136,146>>, <<191,208,82,115,200,117,102,250>>,
            <<191,212,42,187,168,199,44,81>>, <<191,215,238,187,43,92,148,203>>, <<191,219,154,168,200,53,107,243>>, <<191,223,42,211,44,149,105,77>>,
            <<191,225,77,210,120,226,11,111>>, <<191,226,244,212,27,219,198,113>>, <<191,228,136,197,16,5,6,67>>, <<191,230,8,15,18,221,97,228>>,
            <<191,231,113,48,167,46,88,7>>, <<191,232,194,190,152,190,244,211>>, <<191,233,251,101,105,157,187,49>>, <<191,235,25,234,167,145,111,4>>,
            <<191,236,29,46,40,89,89,213>>, <<191,237,4,43,43,126,248,233>>, <<191,237,205,249,96,149,151,210>>, <<191,238,121,205,208,224,32,179>>,
            <<191,239,6,251,171,114,6,133>>, <<191,239,116,244,242,254,47,113>>, <<191,239,195,75,12,164,221,126>>, <<191,239,241,175,47,49,23,215>>,
            <<191,239,255,242,178,85,159,98>>, <<191,239,238,7,61,153,207,244>>, <<191,239,187,254,214,199,42,9>>, <<191,239,106,11,207,201,15,31>>,
            <<191,238,248,128,148,16,229,113>>, <<191,238,103,207,85,177,139,57>>, <<191,237,184,137,154,133,119,137>>, <<191,236,235,95,169,211,11,83>>,
            <<191,236,1,31,219,2,69,96>>, <<191,234,250,181,198,22,40,17>>, <<191,233,217,41,86,186,136,101>>, <<191,232,157,157,194,212,151,51>>,
            <<191,231,73,80,101,161,8,55>>, <<191,229,221,151,128,134,156,195>>, <<191,228,91,224,226,221,187,53>>, <<191,226,197,176,122,7,161,237>>,
            <<191,225,28,158,203,70,242,86>>, <<191,222,196,174,177,196,109,215>>, <<191,219,49,45,232,90,232,68>>, <<191,215,130,83,252,86,47,224>>,
            <<191,211,187,213,49,13,64,153>>, <<191,207,194,251,34,232,171,227>>, <<191,199,238,90,60,251,169,118>>, <<191,192,1,167,210,206,205,244>>,
            <<191,176,9,184,119,127,50,239>>, <<61,17,170,110,88,53,1,212>>, <<63,176,9,184,119,127,59,192>>, <<63,192,1,167,210,206,210,85>>,
            <<63,199,238,90,60,251,173,204>>, <<63,207,194,251,34,232,191,170>>, <<63,211,187,213,49,13,66,179>>, <<63,215,130,83,252,86,49,238>>,
            <<63,219,49,45,232,90,227,5>>, <<63,222,196,174,177,196,111,198>>, <<63,225,28,158,203,70,243,69>>, <<63,226,197,176,122,7,162,210>>,
            <<63,228,91,224,226,221,188,15>>, <<63,229,221,151,128,134,157,146>>, <<63,231,73,80,101,161,8,248>>, <<63,232,157,157,194,212,149,89>>,
            <<63,233,217,41,86,186,137,12>>, <<63,234,250,181,198,22,40,169>>, <<63,236,1,31,219,2,69,233>>, <<63,236,235,95,169,211,11,204>>,
            <<63,237,184,137,154,133,119,242>>, <<63,238,103,207,85,177,139,145>>, <<63,238,248,128,148,16,229,184>>, <<63,239,106,11,207,201,15,85>>,
            <<63,239,187,254,214,199,42,46>>, <<63,239,238,7,61,153,207,195>>, <<63,239,255,242,178,85,159,99>>, <<63,239,241,175,47,49,23,138>>,
            <<63,239,195,75,12,164,221,92>>, <<63,239,116,244,242,254,47,61>>, <<63,239,6,251,171,114,6,64>>, <<63,238,121,205,208,224,32,92>>,
            <<63,237,205,249,96,149,152,224>>, <<63,237,4,43,43,126,248,114>>, <<63,236,29,46,40,89,89,78>>, <<63,235,25,234,167,145,110,110>>,
            <<63,233,251,101,105,157,186,140>>, <<63,232,194,190,152,190,244,32>>, <<63,231,113,48,167,46,87,71>>, <<63,230,8,15,18,221,99,254>>,
            <<63,228,136,197,16,5,5,107>>, <<63,226,244,212,27,219,197,141>>, <<63,225,77,210,120,226,10,129>>, <<63,223,42,211,44,149,103,95>>,
            <<63,219,154,168,200,53,98,189>>, <<63,215,238,187,43,92,146,191>>, <<63,212,42,187,168,199,49,208>>, <<63,208,82,115,200,117,100,216>>,
            <<63,200,211,130,241,37,132,61>>, <<63,192,233,38,83,178,207,18>>, <<63,177,219,143,109,106,82,140>>, <<63,125,45,198,105,127,10,79>>,
            <<191,172,111,88,85,66,221,111>>, <<191,190,51,232,43,149,123,4>>, <<191,199,8,225,241,149,123,26>>, <<191,206,224,165,18,154,52,235>>,
            <<191,211,76,173,23,195,195,27>>, <<191,215,21,158,157,88,232,186>>, <<191,218,199,88,152,197,19,76>>, <<191,222,94,35,226,104,86,236>>,
            <<191,224,235,50,52,115,197,181>>, <<191,226,150,78,105,69,202,18>>, <<191,228,46,184,255,221,209,42>>, <<191,229,178,215,53,133,154,23>>,
            <<191,231,33,34,177,187,94,241>>, <<191,232,120,43,14,199,231,13>>, <<191,233,182,151,76,65,132,160>>, <<191,234,219,39,42,7,111,103>>,
            <<191,235,228,180,106,88,141,14>>, <<191,236,210,51,249,193,117,141>>, <<191,237,162,182,251,184,98,227>>, <<191,238,85,107,186,216,179,161>>,
            <<191,238,233,158,123,204,116,106>>, <<191,239,94,186,50,15,206,144>>, <<191,239,180,73,21,216,142,202>>, <<191,239,233,245,26,139,0,49>>,
            <<191,239,255,136,69,68,248,153>>, <<191,239,244,236,227,40,12,75>>, <<191,239,202,45,159,44,78,39>>, <<191,239,127,117,119,101,170,122>>,
            <<191,239,21,15,145,198,169,83>>, <<191,238,139,102,240,140,13,150>>, <<191,237,227,6,6,157,88,224>>, <<191,237,28,150,44,78,122,133>>,
            <<191,236,56,222,245,14,162,3>>, <<191,235,56,197,102,175,143,119>>, <<191,234,29,75,19,15,59,178>>, <<191,232,231,141,21,11,129,176>>,
            <<191,231,152,194,241,196,82,120>>, <<191,230,50,61,95,76,214,118>>, <<191,228,181,100,242,6,151,154>>, <<191,227,35,184,177,251,74,162>>,
            <<191,225,126,204,153,161,242,176>>, <<191,223,144,143,255,37,160,28>>, <<191,220,3,199,217,133,118,100>>, <<191,216,90,210,193,228,76,3>>,
            <<191,212,153,95,14,27,140,103>>, <<191,208,195,51,182,158,242,53>>, <<191,201,184,89,19,237,235,143>>, <<191,193,208,108,150,141,161,171>>,
            <<191,179,173,42,255,20,123,108>>, <<191,141,45,149,227,223,213,120>>, <<63,168,202,225,41,161,71,89>>, <<63,188,100,28,62,129,248,56>>,
            <<63,198,35,29,10,32,192,173>>, <<63,205,253,232,80,192,231,157>>, <<63,210,221,68,206,154,253,2>>, <<63,214,168,156,119,240,163,240>>,
            <<63,218,93,42,57,111,198,170>>, <<63,221,247,52,19,138,228,137>>, <<63,224,185,141,88,200,251,216>>, <<63,226,102,174,135,44,224,230>>,
            <<63,228,1,77,253,51,129,254>>, <<63,229,135,206,192,9,58,100>>, <<63,230,248,168,17,29,232,197>>, <<63,232,82,102,249,36,180,80>>,
            <<63,233,147,175,189,44,108,182>>, <<63,234,187,63,60,89,97,254>>, <<63,235,199,236,52,225,26,128>>, <<63,236,184,168,111,0,218,29>>,
            <<63,237,140,129,204,194,135,21>>, <<63,238,66,163,61,126,80,23>>, <<63,238,218,85,148,36,113,115>>, <<63,239,83,0,63,119,107,34>>,
            <<63,239,172,41,227,125,108,173>>, <<63,239,229,120,211,142,161,255>>, <<63,239,254,179,108,133,159,141>>, <<63,239,247,192,78,183,56,218>>,
            <<63,239,208,166,119,119,116,75>>, <<63,239,137,141,58,17,242,157>>, <<63,239,34,188,24,60,215,250>>, <<63,238,156,154,122,46,5,192>>,
            <<63,237,247,175,70,154,245,5>>, <<63,237,52,160,91,11,195,233>>, <<63,236,84,49,229,9,242,121>>, <<63,235,87,69,156,210,156,51>>,
            <<63,234,62,217,226,82,147,197>>, <<63,233,12,8,189,80,156,52>>, <<63,231,192,6,193,199,77,30>>, <<63,230,92,33,217,139,161,182>>,
            <<63,228,225,191,244,120,127,152>>, <<63,227,82,93,160,112,232,200>>, <<63,225,175,140,138,162,233,210>>, <<63,223,245,227,215,24,102,188>>,
            <<63,220,108,137,190,173,88,193>>, <<63,216,198,153,88,110,29,92>>, <<63,213,7,189,241,19,112,195>>, <<63,209,51,187,228,244,115,181>>,
            <<63,202,156,217,172,66,79,173>>, <<63,194,183,119,154,48,201,110>>, <<63,181,126,133,31,244,235,20>>, <<63,149,225,243,196,51,106,203>>,
            <<191,165,38,23,137,83,154,50>>, <<191,186,147,241,228,229,254,169>>, <<191,197,61,14,130,202,25,47>>, <<191,205,26,199,207,116,28,79>>,
            <<191,210,109,157,200,24,177,252>>, <<191,214,59,78,246,168,158,56>>, <<191,217,242,164,43,127,24,46>>, <<191,221,143,224,155,133,225,156>>,
            <<191,224,135,176,221,98,23,189>>, <<191,226,54,209,114,33,13,183>>, <<191,227,211,160,113,236,94,195>>, <<191,229,92,126,175,48,109,71>>,
            <<191,230,207,225,10,105,0,223>>, <<191,232,44,81,255,133,115,56>>, <<191,233,112,115,29,145,124,2>>, <<191,234,154,254,103,41,46,122>>,
            <<191,235,170,199,154,85,90,35>>, <<191,236,158,189,94,134,169,6>>, <<191,237,117,234,87,127,225,16>>, <<191,238,47,118,28,26,158,217>>,
            <<191,238,202,166,15,238,137,156>>, <<191,239,70,222,30,255,224,88>>, <<191,239,163,161,90,184,212,91>>, <<191,239,224,146,119,143,176,110>>,
            <<191,239,253,116,42,219,120,214>>, <<191,239,250,41,104,120,164,4>>, <<191,239,214,181,127,255,236,188>>, <<191,239,147,60,25,113,219,228>>,
            <<191,239,48,1,17,90,99,93>>, <<191,238,173,104,52,144,156,41>>, <<191,238,11,244,219,215,69,185>>, <<191,237,76,73,103,195,7,193>>,
            <<191,236,111,38,157,107,71,107>>, <<191,235,117,106,228,137,200,198>>, <<191,234,96,17,103,204,37,232>>, <<191,233,48,49,24,56,25,45>>,
            <<191,231,230,251,148,160,156,121>>, <<191,230,133,187,246,69,235,238>>, <<191,229,13,213,131,213,218,226>>, <<191,227,128,194,76,27,15,140>>,
            <<191,225,224,17,169,194,183,0>>, <<191,224,45,102,177,183,9,66>>, <<191,220,212,237,27,69,38,240>>, <<191,217,50,13,136,136,96,200>>,
            <<191,213,117,214,226,155,194,57>>, <<191,209,164,10,221,50,138,255>>, <<191,203,129,1,194,44,206,116>>, <<191,195,158,68,94,51,84,118>>,
            <<191,183,79,151,196,92,100,45>>, <<191,157,44,211,207,75,38,18>>, <<63,161,129,7,146,165,246,223>>, <<63,184,195,111,38,125,251,67>>,
            <<63,196,86,185,88,178,252,56>>, <<63,204,55,70,130,22,214,66>>, <<63,209,253,185,119,147,77,0>>, <<63,213,205,183,133,6,179,211>>,
            <<63,217,135,199,209,58,185,93>>, <<63,221,40,42,209,254,132,169>>, <<63,224,85,157,104,19,181,187>>, <<63,226,6,183,201,82,13,164>>,
            <<63,227,165,176,245,243,41,135>>, <<63,229,48,231,147,8,69,179>>, <<63,230,166,206,37,59,44,44>>, <<63,232,5,236,160,145,153,86>>,
            <<63,233,76,225,226,161,195,26>>, <<63,234,122,101,21,187,179,128>>, <<63,235,141,70,251,162,16,7>>, <<63,236,132,115,30,134,2,226>>,
            <<63,237,94,240,231,19,63,121>>, <<63,238,27,228,150,116,148,184>>, <<63,238,186,144,35,85,175,169>>, <<63,239,58,83,249,3,165,20>>,
            <<63,239,154,175,151,236,44,46>>, <<63,239,219,66,22,217,246,55>>, <<63,239,251,202,132,108,79,204>>, <<63,239,252,40,40,103,237,175>>,
            <<63,239,220,90,164,159,60,5>>, <<63,239,156,129,245,81,22,83>>, <<63,239,60,222,80,253,136,223>>, <<63,238,189,207,231,208,246,17>>,
            <<63,238,31,214,130,230,147,124>>, <<63,237,99,145,3,195,139,232>>, <<63,236,137,188,196,139,252,231>>, <<63,235,147,52,217,146,167,4>>,
            <<63,234,128,241,53,2,161,101>>, <<63,233,84,5,173,128,228,159>>, <<63,232,13,160,232,192,74,9>>, <<63,230,175,11,43,31,47,5>>,
            <<63,229,57,165,13,128,193,63>>, <<63,227,174,230,26,173,231,22>>, <<63,226,16,91,85,162,193,91>>, <<63,224,95,165,170,68,67,131>>,
            <<63,221,60,240,148,31,101,33>>, <<63,217,157,45,236,211,95,74>>, <<63,213,227,168,116,138,10,59>>, <<63,210,20,31,41,212,86,43>>,
            <<63,204,100,206,94,221,180,227>>, <<63,196,132,207,226,250,217,129>>, <<63,185,32,92,225,137,233,46>>, <<63,162,59,169,105,39,5,231>>,
            <<191,155,183,122,201,157,88,251>>, <<191,182,242,154,12,45,53,104>>, <<191,195,112,32,137,231,205,160>>, <<191,203,83,103,93,78,7,29>>,
            <<191,209,141,153,81,45,23,26>>, <<191,213,95,215,143,134,169,147>>, <<191,217,28,150,142,9,95,39>>, <<191,220,192,20,15,225,1,209>>,
            <<191,224,35,83,159,105,49,179>>, <<191,225,214,98,44,185,18,202>>, <<191,227,119,128,34,13,255,59>>, <<191,229,5,9,252,138,30,153>>,
            <<191,230,125,111,234,47,47,241>>, <<191,231,223,55,91,252,6,39>>, <<191,233,40,252,130,167,201,88>>, <<191,234,89,115,180,124,18,152>>,
            <<191,235,111,106,186,229,248,8>>, <<191,236,105,202,6,110,156,122>>, <<191,237,71,149,199,229,90,98>>, <<191,238,7,238,237,161,9,87>>,
            <<191,238,170,20,3,217,105,69>>, <<191,239,45,97,247,55,37,150>>, <<191,239,145,84,184,214,210,154>>, <<191,239,213,135,195,25,215,156>>,
            <<191,239,249,182,126,191,200,203>>, <<191,239,253,188,135,226,106,134>>, <<191,239,225,149,210,143,19,146>>, <<191,239,165,94,174,216,145,78>>,
            <<191,239,73,83,172,93,122,171>>, <<191,238,205,209,93,95,148,170>>, <<191,238,51,83,249,169,138,151>>, <<191,237,122,118,225,160,157,2>>,
            <<191,236,163,244,1,255,237,103>>, <<191,235,176,163,24,218,146,206>>, <<191,234,161,120,220,160,122,22>>, <<191,233,119,134,6,0,117,233>>,
            <<191,232,51,246,61,158,191,213>>, <<191,230,216,14,238,180,15,249>>, <<191,229,101,45,255,196,44,92>>, <<191,227,220,200,114,181,78,56>>,
            <<191,226,64,104,237,170,40,182>>, <<191,224,145,174,46,23,196,177>>, <<191,221,164,146,207,77,129,61>>, <<191,218,7,249,33,6,26,119>>,
            <<191,214,81,49,57,161,50,141>>, <<191,210,131,247,86,23,245,62>>, <<191,205,72,60,140,181,153,122>>, <<191,197,107,23,41,198,94,47>>,
            <<191,186,240,206,109,189,118,34>>, <<191,165,224,172,70,200,224,217>>, <<63,148,108,138,63,137,79,107>>, <<63,181,33,120,159,231,255,46>>,
            <<63,194,137,71,21,85,249,146>>, <<63,202,111,45,86,246,202,26>>, <<63,209,29,62,201,207,59,76>>, <<63,212,241,176,131,149,112,164>>,
            <<63,216,177,17,198,108,43,76>>, <<63,220,87,157,175,92,15,179>>, <<63,223,225,168,85,69,69,153>>, <<63,225,165,209,61,22,179,124>>,
            <<63,227,73,14,143,220,75,255>>, <<63,228,216,230,125,153,184,190>>, <<63,230,83,198,226,218,106,70>>, <<63,231,184,50,178,129,79,247>>,
            <<63,233,4,195,117,5,222,239>>, <<63,234,56,42,176,250,85,4>>, <<63,235,81,51,59,112,159,213>>, <<63,236,78,194,110,235,148,170>>,
            <<63,237,47,217,71,163,189,130>>, <<63,237,243,149,100,1,224,30>>, <<63,238,153,49,232,77,41,107>>, <<63,239,32,8,68,168,56,206>>,
            <<63,239,135,144,220,149,183,243>>, <<63,239,207,99,143,92,24,11>>, <<63,239,247,56,32,191,78,244>>, <<63,239,254,230,129,167,57,223>>,
            <<63,239,230,102,248,105,143,176>>, <<63,239,173,210,40,142,229,145>>, <<63,239,85,96,250,10,242,159>>, <<63,238,221,108,96,0,253,251>>,
            <<63,238,70,108,255,78,7,207>>, <<63,237,144,250,181,50,166,82>>, <<63,236,189,203,254,150,159,78>>, <<63,235,205,181,64,127,218,235>>,
            <<63,234,193,167,242,117,70,131>>, <<63,233,154,177,171,164,128,228>>, <<63,232,89,251,19,190,126,97>>, <<63,231,0,198,184,156,8,207>>,
            <<63,229,144,111,201,213,220,104>>, <<63,228,10,104,187,150,232,117>>, <<63,226,112,57,210,7,219,185>>, <<63,224,195,127,150,202,136,127>>,
            <<63,222,11,210,116,36,81,105>>, <<63,218,114,109,193,242,230,2>>, <<63,214,190,111,197,150,68,2>>, <<63,210,243,145,238,3,136,106>>,
            <<63,206,43,73,87,79,36,67>>, <<63,198,81,23,52,183,159,47>>, <<63,188,192,230,96,77,211,139>>, <<63,169,133,102,97,129,100,75>>,
            <<191,138,66,171,144,103,124,221>>, <<191,179,80,16,236,160,254,21>>, <<191,193,162,47,250,193,174,182>>, <<191,201,138,155,102,28,76,234>>,
            <<191,208,172,171,87,37,66,247>>, <<191,212,131,67,207,140,110,201>>, <<191,216,69,58,223,249,229,196>>, <<191,219,238,201,11,220,104,9>>,
            <<191,223,124,63,99,101,67,41>>, <<191,225,117,5,155,240,211,161>>, <<191,227,26,92,217,212,207,83>>, <<191,228,172,125,169,3,85,134>>,
            <<191,230,41,211,153,202,250,125>>, <<191,231,144,223,37,230,26,78>>, <<191,232,224,55,50,52,170,190>>, <<191,234,22,138,121,233,246,108>>,
            <<191,235,50,160,225,192,254,0>>, <<191,236,51,92,177,226,88,115>>, <<191,237,23,187,181,63,223,115>>, <<191,237,222,216,61,69,37,216>>,
            <<191,238,135,234,8,215,137,10>>, <<191,239,18,71,13,189,146,25>>, <<191,239,125,100,35,162,254,58>>, <<191,239,200,213,144,13,152,154>>,
            <<191,239,244,79,114,181,252,74>>, <<191,239,255,166,17,215,87,34>>, <<191,239,234,206,6,41,113,30>>, <<191,239,181,220,70,88,182,130>>,
            <<191,239,97,6,17,240,187,43>>, <<191,238,236,160,187,206,115,154>>, <<191,238,89,33,84,79,246,225>>, <<191,237,167,28,51,152,29,142>>,
            <<191,236,215,68,100,92,101,7>>, <<191,235,234,106,239,211,36,226>>, <<191,234,225,126,11,119,48,185>>, <<191,233,189,136,41,116,87,162>>,
            <<191,232,127,174,236,173,180,239>>, <<191,231,41,50,1,107,88,93>>, <<191,229,187,105,219,216,54,174>>, <<191,228,55,198,93,147,247,19>>,
            <<191,226,159,205,99,180,171,100>>, <<191,224,245,25,62,172,222,60>>, <<191,222,114,174,43,64,142,90>>, <<191,218,220,138,109,139,253,190>>,
            <<191,215,43,98,173,21,34,12>>, <<191,211,98,237,126,105,253,122>>, <<191,207,13,241,203,136,226,125>>, <<191,199,54,205,6,221,82,105>>,
            <<191,190,144,158,177,187,73,82>>, <<191,173,41,203,155,55,206,219>>, <<63,119,87,214,150,123,245,186>>, <<63,177,126,104,254,52,114,222>>,
            <<63,192,186,222,58,188,146,234>>, <<63,200,165,180,130,238,81,21>>, <<63,208,59,224,111,151,199,139>>, <<63,212,20,146,226,172,157,165>>,
            <<63,215,217,19,65,90,168,179>>, <<63,219,133,151,130,8,75,111>>, <<63,223,22,109,186,120,22,217>>, <<63,225,67,255,235,144,139,127>>,
            <<63,226,235,107,155,67,157,155>>, <<63,228,127,208,18,121,206,186>>, <<63,229,255,150,154,133,247,29>>, <<63,231,105,61,56,245,102,91>>,
            <<63,232,187,88,51,193,141,107>>, <<63,233,244,147,127,32,118,240>>, <<63,235,19,180,19,132,58,93>>, <<63,236,23,153,42,113,112,177>>,
            <<63,236,255,61,96,238,2,212>>, <<63,237,201,183,190,100,55,253>>, <<63,238,118,60,158,241,158,199>>, <<63,239,4,30,128,54,40,211>>,
            <<63,239,114,206,175,213,131,185>>, <<63,239,193,221,218,251,24,242>>, <<63,239,240,252,126,80,128,49>>, <<63,239,255,251,53,245,166,219>>,
            <<63,239,238,202,237,42,83,198>>, <<63,239,189,124,237,121,15,49>>, <<63,239,108,66,205,84,52,165>>, <<63,238,251,110,62,54,158,38>>,
            <<63,238,107,112,186,122,36,92>>, <<63,237,188,219,19,54,131,211>>, <<63,236,240,92,222,155,122,223>>, <<63,236,6,195,199,88,152,111>>,
            <<63,235,0,250,189,196,88,7>>, <<63,233,224,9,11,146,147,172>>, <<63,232,165,17,75,7,240,138>>, <<63,231,81,80,66,180,152,3>>,
            <<63,229,230,27,166,220,47,212>>, <<63,228,100,224,193,203,128,166>>, <<63,226,207,35,4,117,88,189>>, <<63,225,38,122,128,200,106,104>>,
            <<63,222,217,36,158,139,73,91>>, <<63,219,70,77,194,232,67,113>>, <<63,215,152,8,133,197,59,174>>, <<63,211,210,8,148,239,218,178>>,
            <<63,207,240,50,247,143,22,5>>, <<63,200,28,53,164,61,7,72>>, <<63,192,47,248,173,226,37,184>>, <<63,176,102,231,235,118,245,26>>,
            <<63,87,87,222,89,245,255,51>>, <<191,175,89,13,194,168,122,247>>, <<191,191,166,169,173,53,210,192>>, <<191,199,192,123,166,183,13,54>>,
            <<191,207,149,191,20,144,33,135>>, <<191,211,165,159,45,25,242,186>>, <<191,215,108,156,82,66,200,169>>, <<191,219,28,10,111,186,220,246>>,
            <<191,222,176,52,173,31,240,18>>, <<191,225,18,192,207,0,15,98>>, <<191,226,188,59,112,72,11,123>>, <<191,228,82,222,78,148,171,80>>,
            <<191,229,213,16,113,133,160,208>>, <<191,231,65,77,111,126,223,248>>, <<191,232,150,38,244,77,15,145>>, <<191,233,210,70,49,147,231,52>>,
            <<191,234,244,109,55,148,81,142>>, <<191,235,251,120,52,239,84,229>>, <<191,236,230,94,156,36,61,132>>, <<191,237,180,52,45,162,217,184>>,
            <<191,238,100,41,229,102,46,42>>, <<191,238,245,142,203,40,170,193>>, <<191,239,103,208,164,96,121,238>>, <<191,239,186,124,135,80,231,249>>,
            <<191,239,237,63,78,156,252,122>>, <<191,239,255,229,236,230,254,171>>, <<191,239,242,93,160,40,220,84>>, <<191,239,196,180,4,145,189,205>>,
            <<191,239,119,23,6,213,214,18>>, <<191,239,9,212,181,254,52,125>>, <<191,238,125,90,244,231,12,137>>, <<191,237,210,55,11,187,88,215>>,
            <<191,237,9,21,25,221,32,194>>, <<191,236,34,191,104,201,39,23>>, <<191,235,32,29,160,164,49,35>>, <<191,234,2,51,223,62,124,237>>,
            <<191,232,202,33,178,119,186,115>>, <<191,231,121,32,247,10,164,96>>, <<191,230,16,132,156,227,21,142>>, <<191,228,145,183,82,60,21,32>>,
            <<191,226,254,58,22,220,176,3>>, <<191,225,87,162,184,226,122,243>>, <<191,223,63,52,121,62,87,21>>, <<191,219,175,182,98,71,132,186>>,
            <<191,216,4,95,230,78,101,195>>, <<191,212,64,225,192,16,52,148>>, <<191,208,105,4,245,114,184,129>>, <<191,201,1,78,17,221,3,229>>,
            <<191,193,23,108,44,188,177,174>>, <<191,178,56,179,124,116,10,60>>, <<191,129,129,217,45,99,114,56>>, <<63,171,180,225,70,231,124,183>>,
            <<63,189,215,45,160,212,132,116>>, <<63,198,218,243,203,209,88,167>>, <<63,206,179,84,62,21,130,54>>, <<63,211,54,106,31,214,120,197>>,
            <<63,214,255,215,123,110,158,233>>, <<63,218,178,35,51,255,193,211>>, <<63,222,73,149,143,86,163,222>>, <<63,224,225,72,234,8,131,216>>,
            <<63,226,140,204,245,210,202,37>>, <<63,228,37,168,242,206,49,58>>, <<63,229,170,65,172,55,128,137>>, <<63,231,25,16,78,85,42,7>>,
            <<63,232,112,163,239,137,76,127>>, <<63,233,175,163,3,89,112,177>>, <<63,234,212,204,181,246,193,0>>, <<63,235,222,250,46,233,56,26>>,
            <<63,236,205,31,185,153,97,130>>, <<63,237,158,77,210,142,75,162>>, <<63,238,81,178,24,80,241,46>>, <<63,238,230,152,31,2,209,226>>,
            <<63,239,92,106,37,210,237,15>>, <<63,239,178,177,173,154,158,106>>, <<63,239,233,23,240,10,226,231>>, <<63,239,255,102,54,242,41,53>>,
            <<63,239,245,134,19,66,232,36>>, <<63,239,203,129,115,163,162,120>>, <<63,239,129,130,154,113,168,194>>, <<63,239,23,211,243,64,164,87>>,
            <<63,238,142,223,200,1,165,239>>, <<63,237,231,47,214,29,10,11>>, <<63,237,33,108,195,234,175,212>>, <<63,236,62,93,119,19,195,182>>,
            <<63,235,62,230,76,136,226,112>>, <<63,234,36,8,50,213,145,6>>, <<63,232,238,223,167,184,53,158>>, <<63,231,160,163,154,2,58,169>>,
            <<63,230,58,164,48,224,114,169>>, <<63,228,190,73,121,197,239,27>>, <<63,227,45,17,254,77,128,203>>, <<63,225,136,145,67,126,4,25>>,
            <<63,223,164,220,103,232,216,217>>, <<63,220,24,194,237,23,114,109>>, <<63,216,112,103,102,93,59,4>>, <<63,212,175,119,143,33,39,51>>,
            <<63,208,217,185,219,56,148,235>>, <<63,201,230,19,85,206,125,3>>, <<63,193,254,166,211,168,138,164>>, <<63,180,10,66,115,106,162,216>>,
            <<63,144,12,62,42,210,144,180>>, <<191,168,16,88,165,103,106,98>>, <<191,188,7,78,85,206,84,131>>, <<191,197,245,31,237,158,196,17>>,
            <<191,205,208,131,76,198,145,220>>, <<191,210,198,245,44,189,140,11>>, <<191,214,146,198,38,157,106,52>>, <<191,218,71,227,47,14,117,16>>,
            <<191,221,226,145,182,105,178,81>>, <<191,224,175,152,225,47,241,61>>, <<191,226,93,32,201,163,172,207>>, <<191,227,248,48,149,129,119,98>>,
            <<191,229,127,42,216,250,177,94>>, <<191,230,240,134,91,76,22,224>>, <<191,232,74,207,162,56,73,231>>, <<191,233,140,170,103,163,220,176>>,
            <<191,234,180,210,247,219,47,42>>, <<191,235,194,31,119,33,209,194>>, <<191,236,179,129,13,67,235,121>>, <<191,237,136,4,245,252,93,193>>,
            <<191,238,62,213,117,29,202,100>>, <<191,238,215,58,173,136,206,37>>, <<191,239,80,155,90,23,75,33>>, <<191,239,170,125,103,194,197,170>>,
            <<191,239,228,134,112,106,202,188>>, <<191,239,254,124,21,191,229,79>>, <<191,239,248,68,59,247,177,228>>, <<191,239,209,229,36,15,6,110>>,
            <<191,239,139,133,101,127,194,235>>, <<191,239,37,107,199,112,166,228>>, <<191,238,159,254,249,134,38,89>>, <<191,237,251,197,44,155,229,245>>,
            <<191,237,57,99,139,206,171,216>>, <<191,236,89,157,150,94,150,45>>, <<191,235,93,84,91,16,156,108>>, <<191,234,69,133,149,213,6,97>>,
            <<191,233,19,74,176,150,184,174>>, <<191,231,199,215,168,51,188,49>>, <<191,230,100,121,214,187,225,53>>, <<191,228,234,150,164,44,193,224>>,
            <<191,227,91,170,30,252,179,223>>, <<191,225,185,69,125,221,209,15>>, <<191,224,5,13,140,57,189,203>>, <<191,220,129,114,5,247,222,220>>,
            <<191,216,220,29,158,168,50,93>>, <<191,213,29,200,146,89,10,176>>, <<191,209,74,54,182,65,9,146>>, <<191,202,202,130,119,54,207,143>>,
            <<191,194,229,165,161,158,63,98>>, <<191,181,219,142,195,252,71,160>>, <<191,151,87,90,95,156,188,172>>, <<63,164,107,127,251,156,58,248>>,
            <<63,186,55,17,210,230,110,203>>, <<63,197,15,3,8,125,174,133>>, <<63,204,237,79,50,253,183,41>>, <<63,210,87,65,198,127,12,69>>,
            <<63,214,37,105,190,140,237,138>>, <<63,217,221,75,194,69,187,78>>, <<63,221,123,42,120,245,109,254>>, <<63,224,125,177,89,183,19,9>>,
            <<63,226,45,55,138,71,208,24>>, <<63,227,202,117,205,232,101,34>>, <<63,229,83,204,135,29,221,243>>, <<63,230,199,176,29,55,9,185>>,
            <<63,232,36,170,138,42,117,107>>, <<63,233,105,92,210,194,9,34>>, <<63,234,148,128,103,154,2,180>>, <<63,235,164,232,109,144,36,144>>,
            <<63,236,153,130,236,88,237,74>>, <<63,237,113,89,226,10,125,81>>, <<63,238,43,148,58,135,249,211>>, <<63,238,199,118,169,212,154,244>>,
            <<63,239,68,100,104,114,229,225>>, <<63,239,161,223,209,18,135,69>>, <<63,239,223,138,222,238,67,9>>, <<63,239,253,39,140,90,224,8>>,
            <<63,239,250,152,17,39,245,201>>, <<63,239,215,223,0,147,223,212>>, <<63,239,149,31,70,180,182,163>>, <<63,239,50,156,5,88,233,247>>,
            <<63,238,176,184,80,130,201,66>>, <<63,238,15,246,202,194,244,148>>, <<63,237,80,249,33,213,206,223>>, <<63,236,116,127,108,8,54,28>>,
            <<63,235,123,103,103,6,236,30>>, <<63,234,102,171,152,219,41,13>>, <<63,233,55,98,83,244,100,94>>, <<63,231,238,188,159,60,238,17>>,
            <<63,230,142,5,3,82,220,114>>, <<63,229,22,158,62,25,178,209>>, <<63,227,138,1,221,243,78,32>>, <<63,225,233,190,198,6,157,226>>,
            <<63,224,55,119,157,18,124,39>>, <<63,220,233,194,80,191,107,250>>, <<63,217,71,129,40,243,248,65>>, <<63,213,139,211,90,210,230,234>>,
            <<63,209,186,122,16,110,160,100>>, <<63,203,174,152,126,90,62,161>>, <<63,195,204,101,150,92,250,210>>, <<63,183,172,146,98,167,76,182>>,
            <<63,158,162,40,243,94,148,211>>, <<191,160,198,99,104,4,18,35>>, <<191,184,102,126,32,22,38,86>>, <<191,196,40,160,25,191,87,86>>,
            <<191,204,9,186,228,95,33,93>>, <<191,209,231,81,96,154,139,201>>, <<191,213,183,195,174,244,156,7>>, <<191,217,114,94,80,39,11,138>>,
            <<191,221,19,97,46,224,213,242>>, <<191,224,75,146,249,151,53,155>>, <<191,225,253,17,215,23,89,185>>, <<191,227,156,121,52,25,205,252>>,
            <<191,229,40,39,70,221,132,52>>, <<191,230,158,142,27,231,15,83>>, <<191,231,254,53,38,60,221,218>>, <<191,233,69,186,186,29,128,81>>,
            <<191,234,115,213,112,179,25,17>>, <<191,235,135,85,115,94,53,61>>, <<191,236,127,37,173,74,233,182>>, <<191,237,90,76,226,28,191,217>>,
            <<191,238,23,238,168,153,77,190>>, <<191,238,183,76,72,85,86,68>>, <<191,239,55,197,121,133,112,38>>, <<191,239,152,217,6,49,79,144>>,
            <<191,239,218,37,76,39,160,28>>, <<191,239,251,104,159,47,171,7>>, <<191,239,252,129,139,22,15,169>>, <<191,239,221,110,245,82,30,255>>,
            <<191,239,158,80,30,34,3,128>>, <<191,239,63,100,129,28,151,118>>, <<191,238,193,11,149,88,134,50>>, <<191,238,35,196,109,104,238,198>>,
            <<191,237,104,45,55,144,24,194>>, <<191,236,143,2,158,168,195,253>>, <<191,235,153,31,12,102,19,233>>, <<191,234,135,121,205,168,239,140>>,
            <<191,233,91,38,25,199,179,228>>, <<191,232,21,81,253,194,141,99>>, <<191,230,183,69,44,122,143,141>>, <<191,229,66,95,181,29,79,103>>,
            <<191,227,184,24,161,16,115,232>>, <<191,226,25,252,122,193,50,46>>, <<191,224,105,171,190,211,54,121>>, <<191,221,81,178,114,128,10,17>>,
            <<191,217,178,144,160,24,59,42>>, <<191,213,249,150,122,147,93,168>>, <<191,210,42,130,116,98,228,214>>, <<191,204,146,82,116,165,37,210>>,
            <<191,196,178,227,178,117,108,133>>, <<191,185,125,71,68,220,170,231>>, <<191,162,246,72,210,178,143,217>>, <<63,154,66,30,19,254,99,175>>,
            <<63,182,149,153,70,120,71,25>>, <<63,195,65,250,31,157,252,150>>, <<63,203,37,201,85,207,6,201>>, <<63,209,119,37,111,90,123,252>>,
            <<63,213,73,213,100,128,193,15>>, <<63,217,7,28,60,81,244,18>>, <<63,220,171,55,49,89,1,223>>, <<63,224,25,62,103,128,14,51>>,
            <<63,225,204,176,80,51,138,146>>, <<63,227,110,59,97,7,107,94>>, <<63,228,252,59,169,98,6,231>>, <<63,230,117,32,224,41,56,236>>,
            <<63,231,215,111,246,87,169,222>>, <<63,233,33,196,148,56,208,136>>, <<63,234,82,210,127,204,65,243>>, <<63,235,105,102,234,231,221,149>>,
            <<63,236,100,105,167,200,200,160>>, <<63,237,66,222,66,220,224,124>>, <<63,238,3,229,0,169,70,211>>, <<63,238,166,187,190,206,147,77>>,
            <<63,239,42,190,183,72,119,171>>, <<63,239,143,105,37,36,110,232>>, <<63,239,212,85,202,9,196,106>>, <<63,239,249,63,84,12,173,191>>,
            <<63,239,254,0,163,102,20,179>>, <<63,239,226,148,239,201,235,221>>, <<63,239,167,23,205,54,128,10>>, <<63,239,75,197,16,55,244,218>>,
            <<63,238,208,248,145,187,206,113>>, <<63,238,55,45,210,177,14,62>>, <<63,237,126,255,127,209,202,86>>, <<63,236,169,38,214,19,44,63>>,
            <<63,235,182,122,232,88,75,215>>, <<63,234,167,239,199,35,69,38>>, <<63,233,126,149,139,30,24,91>>, <<63,232,59,151,67,114,37,105>>,
            <<63,230,224,57,201,1,158,89>>, <<63,229,109,218,119,177,83,37>>, <<63,227,229,237,207,11,105,171>>, <<63,226,73,253,251,156,121,75>>,
            <<63,224,155,169,74,131,219,212>>, <<63,221,185,65,17,139,121,149>>, <<63,218,29,74,160,4,72,5>>, <<63,214,103,16,132,141,100,55>>,
            <<63,210,154,78,109,131,177,21>>, <<63,205,117,173,100,182,34,127>>, <<63,197,153,28,247,82,196,9>>, <<63,187,77,167,97,18,184,134>>,
            <<63,166,155,62,27,42,29,109>>, <<191,146,247,30,3,77,82,47>>, <<191,180,196,105,80,54,97,157>>, <<191,194,91,20,25,50,167,128>>,
            <<191,202,65,125,125,103,129,89>>, <<191,209,6,191,103,207,94,220>>, <<191,212,219,160,76,206,22,71>>, <<191,216,155,134,235,127,123,200>>,
            <<191,220,66,173,218,204,137,98>>, <<191,223,205,104,149,171,33,49>>, <<191,225,156,19,150,132,157,20>>, <<191,227,63,188,238,123,227,10>>,
            <<191,228,208,10,64,189,205,220>>, <<191,230,75,104,243,196,199,83>>, <<191,231,176,91,123,108,97,144>>, <<191,232,253,122,216,174,28,153>>,
            <<191,234,49,120,2,175,238,104>>, <<191,235,75,29,55,185,104,249>>, <<191,236,73,79,52,188,154,36>>, <<191,237,43,14,82,57,82,143>>,
            <<191,237,239,119,133,92,77,224>>, <<191,238,149,197,68,87,162,8>>, <<191,239,29,80,77,14,212,243>>, <<191,239,133,144,77,78,182,130>>,
            <<191,239,206,28,107,231,229,71>>, <<191,239,246,171,178,34,17,93>>, <<191,239,255,21,85,29,232,154>>, <<191,239,231,80,222,219,229,73>>,
            <<191,239,175,118,54,190,191,109>>, <<191,239,87,189,137,128,230,192>>, <<191,238,224,127,16,181,64,107>>, <<191,238,74,50,186,11,239,139>>,
            <<191,237,149,111,174,180,108,140>>, <<191,236,194,235,187,86,56,97>>, <<191,235,211,122,153,57,18,144>>, <<191,234,200,13,25,84,150,138>>,
            <<191,233,161,176,50,29,105,151>>, <<191,232,97,139,241,3,144,6>>, <<191,231,8,226,80,177,251,150>>, <<191,229,153,13,245,58,184,133>>,
            <<191,228,19,128,207,117,142,157>>, <<191,226,121,194,168,239,148,166>>, <<191,224,205,111,153,225,230,187>>, <<191,222,32,108,213,119,200,207>>,
            <<191,218,135,173,197,195,170,106>>, <<191,214,212,64,12,167,1,132>>, <<191,211,9,220,135,255,176,174>>, <<191,206,88,166,90,103,219,3>>,
            <<191,198,127,14,103,69,147,109>>, <<191,189,29,172,174,217,221,8>>, <<191,170,63,232,52,55,160,100>>, <<63,135,87,189,190,150,0,78>>,
            <<63,178,242,244,72,114,246,156>>, <<63,193,115,241,6,107,148,17>>, <<63,201,92,218,82,111,97,70>>, <<63,208,150,32,191,202,207,110>>,
            <<63,212,109,37,214,100,146,138>>, <<63,216,47,159,195,125,135,36>>, <<63,219,217,198,134,231,82,149>>, <<63,223,103,234,151,91,132,189>>,
            <<63,225,107,60,75,183,160,166>>, <<63,227,16,254,119,24,199,160>>, <<63,228,163,147,159,235,99,37>>, <<63,230,33,102,225,121,99,118>>,
            <<63,231,136,248,55,116,68,62>>, <<63,232,216,222,0,45,129,247>>, <<63,234,15,198,104,75,184,144>>, <<63,235,44,120,190,142,95,171>>,
            <<63,236,45,214,174,74,130,217>>, <<63,237,18,221,95,100,39,241>>, <<63,237,218,166,122,162,194,248>>, <<63,238,132,105,17,90,228,157>>,
            <<63,239,15,122,103,132,37,51>>, <<63,239,123,78,159,112,12,158>>, <<63,239,199,121,70,117,72,234>>, <<63,239,243,173,194,1,170,181>>,
            <<63,239,255,191,156,165,78,35>>, <<63,239,235,162,178,201,91,28>>, <<63,239,183,107,62,229,114,144>>, <<63,239,99,77,197,39,125,121>>,
            <<63,238,239,158,222,162,87,219>>, <<63,238,92,210,228,56,103,107>>, <<63,237,171,125,121,151,203,68>>, <<63,236,220,80,248,189,185,63>>,
            <<63,235,240,29,190,150,112,12>>, <<63,234,231,209,89,110,32,60>>, <<63,233,196,117,154,5,144,19>>, <<63,232,135,47,136,58,196,117>>,
            <<63,231,49,62,60,82,143,56>>, <<63,229,195,249,158,11,106,65>>, <<63,228,64,209,10,188,103,69>>, <<63,226,169,73,227,219,255,17>>,
            <<63,224,254,254,7,98,130,170>>, <<63,222,135,52,103,35,198,81>>, <<63,218,241,184,175,130,201,33>>, <<63,215,65,35,167,190,9,10>>,
            <<63,211,121,43,80,211,83,240>>, <<63,207,59,58,98,218,209,142>>, <<63,199,100,181,5,141,20,25>>, <<63,190,237,81,38,240,129,176>>,
            <<63,173,228,58,255,248,147,74>>, <<191,113,129,227,168,123,21,92>>, <<191,177,33,64,59,54,188,23>>, <<191,192,140,147,232,1,247,207>>,
            <<191,200,119,226,205,79,116,209>>, <<191,208,37,74,237,218,212,177>>, <<191,211,254,103,112,179,31,193>>, <<191,215,195,104,43,42,20,155>>,
            <<191,219,112,130,146,141,162,51>>, <<191,223,2,4,37,157,30,191>>, <<191,225,58,43,18,60,132,191>>, <<191,226,226,0,150,84,150,82>>,
            <<191,228,118,216,90,203,123,3>>, <<191,229,247,27,52,253,80,237>>, <<191,231,97,70,173,110,152,34>>, <<191,232,179,238,132,123,137,186>>,
            <<191,233,237,190,32,174,244,237>>, <<191,235,13,121,229,80,45,150>>, <<191,236,18,0,111,207,134,233>>, <<191,236,250,75,186,210,27,104>>,
            <<191,237,197,114,37,184,42,174>>, <<191,238,114,167,95,149,3,129>>, <<191,239,1,61,52,172,40,229>>, <<191,239,112,164,61,165,7,58>>,
            <<191,239,192,108,111,197,4,35>>, <<191,239,240,69,141,158,219,12>>, <<191,239,255,255,119,197,243,19>>, <<191,239,239,138,93,52,127,52>>,
            <<191,239,190,246,203,51,196,172>>, <<191,239,110,117,156,182,124,120>>, <<191,238,254,87,201,54,25,130>>, <<191,238,111,14,19,68,83,236>>,
            <<191,237,193,40,151,34,237,121>>, <<191,236,245,86,57,211,162,69>>, <<191,236,12,99,249,50,54,77>>, <<191,235,7,60,29,201,92,249>>,
            <<191,233,230,229,79,49,238,157>>, <<191,232,172,129,139,233,94,86>>, <<191,231,89,77,5,169,31,40>>, <<191,229,238,156,227,100,77,154>>,
            <<191,228,109,221,234,43,115,84>>, <<191,226,216,147,14,79,121,66>>, <<191,225,48,83,238,52,195,159>>, <<191,222,237,150,112,187,146,70>>,
            <<191,219,91,105,252,147,119,174>>, <<191,215,173,185,235,172,203,29>>, <<191,211,232,57,85,205,192,77>>, <<191,208,14,179,70,63,153,93>>,
            <<191,200,74,13,214,97,85,118>>, <<191,192,94,71,97,171,143,20>>, <<191,176,196,21,48,213,229,128>>, <<191,103,87,220,204,119,105,24>>,
            <<63,174,158,166,106,183,194,224>>, <<63,191,73,255,126,224,41,230>>, <<63,199,146,153,231,137,83,116>>, <<63,207,104,126,210,137,202,56>>,
            <<63,211,143,102,140,10,99,83>>, <<63,215,86,225,138,110,191,114>>, <<63,219,6,227,91,216,6,77>>, <<63,222,155,182,147,87,13,223>>,
            <<63,225,8,224,141,67,202,92>>, <<63,226,178,195,232,120,181,29>>, <<63,228,73,217,6,35,41,181>>, <<63,229,204,134,122,251,157,85>>,
            <<63,231,57,71,97,94,246,182>>, <<63,232,142,172,224,111,150,54>>, <<63,233,203,95,157,9,61,172>>, <<63,234,238,33,19,20,209,105>>,
            <<63,235,245,204,213,224,92,11>>, <<63,236,225,89,182,57,124,240>>, <<63,237,175,218,205,34,64,231>>, <<63,238,96,128,106,20,58,81>>,
            <<63,238,242,152,227,226,52,241>>, <<63,239,101,145,75,102,112,201>>, <<63,239,184,245,255,73,175,61>>, <<63,239,236,115,32,78,114,70>>,
            <<63,239,255,212,229,171,119,155>>, <<63,239,243,7,209,32,153,148>>, <<63,239,198,24,194,145,178,210>>, <<63,239,121,52,235,19,209,178>>,
            <<63,239,12,169,159,121,186,114>>, <<63,238,128,228,10,141,112,163>>, <<63,237,214,112,191,69,9,54>>, <<63,237,13,251,43,97,32,169>>,
            <<63,236,40,76,235,3,62,42>>, <<63,235,38,76,253,233,98,219>>, <<63,234,8,254,223,26,239,9>>, <<63,232,209,129,127,240,75,20>>,
            <<63,231,129,14,39,123,239,23>>, <<63,230,24,247,55,118,252,158>>, <<63,228,154,166,215,238,78,99>>, <<63,227,7,157,139,6,69,38>>,
            <<63,225,97,112,170,67,164,255>>, <<63,223,83,145,157,188,229,19>>, <<63,219,196,192,77,113,175,105>>, <<63,216,26,1,111,78,231,30>>,
            <<63,212,87,5,37,149,75,191>>, <<63,208,127,147,243,143,72,36>>, <<63,201,47,21,222,253,103,235>>, <<63,193,69,175,191,178,32,120>>,
            <<63,178,149,213,30,237,95,151>>, <<63,132,108,204,209,202,120,215>>, <<191,170,250,102,136,244,32,34>>, <<191,189,122,111,29,206,118,121>>,
            <<191,198,173,2,155,173,42,242>>, <<191,206,133,255,84,2,28,121>>, <<191,211,32,36,153,152,72,140>>, <<191,214,234,13,74,59,245,47>>,
            <<191,218,156,234,66,14,93,192>>, <<191,222,53,3,52,199,157,154>>, <<191,224,215,93,96,188,155,28>>, <<191,226,131,73,10,159,90,192>>,
            <<191,228,28,150,55,153,198,173>>, <<191,229,161,169,65,18,79,104>>, <<191,231,16,250,216,75,152,108>>, <<191,232,105,25,143,242,61,159>>,
            <<191,233,168,171,79,168,250,59>>, <<191,234,206,110,176,29,135,234>>, <<191,235,217,60,62,72,53,148>>, <<191,236,200,7,164,145,35,156>>,
            <<191,237,153,224,184,176,15,175>>, <<191,238,77,244,109,55,141,135>>, <<191,238,227,141,165,216,144,132>>, <<191,239,90,21,237,136,218,14>>,
            <<191,239,177,22,13,213,24,117>>, <<191,239,232,54,134,198,133,203>>, <<191,239,255,63,230,227,112,254>>, <<191,239,246,27,2,242,47,81>>,
            <<191,239,204,209,13,70,97,79>>, <<191,239,131,139,140,129,28,111>>, <<191,239,26,148,49,205,65,250>>, <<191,238,146,84,142,194,18,197>>,
            <<191,237,235,85,171,54,115,64>>, <<191,237,38,63,123,111,184,147>>, <<191,236,67,216,55,54,160,9>>, <<191,235,69,3,146,124,60,200>>,
            <<191,234,42,193,216,87,124,174>>, <<191,232,246,46,233,65,100,24>>, <<191,231,168,129,29,147,137,120>>, <<191,230,67,8,13,103,172,136>>,
            <<191,228,199,43,63,18,128,30>>, <<191,227,54,104,189,141,13,33>>, <<191,225,146,83,152,56,90,159>>, <<191,223,185,36,154,251,152,0>>,
            <<191,220,45,186,67,199,209,25>>, <<191,216,133,248,202,133,207,233>>, <<191,212,197,141,79,172,187,75>>, <<191,208,240,61,193,242,242,96>>,
            <<191,202,19,202,37,168,152,243>>, <<191,194,44,222,171,236,73,176>>, <<191,180,103,87,61,65,102,228>>, <<191,145,129,175,65,43,148,41>>,
            <<63,167,85,204,237,164,211,107>>, <<63,187,170,124,178,139,140,215>>, <<63,197,199,31,229,79,230,218>>, <<63,205,163,26,81,106,36,147>>,
            <<63,210,176,163,11,99,14,226>>, <<63,214,124,236,212,132,76,145>>, <<63,218,50,152,165,163,151,92>>, <<63,221,205,235,95,127,120,130>>,
            <<63,224,165,162,49,82,117,94>>, <<63,226,83,144,154,177,167,254>>, <<63,227,239,16,133,183,44,44>>, <<63,229,118,132,21,208,129,66>>,
            <<63,230,232,97,152,59,143,49>>, <<63,232,67,53,15,251,202,45>>, <<63,233,133,161,171,249,229,133>>, <<63,234,174,99,37,213,102,82>>,
            <<63,235,188,79,8,7,140,143>>, <<63,236,174,85,218,15,91,107>>, <<63,237,131,132,49,121,0,105>>, <<63,238,59,3,166,174,2,223>>,
            <<63,238,212,27,172,151,212,10>>, <<63,239,78,50,74,60,28,9>>, <<63,239,168,204,181,151,241,104>>, <<63,239,227,143,207,30,72,231>>,
            <<63,239,254,64,125,93,103,210>>, <<63,239,248,195,232,111,44,216>>, <<63,239,211,31,148,248,103,164>>, <<63,239,141,121,94,156,24,92>>,
            <<63,239,40,23,81,232,43,207>>, <<63,238,163,95,101,226,0,186>>, <<63,237,255,215,21,121,137,28>>, <<63,237,62,34,217,74,67,74>>,
            <<63,236,95,5,130,48,232,155>>, <<63,235,99,95,117,92,76,132>>, <<63,234,76,45,202,158,123,73>>, <<63,233,26,137,77,225,5,144>>,
            <<63,231,207,165,100,188,116,116>>, <<63,230,108,206,217,78,255,68>>, <<63,228,243,106,139,137,123,38>>, <<63,227,100,244,10,66,252,163>>,
            <<63,225,194,252,21,124,74,228>>, <<63,224,15,39,11,83,3,25>>, <<63,220,150,86,130,115,151,44>>, <<63,216,241,158,150,61,151,83>>,
            <<63,213,51,208,100,119,147,16>>, <<63,209,96,175,58,183,123,219>>, <<63,202,248,39,177,193,67,222>>, <<63,195,19,209,37,121,92,161>>,
            <<63,182,56,149,127,157,94,60>>, <<63,152,204,189,224,26,86,89>>, <<191,163,176,229,182,117,137,95>>, <<191,185,218,46,68,26,52,240>>,
            <<191,196,224,244,193,1,84,193>>, <<191,204,191,210,189,95,6,249>>, <<191,210,64,227,84,68,130,228>>, <<191,214,15,129,148,55,209,197>>,
            <<191,217,199,239,232,48,249,149>>, <<191,221,102,112,106,93,133,124>>, <<191,224,115,175,164,107,45,212>>, <<191,226,35,155,55,101,108,223>>,
            <<191,227,193,72,135,225,148,34>>, <<191,229,75,23,136,180,166,183>>, <<191,230,191,124,40,53,25,64>>, <<191,232,28,255,222,146,115,205>>,
            <<191,233,98,67,38,131,132,116>>, <<191,234,141,254,222,208,19,196>>, <<191,235,159,5,147,82,229,195>>, <<191,236,148,68,172,40,196,88>>,
            <<191,237,108,197,129,219,232,182>>, <<191,238,39,174,85,117,213,134>>, <<191,238,196,67,43,126,66,199>>, <<191,239,65,230,137,10,217,172>>,
            <<191,239,160,26,18,33,119,250>>, <<191,239,222,127,8,205,220,178>>, <<191,239,252,214,172,106,209,137>>, <<191,239,251,2,120,191,5,98>>,
            <<191,239,217,4,68,174,28,212>>, <<191,239,150,254,64,95,26,157>>, <<191,239,53,50,210,217,252,67>>, <<191,238,180,4,87,63,31,225>>,
            <<191,238,19,244,185,219,157,198>>, <<191,237,85,164,245,126,18,242>>, <<191,236,121,212,113,143,71,176>>, <<191,235,129,96,65,145,135,115>>,
            <<191,234,109,66,70,200,71,219>>, <<191,233,62,144,52,231,176,135>>, <<191,231,246,122,122,200,227,158>>, <<191,230,150,75,16,59,212,189>>,
            <<191,229,31,100,42,42,134,98>>, <<191,227,147,62,214,91,194,131>>, <<191,225,243,105,128,59,60,88>>, <<191,224,65,134,96,36,184,27>>,
            <<191,220,254,147,173,138,79,138>>, <<191,217,92,241,108,113,144,242>>, <<191,213,161,204,245,63,78,140>>, <<191,209,208,230,231,229,44,12>>,
            <<191,203,220,43,139,197,184,197>>, <<191,195,250,132,44,65,228,228>>, <<191,184,9,137,218,175,87,234>>, <<191,160,11,189,2,21,132,223>>,
            <<63,160,11,189,2,21,203,120>>, <<63,184,9,137,218,175,59,91>>, <<63,195,250,132,44,65,230,135>>, <<63,203,220,43,139,197,202,1>>,
            <<63,209,208,230,231,229,52,135>>, <<63,213,161,204,245,63,79,84>>, <<63,217,92,241,108,113,145,180>>, <<63,220,254,147,173,138,80,71>>,
            <<63,224,65,134,96,36,184,118>>, <<63,225,243,105,128,59,60,176>>, <<63,227,147,62,214,91,191,173>>, <<63,229,31,100,42,42,134,178>>,
            <<63,230,150,75,16,59,213,8>>, <<63,231,246,122,122,200,227,229>>, <<63,233,62,144,52,231,176,200>>, <<63,234,109,66,70,200,69,213>>,
            <<63,235,129,96,65,145,137,180>>, <<63,236,121,212,113,143,73,179>>, <<63,237,85,164,245,126,19,29>>, <<63,238,19,244,185,219,159,71>>,
            <<63,238,180,4,87,63,31,255>>, <<63,239,53,50,210,217,252,91>>, <<63,239,150,254,64,95,27,81>>, <<63,239,217,4,68,174,28,222>>,
            <<63,239,251,2,120,191,5,101>>, <<63,239,252,214,172,106,209,134>>, <<63,239,222,127,8,205,220,168>>, <<63,239,160,26,18,33,120,134>>,
            <<63,239,65,230,137,10,217,149>>, <<63,238,196,67,43,126,66,170>>, <<63,238,39,174,85,117,210,181>>, <<63,237,108,197,129,219,232,140>>,
            <<63,236,148,68,172,40,197,244>>, <<63,235,159,5,147,82,227,137>>, <<63,234,141,254,222,208,17,77>>, <<63,233,98,67,38,131,132,51>>,
            <<63,232,28,255,222,146,115,135>>, <<63,230,191,124,40,53,24,246>>, <<63,229,75,23,136,180,166,104>>, <<63,227,193,72,135,225,144,169>>,
            <<63,226,35,155,55,101,108,136>>, <<63,224,115,175,164,107,45,121>>, <<63,221,102,112,106,93,132,192>>, <<63,217,199,239,232,48,248,211>>,
            <<63,214,15,129,148,55,201,123>>, <<63,210,64,227,84,68,130,25>>, <<63,204,191,210,189,95,5,92>>, <<63,196,224,244,193,1,67,85>>,
            <<63,185,218,46,68,26,49,164>>, <<63,163,176,229,182,117,194,178>>, <<191,152,204,189,224,26,99,156>>, <<191,182,56,149,127,157,129,107>>,
            <<191,195,19,209,37,121,94,69>>, <<191,202,248,39,177,193,69,125>>, <<191,209,96,175,58,183,124,167>>, <<191,213,51,208,100,119,147,216>>,
            <<191,216,241,158,150,61,159,116>>, <<191,220,150,86,130,115,151,234>>, <<191,224,15,39,11,83,3,117>>, <<191,225,194,252,21,124,75,60>>,
            <<191,227,100,244,10,66,252,248>>, <<191,228,243,106,139,137,126,125>>, <<191,230,108,206,217,78,255,143>>, <<191,231,207,165,100,188,116,187>>,
            <<191,233,26,137,77,225,8,77>>, <<191,234,76,45,202,158,125,205>>, <<191,235,99,95,117,92,74,170>>, <<191,236,95,5,130,48,232,204>>,
            <<191,237,62,34,217,74,69,21>>, <<191,237,255,215,21,121,137,65>>, <<191,238,163,95,101,226,0,217>>, <<191,239,40,23,81,232,43,231>>,
            <<191,239,141,121,94,156,24,110>>, <<191,239,211,31,148,248,104,26>>, <<191,239,248,195,232,111,44,220>>, <<191,239,254,64,125,93,103,187>>,
            <<191,239,227,143,207,30,72,222>>, <<191,239,168,204,181,151,241,89>>, <<191,239,78,50,74,60,27,31>>, <<191,238,212,27,172,151,211,237>>,
            <<191,238,59,3,166,174,2,188>>, <<191,237,131,132,49,121,0,64>>, <<191,236,174,85,218,15,89,117>>, <<191,235,188,79,8,7,142,89>>,
            <<191,234,174,99,37,213,102,23>>, <<191,233,133,161,171,249,226,219>>, <<191,232,67,53,15,251,201,232>>, <<191,230,232,97,152,59,140,28>>,
            <<191,229,118,132,21,208,131,235>>, <<191,227,239,16,133,183,40,184>>, <<191,226,83,144,154,177,164,96>>, <<191,224,165,162,49,82,117,4>>,
            <<191,221,205,235,95,127,112,178>>, <<191,218,50,152,165,163,150,155>>, <<191,214,124,236,212,132,75,203>>, <<191,210,176,163,11,99,6,113>>,
            <<191,205,163,26,81,106,34,246>>, <<191,197,199,31,229,79,244,252>>, <<191,187,170,124,178,139,137,139>>, <<191,167,85,204,237,164,140,220>>,
            <<63,145,129,175,65,43,33,113>>, <<63,180,103,87,61,65,106,51>>, <<63,194,44,222,171,236,75,84>>, <<63,202,19,202,37,168,154,147>>,
            <<63,208,240,61,193,242,250,227>>, <<63,212,197,141,79,172,180,131>>, <<63,216,133,248,202,133,216,17>>, <<63,220,45,186,67,199,217,7>>,
            <<63,223,185,36,154,251,152,185>>, <<63,225,146,83,152,56,94,80>>, <<63,227,54,104,189,141,13,117>>, <<63,228,199,43,63,18,128,110>>,
            <<63,230,67,8,13,103,175,179>>, <<63,231,168,129,29,147,137,191>>, <<63,232,246,46,233,65,97,218>>, <<63,234,42,193,216,87,124,235>>,
            <<63,235,69,3,146,124,63,24>>, <<63,236,67,216,55,54,158,91>>, <<63,237,38,63,123,111,184,190>>, <<63,237,235,85,171,54,113,250>>,
            <<63,238,146,84,142,194,20,19>>, <<63,239,26,148,49,205,67,4>>, <<63,239,131,139,140,129,27,208>>, <<63,239,204,209,13,70,97,205>>,
            <<63,239,246,27,2,242,47,137>>, <<63,239,255,63,230,227,112,253>>, <<63,239,232,54,134,198,133,117>>, <<63,239,177,22,13,213,24,103>>,
            <<63,239,90,21,237,136,217,249>>, <<63,238,227,141,165,216,143,92>>, <<63,238,77,244,109,55,141,101>>, <<63,237,153,224,184,176,17,12>>,
            <<63,236,200,7,164,145,35,109>>, <<63,235,217,60,62,72,53,96>>, <<63,234,206,110,176,29,131,81>>, <<63,233,168,171,79,168,249,252>>,
            <<63,232,105,25,143,242,63,240>>, <<63,231,16,250,216,75,149,92>>, <<63,229,161,169,65,18,76,39>>, <<63,228,28,150,55,153,201,119>>,
            <<63,226,131,73,10,159,90,105>>, <<63,224,215,93,96,188,154,193>>, <<63,222,53,3,52,199,156,223>>, <<63,218,156,234,66,14,85,184>>,
            <<63,214,234,13,74,59,244,105>>, <<63,211,32,36,153,152,71,194>>, <<63,206,133,255,84,2,11,83>>, <<63,198,173,2,155,173,41,80>>,
            <<63,189,122,111,29,206,146,247>>, <<63,170,250,102,136,244,25,130>>, <<191,132,108,204,209,202,147,94>>, <<191,178,149,213,30,237,162,187>>,
            <<191,193,69,175,191,178,34,29>>, <<191,201,47,21,222,253,89,220>>, <<191,208,127,147,243,143,80,171>>, <<191,212,87,5,37,149,84,30>>,
            <<191,216,26,1,111,78,231,227>>, <<191,219,196,192,77,113,176,40>>, <<191,223,83,145,157,188,229,204>>, <<191,225,97,112,170,67,165,88>>,
            <<191,227,7,157,139,6,72,178>>, <<191,228,154,166,215,238,78,180>>, <<191,230,24,247,55,118,252,235>>, <<191,231,129,14,39,123,239,95>>,
            <<191,232,209,129,127,240,75,87>>, <<191,234,8,254,223,26,241,155>>, <<191,235,38,76,253,233,99,19>>, <<191,236,40,76,235,3,62,92>>,
            <<191,237,13,251,43,97,36,48>>, <<191,237,214,112,191,69,9,92>>, <<191,238,128,228,10,141,111,141>>, <<191,239,12,169,159,121,186,140>>,
            <<191,239,121,52,235,19,210,127>>, <<191,239,198,24,194,145,178,223>>, <<191,239,243,7,209,32,153,154>>, <<191,239,255,212,229,171,119,154>>,
            <<191,239,236,115,32,78,114,63>>, <<191,239,184,245,255,73,174,169>>, <<191,239,101,145,75,102,112,181>>, <<191,238,242,152,227,226,51,209>>,
            <<191,238,96,128,106,20,58,48>>, <<191,237,175,218,205,34,64,191>>, <<191,236,225,89,182,57,123,9>>, <<191,235,245,204,213,224,91,215>>,
            <<191,234,238,33,19,20,209,47>>, <<191,233,203,95,157,9,61,109>>, <<191,232,142,172,224,111,147,97>>, <<191,231,57,71,97,94,249,45>>,
            <<191,229,204,134,122,251,157,8>>, <<191,228,73,217,6,35,38,75>>, <<191,226,178,195,232,120,180,199>>, <<191,225,8,224,141,67,202,2>>,
            <<191,222,155,182,147,87,20,44>>, <<191,219,6,227,91,216,5,141>>, <<191,215,86,225,138,110,183,57>>, <<191,211,143,102,140,10,98,137>>,
            <<191,207,104,126,210,137,185,26>>, <<191,199,146,153,231,137,81,210>>, <<191,191,73,255,126,224,38,156>>, <<191,174,158,166,106,183,124,94>>,
            <<63,103,87,220,204,119,211,54>>, <<63,176,196,21,48,213,232,207>>, <<63,192,94,71,97,171,144,185>>, <<63,200,74,13,214,97,102,204>>,
            <<63,208,14,179,70,63,146,108>>, <<63,211,232,57,85,205,193,23>>, <<63,215,173,185,235,172,211,81>>, <<63,219,91,105,252,147,120,110>>,
            <<63,222,237,150,112,187,154,1>>, <<63,225,48,83,238,52,192,153>>, <<63,226,216,147,14,79,124,212>>, <<63,228,109,221,234,43,118,186>>,
            <<63,229,238,156,227,100,77,231>>, <<63,231,89,77,5,169,34,45>>, <<63,232,172,129,139,233,94,153>>, <<63,233,230,229,79,49,238,219>>,
            <<63,235,7,60,29,201,95,86>>, <<63,236,12,99,249,50,54,128>>, <<63,236,245,86,57,211,160,190>>, <<63,237,193,40,151,34,237,160>>,
            <<63,238,111,14,19,68,85,74>>, <<63,238,254,87,201,54,24,157>>, <<63,239,110,117,156,182,124,140>>, <<63,239,190,246,203,51,196,186>>,
            <<63,239,239,138,93,52,127,124>>, <<63,239,255,255,119,197,243,19>>, <<63,239,240,69,141,158,219,69>>, <<63,239,192,108,111,197,3,150>>,
            <<63,239,112,164,61,165,6,103>>, <<63,239,1,61,52,172,40,203>>, <<63,238,114,167,95,149,2,37>>, <<63,237,197,114,37,184,42,136>>,
            <<63,236,250,75,186,210,27,59>>, <<63,236,18,0,111,207,132,203>>, <<63,235,13,121,229,80,45,94>>, <<63,233,237,190,32,174,247,7>>,
            <<63,232,179,238,132,123,137,118>>, <<63,231,97,70,173,110,151,217>>, <<63,229,247,27,52,253,83,137>>, <<63,228,118,216,90,203,122,177>>,
            <<63,226,226,0,150,84,153,55>>, <<63,225,58,43,18,60,129,6>>, <<63,223,2,4,37,157,23,6>>, <<63,219,112,130,146,141,168,174>>,
            <<63,215,195,104,43,42,12,104>>, <<63,211,254,103,112,179,23,94>>, <<63,208,37,74,237,218,211,228>>, <<63,200,119,226,205,79,99,124>>,
            <<63,192,140,147,232,1,246,42>>, <<63,177,33,64,59,54,184,200>>, <<63,113,129,227,168,120,224,79>>, <<191,173,228,58,255,248,153,232>>,
            <<191,190,237,81,38,240,101,55>>, <<191,199,100,181,5,141,21,186>>, <<191,207,59,58,98,218,211,42>>, <<191,211,121,43,80,211,99,248>>,
            <<191,215,65,35,167,190,9,208>>, <<191,218,241,184,175,130,194,160>>, <<191,222,135,52,103,35,206,19>>, <<191,224,254,254,7,98,134,103>>,
            <<191,226,169,73,227,219,252,39>>, <<191,228,64,209,10,188,103,151>>, <<191,229,195,249,158,11,106,143>>, <<191,231,49,62,60,82,143,129>>,
            <<191,232,135,47,136,58,199,75>>, <<191,233,196,117,154,5,144,82>>, <<191,234,231,209,89,110,32,117>>, <<191,235,240,29,190,150,114,51>>,
            <<191,236,220,80,248,189,185,109>>, <<191,237,171,125,121,151,204,236>>, <<191,238,92,210,228,56,103,141>>, <<191,238,239,158,222,162,87,246>>,
            <<191,239,99,77,197,39,127,28>>, <<191,239,183,107,62,229,114,159>>, <<191,239,235,162,178,201,90,220>>, <<191,239,255,191,156,165,78,35>>,
            <<191,239,243,173,194,1,170,119>>, <<191,239,199,121,70,117,72,222>>, <<191,239,123,78,159,112,12,139>>, <<191,239,15,122,103,132,37,26>>,
            <<191,238,132,105,17,90,228,125>>, <<191,237,218,166,122,162,193,97>>, <<191,237,18,221,95,100,39,197>>, <<191,236,45,214,174,74,130,167>>,
            <<191,235,44,120,190,142,95,115>>, <<191,234,15,198,104,75,184,83>>, <<191,232,216,222,0,45,127,47>>, <<191,231,136,248,55,116,67,246>>,
            <<191,230,33,102,225,121,99,41>>, <<191,228,163,147,159,235,92,183>>, <<191,227,16,254,119,24,199,75>>, <<191,225,107,60,75,183,163,168>>,
            <<191,223,103,234,151,91,132,4>>, <<191,219,217,198,134,231,74,162>>, <<191,216,47,159,195,125,134,96>>, <<191,212,109,37,214,100,145,193>>,
            <<191,208,150,32,191,202,206,162>>, <<191,201,92,218,82,111,95,166>>, <<191,193,115,241,6,107,130,146>>, <<191,178,242,244,72,114,243,78>>,
            <<191,135,87,189,190,148,229,203>>, <<63,170,63,232,52,55,167,3>>, <<63,189,29,172,174,217,224,84>>, <<63,198,127,14,103,69,164,207>>,
            <<63,206,88,166,90,103,220,159>>, <<63,211,9,220,135,255,177,120>>, <<63,214,212,64,12,167,2,74>>, <<63,218,135,173,197,195,171,43>>,
            <<63,222,32,108,213,119,194,124>>, <<63,224,205,111,153,225,231,21>>, <<63,226,121,194,168,239,152,65>>, <<63,228,19,128,207,117,142,240>>,
            <<63,229,153,13,245,58,184,212>>, <<63,231,8,226,80,177,249,25>>, <<63,232,97,139,241,3,146,226>>, <<63,233,161,176,50,29,108,60>>,
            <<63,234,200,13,25,84,150,196>>, <<63,235,211,122,153,57,20,190>>, <<63,236,194,235,187,86,56,144>>, <<63,237,149,111,174,180,108,181>>,
            <<63,238,74,50,186,11,240,248>>, <<63,238,224,127,16,181,64,135>>, <<63,239,87,189,137,128,230,213>>, <<63,239,175,118,54,190,191,124>>,
            <<63,239,231,80,222,219,229,160>>, <<63,239,255,21,85,29,232,141>>, <<63,239,246,171,178,34,17,88>>, <<63,239,206,28,107,231,228,202>>,
            <<63,239,133,144,77,78,182,112>>, <<63,239,29,80,77,14,212,218>>, <<63,238,149,197,68,87,163,22>>, <<63,237,239,119,133,92,76,81>>,
            <<63,237,43,14,82,57,80,190>>, <<63,236,73,79,52,188,153,243>>, <<63,235,75,29,55,185,102,171>>, <<63,234,49,120,2,175,238,43>>,
            <<63,232,253,122,216,174,28,87>>, <<63,231,176,91,123,108,94,153>>, <<63,230,75,104,243,196,199,7>>, <<63,228,208,10,64,189,208,149>>,
            <<63,227,63,188,238,123,226,182>>, <<63,225,156,19,150,132,153,100>>, <<63,223,205,104,149,171,39,106>>, <<63,220,66,173,218,204,136,164>>,
            <<63,216,155,134,235,127,123,4>>, <<63,212,219,160,76,206,13,238>>, <<63,209,6,191,103,207,86,90>>, <<63,202,65,125,125,103,143,98>>,
            <<63,194,91,20,25,50,150,6>>, <<63,180,196,105,80,54,62,106>>, <<63,146,247,30,3,77,68,236>>, <<191,166,155,62,27,42,36,14>>,
            <<191,187,77,167,97,18,187,210>>, <<191,197,153,28,247,82,197,171>>, <<191,205,117,173,100,182,51,174>>, <<191,210,154,78,109,131,177,225>>,
            <<191,214,103,16,132,141,93,128>>, <<191,218,29,74,160,4,72,199>>, <<191,221,185,65,17,139,122,81>>, <<191,224,155,169,74,131,223,154>>,
            <<191,226,73,253,251,156,121,162>>, <<191,227,229,237,207,11,102,220>>, <<191,229,109,218,119,177,86,108>>, <<191,230,224,57,201,1,161,111>>,
            <<191,232,59,151,67,114,35,18>>, <<191,233,126,149,139,30,24,156>>, <<191,234,167,239,199,35,71,151>>, <<191,235,182,122,232,88,76,12>>,
            <<191,236,169,38,214,19,46,53>>, <<191,237,126,255,127,209,202,127>>, <<191,238,55,45,210,177,14,97>>, <<191,238,208,248,145,187,207,161>>,
            <<191,239,75,197,16,55,244,240>>, <<191,239,167,23,205,54,127,131>>, <<191,239,226,148,239,201,235,230>>, <<191,239,254,0,163,102,20,181>>,
            <<191,239,249,63,84,12,173,104>>, <<191,239,212,85,202,9,196,95>>, <<191,239,143,105,37,36,111,128>>, <<191,239,42,190,183,72,118,171>>,
            <<191,238,166,187,190,206,146,9>>, <<191,238,3,229,0,169,72,17>>, <<191,237,66,222,66,220,224,81>>, <<191,236,100,105,167,200,200,111>>,
            <<191,235,105,102,234,231,221,94>>, <<191,234,82,210,127,204,63,113>>, <<191,233,33,196,148,56,208,70>>, <<191,231,215,111,246,87,169,151>>,
            <<191,230,117,32,224,41,53,199>>, <<191,228,252,59,169,98,6,151>>, <<191,227,110,59,97,7,103,220>>, <<191,225,204,176,80,51,138,58>>,
            <<191,224,25,62,103,128,13,215>>, <<191,220,171,55,49,88,242,211>>, <<191,217,7,28,60,81,243,78>>, <<191,213,73,213,100,128,199,210>>,
            <<191,209,119,37,111,90,123,47>>, <<191,203,37,201,85,206,245,136>>, <<191,195,65,250,31,157,250,242>>, <<191,182,149,153,70,120,67,204>>,
            <<191,154,66,30,19,254,86,108>>, <<63,162,246,72,210,178,150,122>>, <<63,185,125,71,68,220,206,11>>, <<63,196,178,227,178,117,94,94>>,
            <<63,204,146,82,116,165,39,112>>, <<63,210,42,130,116,98,229,161>>, <<63,213,249,150,122,147,94,111>>, <<63,217,178,144,160,24,67,64>>,
            <<63,221,81,178,114,128,10,206>>, <<63,224,105,171,190,211,54,212>>, <<63,226,25,252,122,193,53,210>>, <<63,227,184,24,161,16,116,60>>,
            <<63,229,66,95,181,29,76,185>>, <<63,230,183,69,44,122,143,215>>, <<63,232,21,81,253,194,144,75>>, <<63,233,91,38,25,199,180,36>>,
            <<63,234,135,121,205,168,239,200>>, <<63,235,153,31,12,102,20,31>>, <<63,236,143,2,158,168,196,45>>, <<63,237,104,45,55,144,26,127>>,
            <<63,238,35,196,109,104,238,234>>, <<63,238,193,11,149,88,135,106>>, <<63,239,63,100,129,28,151,141>>, <<63,239,158,80,30,34,3,144>>,
            <<63,239,221,110,245,82,31,102>>, <<63,239,252,129,139,22,15,172>>, <<63,239,251,104,159,47,171,3>>, <<63,239,218,37,76,39,160,18>>,
            <<63,239,152,217,6,49,79,128>>, <<63,239,55,197,121,133,112,239>>, <<63,238,183,76,72,85,86,38>>, <<63,238,23,238,168,153,76,62>>,
            <<63,237,90,76,226,28,191,175>>, <<63,236,127,37,173,74,233,134>>, <<63,235,135,85,115,94,55,17>>, <<63,234,115,213,112,179,22,149>>,
            <<63,233,69,186,186,29,125,156>>, <<63,231,254,53,38,60,221,148>>, <<63,230,158,142,27,231,12,52>>, <<63,229,40,39,70,221,131,228>>,
            <<63,227,156,121,52,25,205,169>>, <<63,225,253,17,215,23,86,18>>, <<63,224,75,146,249,151,53,63>>, <<63,221,19,97,46,224,213,53>>,
            <<63,217,114,94,80,39,10,199>>, <<63,213,183,195,174,244,147,185>>, <<63,209,231,81,96,154,146,171>>, <<63,204,9,186,228,95,31,191>>,
            <<63,196,40,160,25,191,85,178>>, <<63,184,102,126,32,22,35,9>>, <<63,160,198,99,104,4,11,130>>, <<191,158,162,40,243,94,34,36>>,
            <<191,183,172,146,98,167,111,224>>, <<191,195,204,101,150,93,12,68>>, <<191,203,174,152,126,90,64,63>>, <<191,209,186,122,16,110,161,48>>,
            <<191,213,139,211,90,210,231,178>>, <<191,217,71,129,40,243,249,4>>, <<191,220,233,194,80,191,115,218>>, <<191,224,55,119,157,18,124,131>>,
            <<191,225,233,190,198,6,158,58>>, <<191,227,138,1,221,243,78,116>>, <<191,229,22,158,62,25,182,35>>, <<191,230,142,5,3,82,217,231>>,
            <<191,231,238,188,159,60,238,88>>, <<191,233,55,98,83,244,100,159>>, <<191,234,102,171,152,219,43,139>>, <<191,235,123,103,103,6,238,97>>,
            <<191,236,116,127,108,8,52,121>>, <<191,237,80,249,33,213,208,164>>, <<191,238,15,246,202,194,246,23>>, <<191,238,176,184,80,130,201,96>>,
            <<191,239,50,156,5,88,234,15>>, <<191,239,149,31,70,180,182,181>>, <<191,239,215,223,0,147,223,222>>, <<191,239,250,152,17,39,245,242>>,
            <<191,239,253,39,140,90,224,5>>, <<191,239,223,138,222,238,67,90>>, <<191,239,161,223,209,18,135,53>>, <<191,239,68,100,104,114,229,203>>,
            <<191,238,199,118,169,212,153,191>>, <<191,238,43,148,58,135,249,176>>, <<191,237,113,89,226,10,125,39>>, <<191,236,153,130,236,88,235,79>>,
            <<191,235,164,232,109,144,34,87>>, <<191,234,148,128,103,154,4,179>>, <<191,233,105,92,210,194,8,226>>, <<191,232,36,170,138,42,114,134>>,
            <<191,230,199,176,29,55,9,110>>, <<191,229,83,204,135,29,218,169>>, <<191,227,202,117,205,232,100,206>>, <<191,226,45,55,138,71,207,193>>,
            <<191,224,125,177,89,183,15,64>>, <<191,221,123,42,120,245,109,66>>, <<191,217,221,75,194,69,193,222>>, <<191,214,37,105,190,140,236,195>>,
            <<191,210,87,65,198,127,11,122>>, <<191,204,237,79,50,253,165,246>>, <<191,197,15,3,8,125,172,226>>, <<191,186,55,17,210,230,139,83>>,
            <<191,164,107,127,251,156,52,87>>, <<63,151,87,90,95,157,73,230>>, <<63,181,219,142,195,252,43,12>>, <<63,194,229,165,161,158,65,6>>,
            <<63,202,202,130,119,54,224,211>>, <<63,209,74,54,182,65,10,94>>, <<63,213,29,200,146,89,19,6>>, <<63,216,220,29,158,168,51,32>>,
            <<63,220,129,114,5,247,223,154>>, <<63,224,5,13,140,57,193,158>>, <<63,225,185,69,125,221,209,103>>, <<63,227,91,170,30,252,183,99>>,
            <<63,228,234,150,164,44,194,48>>, <<63,230,100,121,214,187,225,129>>, <<63,231,199,215,168,51,193,210>>, <<63,233,19,74,176,150,184,240>>,
            <<63,234,69,133,149,213,4,85>>, <<63,235,93,84,91,16,156,163>>, <<63,236,89,157,150,94,152,57>>, <<63,237,57,99,139,206,170,99>>,
            <<63,237,251,197,44,155,230,27>>, <<63,238,159,254,249,134,38,120>>, <<63,239,37,107,199,112,166,252>>, <<63,239,139,133,101,127,195,169>>,
            <<63,239,209,229,36,15,6,13>>, <<63,239,248,68,59,247,178,21>>, <<63,239,254,124,21,191,229,57>>, <<63,239,228,134,112,106,202,179>>,
            <<63,239,170,125,103,194,197,7>>, <<63,239,80,155,90,23,75,11>>, <<63,238,215,58,173,136,206,8>>, <<63,238,62,213,117,29,200,242>>,
            <<63,237,136,4,245,252,93,152>>, <<63,236,179,129,13,67,237,15>>, <<63,235,194,31,119,33,209,142>>, <<63,234,180,210,247,219,44,187>>,
            <<63,233,140,170,103,163,220,112>>, <<63,232,74,207,162,56,73,162>>, <<63,230,240,134,91,76,25,96>>, <<63,229,127,42,216,250,177,16>>,
            <<63,227,248,48,149,129,115,239>>, <<63,226,93,32,201,163,175,191>>, <<63,224,175,152,225,47,237,121>>, <<63,221,226,145,182,105,177,149>>,
            <<63,218,71,227,47,14,116,79>>, <<63,214,146,198,38,157,97,241>>, <<63,210,198,245,44,189,139,64>>, <<63,205,208,131,76,198,144,64>>,
            <<63,197,245,31,237,158,178,172>>, <<63,188,7,78,85,206,81,56>>, <<63,168,16,88,165,103,163,176>>, <<191,144,12,62,42,210,157,247>>,
            <<191,180,10,66,115,106,198,13>>, <<191,193,254,166,211,168,140,73>>, <<191,201,230,19,85,206,126,162>>, <<191,208,217,185,219,56,142,0>>,
            <<191,212,175,119,143,33,47,142>>, <<191,216,112,103,102,93,67,45>>, <<191,220,24,194,237,23,115,44>>, <<191,223,164,220,103,232,224,133>>,
            <<191,225,136,145,67,126,4,114>>, <<191,227,45,17,254,77,129,32>>, <<191,228,190,73,121,197,242,119>>, <<191,230,58,164,48,224,114,245>>,
            <<191,231,160,163,154,2,58,240>>, <<191,232,238,223,167,184,53,224>>, <<191,234,36,8,50,213,147,146>>, <<191,235,62,230,76,136,224,143>>,
            <<191,236,62,93,119,19,195,232>>, <<191,237,33,108,195,234,176,0>>, <<191,237,231,47,214,29,13,10>>, <<191,238,142,223,200,1,166,15>>,
            <<191,239,23,211,243,64,163,126>>, <<191,239,129,130,154,113,169,135>>, <<191,239,203,129,115,163,162,247>>, <<191,239,245,134,19,66,232,41>>,
            <<191,239,255,102,54,242,41,52>>, <<191,239,233,23,240,10,226,223>>, <<191,239,178,177,173,154,158,91>>, <<191,239,92,106,37,210,236,46>>,
            <<191,238,230,152,31,2,209,198>>, <<191,238,81,178,24,80,241,12>>, <<191,237,158,77,210,142,75,122>>, <<191,236,205,31,185,153,97,84>>,
            <<191,235,222,250,46,233,57,221>>, <<191,234,212,204,181,246,192,198>>, <<191,233,175,163,3,89,112,113>>, <<191,232,112,163,239,137,73,165>>,
            <<191,231,25,16,78,85,38,249>>, <<191,229,170,65,172,55,131,45>>, <<191,228,37,168,242,206,48,231>>, <<191,226,140,204,245,210,198,140>>,
            <<191,224,225,72,234,8,131,126>>, <<191,222,73,149,143,86,163,35>>, <<191,218,178,35,51,255,193,18>>, <<191,214,255,215,123,110,158,35>>,
            <<191,211,54,106,31,214,112,89>>, <<191,206,179,84,62,21,128,154>>, <<191,198,218,243,203,209,102,196>>, <<191,189,215,45,160,212,129,41>>,
            <<191,171,180,225,70,231,118,23>>, <<63,129,129,217,45,100,140,189>>, <<63,178,56,179,124,116,13,139>>, <<63,193,23,108,44,188,179,83>>,
            <<63,201,1,78,17,221,21,54>>, <<63,208,105,4,245,114,193,10>>, <<63,212,64,225,192,16,45,198>>, <<63,216,4,95,230,78,102,136>>,
            <<63,219,175,182,98,71,140,176>>, <<63,223,63,52,121,62,87,206>>, <<63,225,87,162,184,226,126,169>>, <<63,226,254,58,22,220,176,88>>,
            <<63,228,145,183,82,60,21,113>>, <<63,230,16,132,156,227,24,192>>, <<63,231,121,32,247,10,164,168>>, <<63,232,202,33,178,119,189,62>>,
            <<63,234,2,51,223,62,125,43>>, <<63,235,32,29,160,164,49,91>>, <<63,236,34,191,104,201,41,49>>, <<63,237,9,21,25,221,32,239>>,
            <<63,237,210,55,11,187,87,138>>, <<63,238,125,90,244,231,12,169>>, <<63,239,9,212,181,254,53,144>>, <<63,239,119,23,6,213,213,107>>,
            <<63,239,196,180,4,145,189,218>>, <<63,239,242,93,160,40,220,149>>, <<63,239,255,229,236,230,254,171>>, <<63,239,237,63,78,156,252,46>>,
            <<63,239,186,124,135,80,232,112>>, <<63,239,103,208,164,96,121,218>>, <<63,238,245,142,203,40,169,163>>, <<63,238,100,41,229,102,46,8>>,
            <<63,237,180,52,45,162,216,20>>, <<63,236,230,94,156,36,61,87>>, <<63,235,251,120,52,239,84,177>>, <<63,234,244,109,55,148,79,45>>,
            <<63,233,210,70,49,147,230,245>>, <<63,232,150,38,244,77,17,221>>, <<63,231,65,77,111,126,223,175>>, <<63,229,213,16,113,133,157,150>>,
            <<63,228,82,222,78,148,174,21>>, <<63,226,188,59,112,72,11,37>>, <<63,225,18,192,207,0,15,8>>, <<63,222,176,52,173,31,239,88>>,
            <<63,219,28,10,111,186,212,246>>, <<63,215,108,156,82,66,207,86>>, <<63,211,165,159,45,25,234,83>>, <<63,207,149,191,20,144,16,107>>,
            <<63,199,192,123,166,183,11,149>>, <<63,191,166,169,173,53,175,180>>, <<63,175,89,13,194,168,116,88>>, <<191,87,87,222,89,246,211,111>>,
            <<191,176,102,231,235,119,24,88>>, <<191,192,47,248,173,226,39,93>>, <<191,200,28,53,164,60,249,50>>, <<191,207,240,50,247,143,23,160>>,
            <<191,211,210,8,148,239,227,23>>, <<191,215,152,8,133,197,60,115>>, <<191,219,70,77,194,232,68,49>>, <<191,222,217,36,158,139,67,18>>,
            <<191,225,38,122,128,200,110,34>>, <<191,226,207,35,4,117,92,79>>, <<191,228,100,224,193,203,125,227>>, <<191,229,230,27,166,220,51,12>>,
            <<191,231,81,80,66,180,152,76>>, <<191,232,165,17,75,7,240,206>>, <<191,233,224,9,11,146,150,69>>, <<191,235,0,250,189,196,88,64>>,
            <<191,236,6,195,199,88,152,162>>, <<191,236,240,92,222,155,124,193>>, <<191,237,188,219,19,54,131,250>>, <<191,238,107,112,186,122,35,63>>,
            <<191,238,251,110,62,54,158,65>>, <<191,239,108,66,205,84,52,185>>, <<191,239,189,124,237,121,15,63>>, <<191,239,238,202,237,42,83,205>>,
            <<191,239,255,251,53,245,166,217>>, <<191,239,240,252,126,80,127,237>>, <<191,239,193,221,218,251,24,103>>, <<191,239,114,206,175,213,131,165>>,
            <<191,239,4,30,128,54,40,185>>, <<191,238,118,60,158,241,158,167>>, <<191,237,201,183,190,100,55,214>>, <<191,236,255,61,96,238,0,246>>,
            <<191,236,23,153,42,113,112,126>>, <<191,235,19,180,19,132,58,36>>, <<191,233,244,147,127,32,118,178>>, <<191,232,187,88,51,193,141,40>>,
            <<191,231,105,61,56,245,104,205>>, <<191,229,255,150,154,133,246,208>>, <<191,228,127,208,18,121,206,104>>, <<191,226,235,107,155,67,150,210>>,
            <<191,225,67,255,235,144,139,38>>, <<191,223,22,109,186,120,29,30>>, <<191,219,133,151,130,8,67,119>>, <<191,215,217,19,65,90,160,130>>,
            <<191,212,20,146,226,172,156,220>>, <<191,208,59,224,111,151,198,190>>, <<191,200,165,180,130,238,79,117>>, <<191,192,186,222,58,188,145,70>>,
            <<191,177,126,104,254,52,79,162>>, <<191,119,87,214,150,123,192,172>>, <<63,173,41,203,155,55,213,122>>, <<63,190,144,158,177,187,76,157>>,
            <<63,199,54,205,6,221,84,10>>, <<63,207,13,241,203,136,243,158>>, <<63,211,98,237,126,105,254,68>>, <<63,215,43,98,173,21,34,210>>,
            <<63,218,220,138,109,140,5,193>>, <<63,222,114,174,43,64,143,20>>, <<63,224,245,25,62,172,219,49>>, <<63,226,159,205,99,180,171,186>>,
            <<63,228,55,198,93,147,250,127>>, <<63,229,187,105,219,216,54,252>>, <<63,231,41,50,1,107,88,166>>, <<63,232,127,174,236,173,181,51>>,
            <<63,233,189,136,41,116,87,225>>, <<63,234,225,126,11,119,51,31>>, <<63,235,234,106,239,211,37,22>>, <<63,236,215,68,100,92,99,121>>,
            <<63,237,167,28,51,152,29,182>>, <<63,238,89,33,84,79,247,2>>, <<63,238,236,160,187,206,116,189>>, <<63,239,97,6,17,240,187,64>>,
            <<63,239,181,220,70,88,182,144>>, <<63,239,234,206,6,41,113,111>>, <<63,239,255,166,17,215,87,44>>, <<63,239,244,79,114,181,252,123>>,
            <<63,239,200,213,144,13,152,142>>, <<63,239,125,100,35,162,253,113>>, <<63,239,18,71,13,189,146,0>>, <<63,238,135,234,8,215,136,234>>,
            <<63,237,222,216,61,69,37,178>>, <<63,237,23,187,181,63,223,70>>, <<63,236,51,92,177,226,86,93>>, <<63,235,50,160,225,192,253,200>>,
            <<63,234,22,138,121,233,243,222>>, <<63,232,224,55,50,52,170,123>>, <<63,231,144,223,37,230,26,6>>, <<63,230,41,211,153,202,247,77>>,
            <<63,228,172,125,169,3,85,53>>, <<63,227,26,92,217,212,210,52>>, <<63,225,117,5,155,240,211,72>>, <<63,223,124,63,99,101,59,121>>,
            <<63,219,238,201,11,220,110,125>>, <<63,216,69,58,223,249,228,255>>, <<63,212,131,67,207,140,102,108>>, <<63,208,172,171,87,37,66,42>>,
            <<63,201,138,155,102,28,59,156>>, <<63,193,162,47,250,193,188,234>>, <<63,179,80,16,236,160,218,222>>, <<63,138,66,171,144,102,98,91>>,
            <<191,169,133,102,97,129,106,235>>, <<191,188,192,230,96,77,246,163>>, <<191,198,81,23,52,183,160,209>>, <<191,206,43,73,87,79,37,224>>,
            <<191,210,243,145,238,3,144,217>>, <<191,214,190,111,197,150,68,200>>, <<191,218,114,109,193,242,223,122>>, <<191,222,11,210,116,36,82,37>>,
            <<191,224,195,127,150,202,140,66>>, <<191,226,112,57,210,7,216,202>>, <<191,228,10,104,187,150,232,200>>, <<191,229,144,111,201,213,217,194>>,
            <<191,231,0,198,184,156,9,25>>, <<191,232,89,251,19,190,129,62>>, <<191,233,154,177,171,164,126,190>>, <<191,234,193,167,242,117,72,239>>,
            <<191,235,205,181,64,127,221,26>>, <<191,236,189,203,254,150,159,125>>, <<191,237,144,250,181,50,168,2>>, <<191,238,70,108,255,78,7,241>>,
            <<191,238,221,108,96,0,254,23>>, <<191,239,85,96,250,10,243,132>>, <<191,239,173,210,40,142,229,160>>, <<191,239,230,102,248,105,143,103>>,
            <<191,239,254,230,129,167,57,225>>, <<191,239,247,56,32,191,78,192>>, <<191,239,207,99,143,92,23,255>>, <<191,239,135,144,220,149,183,225>>,
            <<191,239,32,8,68,168,57,163>>, <<191,238,153,49,232,77,40,32>>, <<191,237,243,149,100,1,222,144>>, <<191,237,47,217,71,163,190,250>>,
            <<191,236,78,194,110,235,146,155>>, <<191,235,81,51,59,112,159,157>>, <<191,234,56,42,176,250,84,199>>, <<191,233,4,195,117,5,220,46>>,
            <<191,231,184,50,178,129,79,176>>, <<191,230,83,198,226,218,105,250>>, <<191,228,216,230,125,153,181,101>>, <<191,227,73,14,143,220,75,170>>,
            <<191,225,165,209,61,22,182,122>>, <<191,223,225,168,85,69,68,225>>, <<191,220,87,157,175,92,14,244>>, <<191,216,177,17,198,108,27,197>>,
            <<191,212,241,176,131,149,111,220>>, <<191,209,29,62,201,207,66,53>>, <<191,202,111,45,86,246,184,211>>, <<191,194,137,71,21,85,232,25>>,
            <<191,181,33,120,159,231,251,224>>, <<191,148,108,138,63,137,66,40>>, <<63,165,224,172,70,200,231,121>>, <<63,186,240,206,109,189,121,111>>,
            <<63,197,107,23,41,198,111,152>>, <<63,205,72,60,140,181,155,23>>, <<63,210,131,247,86,23,246,9>>, <<63,214,81,49,57,161,51,84>>,
            <<63,218,7,249,33,6,27,56>>, <<63,221,164,146,207,77,122,226>>, <<63,224,145,174,46,23,197,12>>, <<63,226,64,104,237,170,41,13>>,
            <<63,227,220,200,114,181,84,209>>, <<63,229,101,45,255,196,44,171>>, <<63,230,216,14,238,180,13,118>>, <<63,232,51,246,61,158,194,184>>,
            <<63,233,119,134,6,0,120,150>>, <<63,234,161,120,220,160,122,81>>, <<63,235,176,163,24,218,147,3>>, <<63,236,163,244,1,255,237,150>>,
            <<63,237,122,118,225,160,157,43>>, <<63,238,51,83,249,169,140,12>>, <<63,238,205,209,93,95,148,199>>, <<63,239,73,83,172,93,122,193>>,
            <<63,239,165,94,174,216,145,94>>, <<63,239,225,149,210,143,19,155>>, <<63,239,253,188,135,226,106,161>>, <<63,239,249,182,126,191,200,199>>,
            <<63,239,213,135,195,25,215,145>>, <<63,239,145,84,184,214,209,225>>, <<63,239,45,97,247,55,37,126>>, <<63,238,170,20,3,217,106,75>>,
            <<63,238,7,238,237,161,9,51>>, <<63,237,71,149,199,229,88,154>>, <<63,236,105,202,6,110,156,73>>, <<63,235,111,106,186,229,247,209>>,
            <<63,234,89,115,180,124,18,92>>, <<63,233,40,252,130,167,201,23>>, <<63,231,223,55,91,252,3,55>>, <<63,230,125,111,234,47,47,166>>,
            <<63,229,5,9,252,138,27,69>>, <<63,227,119,128,34,13,254,231>>, <<63,225,214,98,44,185,18,114>>, <<63,224,35,83,159,105,45,227>>,
            <<63,220,192,20,15,225,1,20>>, <<63,217,28,150,142,9,94,100>>, <<63,213,95,215,143,134,168,203>>, <<63,209,141,153,81,45,14,157>>,
            <<63,203,83,103,93,78,21,32>>, <<63,195,112,32,137,231,203,253>>, <<63,182,242,154,12,45,18,59>>, <<63,155,183,122,201,157,75,185>>,
            <<191,162,59,169,105,39,12,135>>, <<191,185,32,92,225,137,204,162>>, <<191,196,132,207,226,250,219,35>>, <<191,204,100,206,94,221,198,27>>,
            <<191,210,20,31,41,212,86,247>>, <<191,213,227,168,116,138,18,135>>, <<191,217,157,45,236,211,96,12>>, <<191,221,60,240,148,31,101,222>>,
            <<191,224,95,165,170,68,71,78>>, <<191,226,16,91,85,162,193,179>>, <<191,227,174,230,26,173,231,106>>, <<191,229,57,165,13,128,193,143>>,
            <<191,230,175,11,43,31,50,34>>, <<191,232,13,160,232,192,71,171>>, <<191,233,84,5,173,128,228,224>>, <<191,234,128,241,53,2,163,222>>,
            <<191,235,147,52,217,146,167,58>>, <<191,236,137,188,196,139,254,230>>, <<191,237,99,145,3,195,138,125>>, <<191,238,31,214,130,230,148,249>>,
            <<191,238,189,207,231,208,247,74>>, <<191,239,60,222,80,253,136,246>>, <<191,239,156,129,245,81,23,2>>, <<191,239,220,90,164,159,60,15>>,
            <<191,239,252,40,40,103,237,178>>, <<191,239,251,202,132,108,79,168>>, <<191,239,219,66,22,217,246,45>>, <<191,239,154,175,151,236,44,190>>,
            <<191,239,58,83,249,3,164,253>>, <<191,238,186,144,35,85,174,110>>, <<191,238,27,228,150,116,149,239>>, <<191,237,94,240,231,19,63,79>>,
            <<191,236,132,115,30,134,2,178>>, <<191,235,141,70,251,162,13,200>>, <<191,234,122,101,21,187,177,5>>, <<191,233,76,225,226,161,197,76>>,
            <<191,232,5,236,160,145,150,107>>, <<191,230,166,206,37,59,41,14>>, <<191,229,48,231,147,8,69,99>>, <<191,227,165,176,245,243,38,11>>,
            <<191,226,6,183,201,82,13,76>>, <<191,224,85,157,104,19,181,96>>, <<191,221,40,42,209,254,124,205>>, <<191,217,135,199,209,58,184,154>>,
            <<191,213,205,183,133,6,186,145>>, <<191,209,253,185,119,147,76,52>>, <<191,204,55,70,130,22,212,164>>, <<191,196,86,185,88,179,10,97>>,
            <<191,184,195,111,38,125,247,246>>, <<191,161,129,7,146,166,48,53>>, <<63,157,44,211,207,75,179,71>>, <<63,183,79,151,196,92,135,88>>,
            <<63,195,158,68,94,51,70,74>>, <<63,203,129,1,194,44,223,178>>, <<63,209,164,10,221,50,147,124>>, <<63,213,117,214,226,155,195,1>>,
            <<63,217,50,13,136,136,104,229>>, <<63,220,212,237,27,69,39,174>>, <<63,224,45,102,177,183,9,157>>, <<63,225,224,17,169,194,186,170>>,
            <<63,227,128,194,76,27,15,224>>, <<63,229,13,213,131,213,216,47>>, <<63,230,133,187,246,69,236,57>>, <<63,231,230,251,148,160,156,191>>,
            <<63,233,48,49,24,56,30,94>>, <<63,234,96,17,103,204,38,36>>, <<63,235,117,106,228,137,198,239>>, <<63,236,111,38,157,107,73,113>>,
            <<63,237,76,73,103,195,9,136>>, <<63,238,11,244,219,215,68,125>>, <<63,238,173,104,52,144,156,71>>, <<63,239,48,1,17,90,99,117>>,
            <<63,239,147,60,25,113,219,245>>, <<63,239,214,181,127,255,237,46>>, <<63,239,250,41,104,120,164,8>>, <<63,239,253,116,42,219,120,211>>,
            <<63,239,224,146,119,143,176,11>>, <<63,239,163,161,90,184,212,75>>, <<63,239,70,222,30,255,223,106>>, <<63,238,202,166,15,238,137,127>>,
            <<63,238,47,118,28,26,158,182>>, <<63,237,117,234,87,127,221,199>>, <<63,236,158,189,94,134,168,215>>, <<63,235,170,199,154,85,91,240>>,
            <<63,234,154,254,103,41,46,63>>, <<63,233,112,115,29,145,121,84>>, <<63,232,44,81,255,133,114,243>>, <<63,230,207,225,10,105,0,149>>,
            <<63,229,92,126,175,48,108,248>>, <<63,227,211,160,113,236,94,112>>, <<63,226,54,209,114,33,10,22>>, <<63,224,135,176,221,98,26,207>>,
            <<63,221,143,224,155,133,224,224>>, <<63,217,242,164,43,127,23,108>>, <<63,214,59,78,246,168,157,113>>, <<63,210,109,157,200,24,169,136>>,
            <<63,205,26,199,207,116,26,177>>, <<63,197,61,14,130,202,23,141>>, <<63,186,147,241,228,229,187,182>>, <<63,165,38,23,137,83,147,145>>,
            <<191,149,225,243,196,50,248,21>>, <<191,181,126,133,31,244,238,98>>, <<191,194,183,119,154,48,218,230>>, <<191,202,156,217,172,66,81,76>>,
            <<191,209,51,187,228,244,116,130>>, <<191,213,7,189,241,19,113,139>>, <<191,216,198,153,88,110,30,31>>, <<191,220,108,137,190,173,96,170>>,
            <<191,223,245,227,215,24,103,116>>, <<191,225,175,140,138,162,237,128>>, <<191,227,82,93,160,112,233,29>>, <<191,228,225,191,244,120,127,232>>,
            <<191,230,92,33,217,139,164,223>>, <<191,231,192,6,193,199,77,101>>, <<191,233,12,8,189,80,156,118>>, <<191,234,62,217,226,82,148,2>>,
            <<191,235,87,69,156,210,158,126>>, <<191,236,84,49,229,9,240,206>>, <<191,237,52,160,91,11,196,20>>, <<191,237,247,175,70,154,246,145>>,
            <<191,238,156,154,122,46,5,223>>, <<191,239,34,188,24,60,216,19>>, <<191,239,137,141,58,17,242,1>>, <<191,239,208,166,119,119,116,197>>,
            <<191,239,247,192,78,183,57,13>>, <<191,239,254,179,108,133,159,139>>, <<191,239,229,120,211,142,161,164>>, <<191,239,172,41,227,125,108,158>>,
            <<191,239,83,0,63,119,107,13>>, <<191,238,218,85,148,36,112,71>>, <<191,238,66,163,61,126,79,245>>, <<191,237,140,129,204,194,134,236>>,
            <<191,236,184,168,111,0,217,238>>, <<191,235,199,236,52,225,24,79>>, <<191,234,187,63,60,89,99,247>>, <<191,233,147,175,189,44,108,118>>,
            <<191,232,82,102,249,36,180,12>>, <<191,230,248,168,17,29,232,123>>, <<191,229,135,206,192,9,55,32>>, <<191,228,1,77,253,51,132,202>>,
            <<191,226,102,174,135,44,221,74>>, <<191,224,185,141,88,200,248,21>>, <<191,221,247,52,19,138,227,205>>, <<191,218,93,42,57,111,190,158>>,
            <<191,214,168,156,119,240,163,41>>, <<191,210,221,68,206,154,252,56>>, <<191,205,253,232,80,192,214,114>>, <<191,198,35,29,10,32,191,11>>,
            <<191,188,100,28,62,130,20,186>>, <<191,168,202,225,41,161,64,185>>, <<63,141,45,149,227,224,239,249>>, <<63,179,173,42,255,20,94,211>>,
            <<63,193,208,108,150,141,163,79>>, <<63,201,184,89,19,237,237,47>>, <<63,208,195,51,182,158,250,186>>, <<63,212,153,95,14,27,148,195>>,
            <<63,216,90,210,193,228,69,98>>, <<63,220,3,199,217,133,126,84>>, <<63,223,144,143,255,37,167,202>>, <<63,225,126,204,153,161,243,9>>,
            <<63,227,35,184,177,251,78,43>>, <<63,228,181,100,242,6,151,235>>, <<63,230,50,61,95,76,214,195>>, <<63,231,152,194,241,196,85,115>>,
            <<63,232,231,141,21,11,129,243>>, <<63,234,29,75,19,15,57,159>>, <<63,235,56,197,102,175,143,175>>, <<63,236,56,222,245,14,162,53>>,
            <<63,237,28,150,44,78,124,90>>, <<63,237,227,6,6,157,89,6>>, <<63,238,139,102,240,140,12,132>>, <<63,239,21,15,145,198,170,96>>,
            <<63,239,127,117,119,101,171,65>>, <<63,239,202,45,159,44,77,190>>, <<63,239,244,236,227,40,12,81>>, <<63,239,255,136,69,68,248,141>>,
            <<63,239,233,245,26,139,0,42>>, <<63,239,180,73,21,216,142,49>>, <<63,239,94,186,50,15,206,123>>, <<63,238,233,158,123,204,116,78>>,
            <<63,238,85,107,186,216,178,57>>, <<63,237,162,182,251,184,98,187>>, <<63,236,210,51,249,193,119,28>>, <<63,235,228,180,106,88,140,218>>,
            <<63,234,219,39,42,7,111,45>>, <<63,233,182,151,76,65,127,158>>, <<63,232,120,43,14,199,230,200>>, <<63,231,33,34,177,187,97,107>>,
            <<63,229,178,215,53,133,150,216>>, <<63,228,46,184,255,221,205,189>>, <<63,226,150,78,105,69,204,253>>, <<63,224,235,50,52,115,197,91>>,
            <<63,222,94,35,226,104,86,49>>, <<63,218,199,88,152,197,18,139>>, <<63,215,21,158,157,88,224,126>>, <<63,211,76,173,23,195,194,81>>,
            <<63,206,224,165,18,154,51,79>>, <<63,199,8,225,241,149,105,187>>, <<63,190,51,232,43,149,119,185>>, <<63,172,111,88,85,66,150,233>>,
            <<191,125,45,198,105,127,63,94>>, <<191,177,219,143,109,106,85,219>>, <<191,192,233,38,83,178,240,111>>, <<191,200,211,130,241,37,133,221>>,
            <<191,208,82,115,200,117,93,233>>, <<191,212,42,187,168,199,50,154>>, <<191,215,238,187,43,92,154,239>>, <<191,219,154,168,200,53,99,125>>,
            <<191,223,42,211,44,149,104,25>>, <<191,225,77,210,120,226,10,219>>, <<191,226,244,212,27,219,197,227>>, <<191,228,136,197,16,5,8,205>>,
            <<191,230,8,15,18,221,97,100>>, <<191,231,113,48,167,46,90,72>>, <<191,232,194,190,152,190,244,99>>, <<191,233,251,101,105,157,186,202>>,
            <<191,235,25,234,167,145,112,199>>, <<191,236,29,46,40,89,89,129>>, <<191,237,4,43,43,126,248,159>>, <<191,237,205,249,96,149,154,123>>,
            <<191,238,121,205,208,224,32,125>>, <<191,239,6,251,171,114,5,95>>, <<191,239,116,244,242,254,47,81>>, <<191,239,195,75,12,164,221,229>>,
            <<191,239,241,175,47,49,23,144>>, <<191,239,255,242,178,85,159,99>>, <<191,239,238,7,61,153,208,0>>, <<191,239,187,254,214,199,42,32>>,
            <<191,239,106,11,207,201,14,126>>, <<191,238,248,128,148,16,229,157>>, <<191,238,103,207,85,177,138,49>>, <<191,237,184,137,154,133,119,203>>,
            <<191,236,235,95,169,211,11,158>>, <<191,236,1,31,219,2,67,198>>, <<191,234,250,181,198,22,40,112>>, <<191,233,217,41,86,186,136,205>>,
            <<191,232,157,157,194,212,149,22>>, <<191,231,73,80,101,161,8,176>>, <<191,229,221,151,128,134,160,48>>, <<191,228,91,224,226,221,187,190>>,
            <<191,226,197,176,122,7,159,63>>, <<191,225,28,158,203,70,242,235>>, <<191,222,196,174,177,196,111,12>>, <<191,219,49,45,232,90,233,131>>,
            <<191,215,130,83,252,86,41,183>>, <<191,211,187,213,49,13,58,77>>, <<191,207,194,251,34,232,190,15>>, <<191,199,238,90,60,251,156,115>>,
            <<191,192,1,167,210,206,208,176>>, <<191,176,9,184,119,127,56,113>>, <<61,62,230,84,77,169,128,140>>, <<63,176,9,184,119,127,54,62>>,
            <<63,192,1,167,210,206,207,153>>, <<63,199,238,90,60,251,171,23>>, <<63,207,194,251,34,232,188,254>>, <<63,211,187,213,49,13,57,199>>,
            <<63,215,130,83,252,86,48,165>>, <<63,219,49,45,232,90,233,4>>, <<63,222,196,174,177,196,117,148>>, <<63,225,28,158,203,70,242,176>>,
            <<63,226,197,176,122,7,159,6>>, <<63,228,91,224,226,221,190,157>>, <<63,229,221,151,128,134,159,253>>, <<63,231,73,80,101,161,8,127>>,
            <<63,232,157,157,194,212,151,119>>, <<63,233,217,41,86,186,136,164>>, <<63,234,250,181,198,22,40,74>>, <<63,236,1,31,219,2,71,131>>,
            <<63,236,235,95,169,211,11,128>>, <<63,237,184,137,154,133,118,53>>, <<63,238,103,207,85,177,139,90>>, <<63,238,248,128,148,16,229,139>>,
            <<63,239,106,11,207,201,14,112>>, <<63,239,187,254,214,199,42,23>>, <<63,239,238,7,61,153,207,251>>, <<63,239,255,242,178,85,159,102>>,
            <<63,239,241,175,47,49,23,149>>, <<63,239,195,75,12,164,221,237>>, <<63,239,116,244,242,254,46,162>>, <<63,239,6,251,171,114,5,113>>,
            <<63,238,121,205,208,224,32,146>>, <<63,237,205,249,96,149,151,171>>, <<63,237,4,43,43,126,248,188>>, <<63,236,29,46,40,89,89,163>>,
            <<63,235,25,234,167,145,108,171>>, <<63,233,251,101,105,157,186,243>>, <<63,232,194,190,152,190,247,25>>, <<63,231,113,48,167,46,87,191>>,
            <<63,230,8,15,18,221,97,151>>, <<63,228,136,197,16,5,2,225>>, <<63,226,244,212,27,219,198,27>>, <<63,225,77,210,120,226,14,115>>,
            <<63,223,42,211,44,149,97,151>>, <<63,219,154,168,200,53,99,252>>, <<63,215,238,187,43,92,155,114>>, <<63,212,42,187,168,199,43,136>>,
            <<63,208,82,115,200,117,94,113>>, <<63,200,211,130,241,37,134,242>>, <<63,192,233,38,83,178,209,206>>, <<63,177,219,143,109,106,88,13>>,
            <<63,125,45,198,105,127,98,147>>, <<191,172,111,88,85,67,18,82>>, <<191,190,51,232,43,149,117,137>>, <<191,199,8,225,241,149,136,32>>,
            <<191,206,224,165,18,154,50,62>>, <<191,211,76,173,23,195,193,202>>, <<191,215,21,158,157,88,238,231>>, <<191,218,199,88,152,197,18,11>>,
            <<191,222,94,35,226,104,78,170>>, <<191,224,235,50,52,115,200,133>>, <<191,226,150,78,105,69,204,196>>, <<191,228,46,184,255,221,205,134>>,
            <<191,229,178,215,53,133,153,149>>, <<191,231,33,34,177,187,94,119>>, <<191,232,120,43,14,199,230,155>>, <<191,233,182,151,76,65,132,55>>,
            <<191,234,219,39,42,7,111,7>>, <<191,235,228,180,106,88,140,183>>, <<191,236,210,51,249,193,118,253>>, <<191,237,162,182,251,184,98,160>>,
            <<191,238,85,107,186,216,180,175>>, <<191,238,233,158,123,204,116,60>>, <<191,239,94,186,50,15,206,109>>, <<191,239,180,73,21,216,143,61>>,
            <<191,239,233,245,26,139,0,36>>, <<191,239,255,136,69,68,248,140>>, <<191,239,244,236,227,40,12,31>>, <<191,239,202,45,159,44,77,198>>,
            <<191,239,127,117,119,101,171,78>>, <<191,239,21,15,145,198,169,125>>, <<191,238,139,102,240,140,13,203>>, <<191,237,227,6,6,157,89,31>>,
            <<191,237,28,150,44,78,121,37>>, <<191,236,56,222,245,14,162,86>>, <<191,235,56,197,102,175,141,186>>, <<191,234,29,75,19,15,60,24>>,
            <<191,232,231,141,21,11,130,31>>, <<191,231,152,194,241,196,80,60>>, <<191,230,50,61,95,76,214,245>>, <<191,228,181,100,242,6,152,32>>,
            <<191,227,35,184,177,251,71,250>>, <<191,225,126,204,153,161,243,68>>, <<191,223,144,143,255,37,168,69>>, <<191,220,3,199,217,133,119,161>>,
            <<191,216,90,210,193,228,69,228>>, <<191,212,153,95,14,27,149,72>>, <<191,208,195,51,182,158,243,138>>, <<191,201,184,89,19,237,238,67>>,
            <<191,193,208,108,150,141,148,142>>, <<191,179,173,42,255,20,97,4>>, <<191,141,45,149,227,225,1,147>>, <<63,168,202,225,41,161,124,65>>,
            <<63,188,100,28,62,129,242,189>>, <<63,198,35,29,10,32,189,246>>, <<63,205,253,232,80,192,244,124>>, <<63,210,221,68,206,154,251,177>>,
            <<63,214,168,156,119,240,162,165>>, <<63,218,93,42,57,111,197,104>>, <<63,221,247,52,19,138,227,81>>, <<63,224,185,141,88,200,247,217>>,
            <<63,226,102,174,135,44,224,86>>, <<63,228,1,77,253,51,132,147>>, <<63,229,135,206,192,9,54,236>>, <<63,230,248,168,17,29,232,74>>,
            <<63,232,82,102,249,36,179,222>>, <<63,233,147,175,189,44,110,179>>, <<63,234,187,63,60,89,99,208>>, <<63,235,199,236,52,225,24,44>>,
            <<63,236,184,168,111,0,219,146>>, <<63,237,140,129,204,194,134,209>>, <<63,238,66,163,61,126,79,222>>, <<63,238,218,85,148,36,114,84>>,
            <<63,239,83,0,63,119,106,254>>, <<63,239,172,41,227,125,108,148>>, <<63,239,229,120,211,142,161,240>>, <<63,239,254,179,108,133,159,138>>,
            <<63,239,247,192,78,183,57,16>>, <<63,239,208,166,119,119,116,94>>, <<63,239,137,141,58,17,242,13>>, <<63,239,34,188,24,60,215,55>>,
            <<63,238,156,154,122,46,5,243>>, <<63,237,247,175,70,154,246,170>>, <<63,237,52,160,91,11,194,143>>, <<63,236,84,49,229,9,240,239>>,
            <<63,235,87,69,156,210,158,163>>, <<63,234,62,217,226,82,145,224>>, <<63,233,12,8,189,80,156,162>>, <<63,231,192,6,193,199,77,148>>,
            <<63,230,92,33,217,139,159,88>>, <<63,228,225,191,244,120,128,29>>, <<63,227,82,93,160,112,233,85>>, <<63,225,175,140,138,162,234,101>>,
            <<63,223,245,227,215,24,103,238>>, <<63,220,108,137,190,173,97,40>>, <<63,216,198,153,88,110,30,161>>, <<63,213,7,189,241,19,114,16>>,
            <<63,209,51,187,228,244,109,85>>, <<63,202,156,217,172,66,82,96>>, <<63,194,183,119,154,48,219,253>>, <<63,181,126,133,31,244,208,177>>,
            <<63,149,225,243,196,51,0,226>>, <<191,165,38,23,137,83,143,44>>, <<191,186,147,241,228,229,249,45>>, <<191,197,61,14,130,202,22,119>>,
            <<191,205,26,199,207,116,25,159>>, <<191,210,109,157,200,24,184,83>>, <<191,214,59,78,246,168,156,237>>, <<191,217,242,164,43,127,15,156>>,
            <<191,221,143,224,155,133,224,99>>, <<191,224,135,176,221,98,26,147>>, <<191,226,54,209,114,33,16,112>>, <<191,227,211,160,113,236,94,57>>,
            <<191,229,92,126,175,48,108,195>>, <<191,230,207,225,10,105,3,49>>, <<191,232,44,81,255,133,114,197>>, <<191,233,112,115,29,145,121,42>>,
            <<191,234,154,254,103,41,48,81>>, <<191,235,170,199,154,85,91,205>>, <<191,236,158,189,94,134,168,183>>, <<191,237,117,234,87,127,224,203>>,
            <<191,238,47,118,28,26,158,159>>, <<191,238,202,166,15,238,137,108>>, <<191,239,70,222,30,255,225,12>>, <<191,239,163,161,90,184,212,64>>,
            <<191,239,224,146,119,143,176,184>>, <<191,239,253,116,42,219,120,209>>, <<191,239,250,41,104,120,164,11>>, <<191,239,214,181,127,255,236,103>>,
            <<191,239,147,60,25,113,220,0>>, <<191,239,48,1,17,90,100,106>>, <<191,238,173,104,52,144,155,55>>, <<191,238,11,244,219,215,68,149>>,
            <<191,237,76,73,103,195,9,164>>, <<191,236,111,38,157,107,71,188>>, <<191,235,117,106,228,137,199,19>>, <<191,234,96,17,103,204,38,76>>,
            <<191,233,48,49,24,56,25,154>>, <<191,231,230,251,148,160,156,238>>, <<191,230,133,187,246,69,236,107>>, <<191,229,13,213,131,213,216,100>>,
            <<191,227,128,194,76,27,16,24>>, <<191,225,224,17,169,194,180,65>>, <<191,224,45,102,177,183,9,218>>, <<191,220,212,237,27,69,40,43>>,
            <<191,217,50,13,136,136,90,177>>, <<191,213,117,214,226,155,195,134>>, <<191,209,164,10,221,50,148,3>>, <<191,203,129,1,194,44,209,37>>,
            <<191,195,158,68,94,51,71,96>>, <<191,183,79,151,196,92,137,137>>, <<191,157,44,211,207,75,60,32>>, <<63,161,129,7,146,165,235,216>>,
            <<63,184,195,111,38,125,245,197>>, <<63,196,86,185,88,179,9,75>>, <<63,204,55,70,130,22,211,145>>, <<63,209,253,185,119,147,83,91>>,
            <<63,213,205,183,133,6,186,13>>, <<63,217,135,199,209,58,184,25>>, <<63,221,40,42,209,254,138,141>>, <<63,224,85,157,104,19,181,35>>,
            <<63,226,6,183,201,82,13,18>>, <<63,227,165,176,245,243,44,36>>, <<63,229,48,231,147,8,69,47>>, <<63,230,166,206,37,59,40,220>>,
            <<63,232,5,236,160,145,152,225>>, <<63,233,76,225,226,161,197,33>>, <<63,234,122,101,21,187,176,221>>, <<63,235,141,70,251,162,15,173>>,
            <<63,236,132,115,30,134,2,146>>, <<63,237,94,240,231,19,64,201>>, <<63,238,27,228,150,116,149,215>>, <<63,238,186,144,35,85,174,90>>,
            <<63,239,58,83,249,3,165,205>>, <<63,239,154,175,151,236,44,18>>, <<63,239,219,66,22,217,246,39>>, <<63,239,251,202,132,108,79,232>>,
            <<63,239,252,40,40,103,237,180>>, <<63,239,220,90,164,159,60,21>>, <<63,239,156,129,245,81,21,207>>, <<63,239,60,222,80,253,137,5>>,
            <<63,238,189,207,231,208,247,94>>, <<63,238,31,214,130,230,147,184>>, <<63,237,99,145,3,195,138,153>>, <<63,236,137,188,196,139,255,6>>,
            <<63,235,147,52,217,146,167,93>>, <<63,234,128,241,53,2,164,5>>, <<63,233,84,5,173,128,226,153>>, <<63,232,13,160,232,192,71,218>>,
            <<63,230,175,11,43,31,50,84>>, <<63,229,57,165,13,128,190,197>>, <<63,227,174,230,26,173,231,161>>, <<63,226,16,91,85,162,193,237>>,
            <<63,224,95,165,170,68,64,171>>, <<63,221,60,240,148,31,102,91>>, <<63,217,157,45,236,211,96,141>>, <<63,213,227,168,116,138,11,135>>,
            <<63,210,20,31,41,212,87,126>>, <<63,204,100,206,94,221,199,45>>, <<63,196,132,207,226,250,220,58>>, <<63,185,32,92,225,137,206,211>>,
            <<63,162,59,169,105,38,145,2>>, <<191,155,183,122,201,157,66,236>>, <<191,182,242,154,12,45,16,10>>, <<191,195,112,32,137,231,218,183>>,
            <<191,203,83,103,93,78,20,12>>, <<191,209,141,153,81,45,14,21>>, <<191,213,95,215,143,134,175,209>>, <<191,217,28,150,142,9,93,226>>,
            <<191,220,192,20,15,225,0,150>>, <<191,224,35,83,159,105,52,143>>, <<191,225,214,98,44,185,18,55>>, <<191,227,119,128,34,13,254,175>>,
            <<191,229,5,9,252,138,30,20>>, <<191,230,125,111,234,47,47,116>>, <<191,231,223,55,91,252,8,92>>, <<191,233,40,252,130,167,200,235>>,
            <<191,234,89,115,180,124,18,52>>, <<191,235,111,106,186,229,249,188>>, <<191,236,105,202,6,110,156,40>>, <<191,237,71,149,199,229,88,126>>,
            <<191,238,7,238,237,161,10,124>>, <<191,238,170,20,3,217,106,55>>, <<191,239,45,97,247,55,37,110>>, <<191,239,145,84,184,214,210,125>>,
            <<191,239,213,135,195,25,215,138>>, <<191,239,249,182,126,191,200,196>>, <<191,239,253,188,135,226,106,114>>, <<191,239,225,149,210,143,19,161>>,
            <<191,239,165,94,174,216,146,0>>, <<191,239,73,83,172,93,122,208>>, <<191,238,205,209,93,95,148,218>>, <<191,238,51,83,249,169,137,127>>,
            <<191,237,122,118,225,160,157,71>>, <<191,236,163,244,1,255,237,181>>, <<191,235,176,163,24,218,145,37>>, <<191,234,161,120,220,160,122,120>>,
            <<191,233,119,134,6,0,120,192>>, <<191,232,51,246,61,158,192,72>>, <<191,230,216,14,238,180,13,168>>, <<191,229,101,45,255,196,44,224>>,
            <<191,227,220,200,114,181,78,195>>, <<191,226,64,104,237,170,41,71>>, <<191,224,145,174,46,23,197,72>>, <<191,221,164,146,207,77,123,95>>,
            <<191,218,7,249,33,6,27,185>>, <<191,214,81,49,57,161,44,89>>, <<191,210,131,247,86,23,246,144>>, <<191,205,72,60,140,181,156,41>>,
            <<191,197,107,23,41,198,81,33>>, <<191,186,240,206,109,189,123,159>>, <<191,165,224,172,70,201,43,208>>, <<63,148,108,138,63,137,185,84>>,
            <<63,181,33,120,159,231,249,175>>, <<63,194,137,71,21,85,231,2>>, <<63,202,111,45,86,246,199,104>>, <<63,209,29,62,201,207,65,173>>,
            <<63,212,241,176,131,149,111,87>>, <<63,216,177,17,198,108,42,6>>, <<63,220,87,157,175,92,14,118>>, <<63,223,225,168,85,69,75,87>>,
            <<63,225,165,209,61,22,182,63>>, <<63,227,73,14,143,220,75,114>>, <<63,228,216,230,125,153,187,65>>, <<63,230,83,198,226,218,105,200>>,
            <<63,231,184,50,178,129,79,129>>, <<63,233,4,195,117,5,224,255>>, <<63,234,56,42,176,250,84,159>>, <<63,235,81,51,59,112,157,99>>,
            <<63,236,78,194,110,235,148,88>>, <<63,237,47,217,71,163,190,221>>, <<63,237,243,149,100,1,222,119>>, <<63,238,153,49,232,77,41,55>>,
            <<63,239,32,8,68,168,56,165>>, <<63,239,135,144,220,149,183,213>>, <<63,239,207,99,143,92,23,247>>, <<63,239,247,56,32,191,78,188>>,
            <<63,239,254,230,129,167,57,209>>, <<63,239,230,102,248,105,143,109>>, <<63,239,173,210,40,142,229,170>>, <<63,239,85,96,250,10,241,242>>,
            <<63,238,221,108,96,0,254,42>>, <<63,238,70,108,255,78,8,8>>, <<63,237,144,250,181,50,165,14>>, <<63,236,189,203,254,150,159,156>>,
            <<63,235,205,181,64,127,221,61>>, <<63,234,193,167,242,117,70,228>>, <<63,233,154,177,171,164,126,232>>, <<63,232,89,251,19,190,129,108>>,
            <<63,231,0,198,184,156,9,74>>, <<63,229,144,111,201,213,220,234>>, <<63,228,10,104,187,150,229,224>>, <<63,226,112,57,210,7,217,4>>,
            <<63,224,195,127,150,202,140,126>>, <<63,222,11,210,116,36,75,145>>, <<63,218,114,109,193,242,231,67>>, <<63,214,190,111,197,150,69,76>>,
            <<63,210,243,145,238,3,130,23>>, <<63,206,43,73,87,79,38,242>>, <<63,198,81,23,52,183,161,230>>, <<63,188,192,230,96,77,185,58>>,
            <<63,169,133,102,97,129,111,80>>, <<191,138,66,171,144,102,80,193>>, <<191,179,80,16,236,160,248,149>>, <<191,193,162,47,250,193,187,211>>,
            <<191,201,138,155,102,28,89,228>>, <<191,208,172,171,87,37,65,162>>, <<191,212,131,67,207,140,101,231>>, <<191,216,69,58,223,249,235,228>>,
            <<191,219,238,201,11,220,109,254>>, <<191,223,124,63,99,101,58,254>>, <<191,225,117,5,155,240,214,103>>, <<191,227,26,92,217,212,206,198>>,
            <<191,228,172,125,169,3,84,255>>, <<191,230,41,211,153,202,252,224>>, <<191,231,144,223,37,230,25,215>>, <<191,232,224,55,50,52,170,79>>,
            <<191,234,22,138,121,233,246,6>>, <<191,235,50,160,225,192,253,163>>, <<191,236,51,92,177,226,86,59>>, <<191,237,23,187,181,63,223,41>>,
            <<191,237,222,216,61,69,37,153>>, <<191,238,135,234,8,215,139,58>>, <<191,239,18,71,13,189,145,239>>, <<191,239,125,100,35,162,253,101>>,
            <<191,239,200,213,144,13,152,253>>, <<191,239,244,79,114,181,252,119>>, <<191,239,255,166,17,215,87,45>>, <<191,239,234,206,6,41,113,43>>,
            <<191,239,181,220,70,88,182,154>>, <<191,239,97,6,17,240,187,78>>, <<191,238,236,160,187,206,114,192>>, <<191,238,89,33,84,79,247,25>>,
            <<191,237,167,28,51,152,29,209>>, <<191,236,215,68,100,92,101,83>>, <<191,235,234,106,239,211,37,57>>, <<191,234,225,126,11,119,46,238>>,
            <<191,233,189,136,41,116,88,11>>, <<191,232,127,174,236,173,181,96>>, <<191,231,41,50,1,107,86,20>>, <<191,229,187,105,219,216,55,47>>,
            <<191,228,55,198,93,147,250,181>>, <<191,226,159,205,99,180,168,179>>, <<191,224,245,25,62,172,219,109>>, <<191,222,114,174,43,64,143,144>>,
            <<191,218,220,138,109,139,254,254>>, <<191,215,43,98,173,21,35,85>>, <<191,211,98,237,126,105,254,203>>, <<191,207,13,241,203,136,213,164>>,
            <<191,199,54,205,6,221,85,31>>, <<191,190,144,158,177,187,47,7>>, <<191,173,41,203,155,55,217,223>>, <<63,119,87,214,150,123,157,118>>,
            <<63,177,126,104,254,52,141,74>>, <<63,192,186,222,58,188,144,46>>, <<63,200,165,180,130,238,78,96>>, <<63,208,59,224,111,151,205,243>>,
            <<63,212,20,146,226,172,156,86>>, <<63,215,217,19,65,90,159,255>>, <<63,219,133,151,130,8,74,49>>, <<63,223,22,109,186,120,28,163>>,
            <<63,225,67,255,235,144,138,234>>, <<63,226,235,107,155,67,157,13>>, <<63,228,127,208,18,121,206,50>>, <<63,229,255,150,154,133,246,157>>,
            <<63,231,105,61,56,245,104,157>>, <<63,232,187,88,51,193,140,251>>, <<63,233,244,147,127,32,120,224>>, <<63,235,19,180,19,132,57,255>>,
            <<63,236,23,153,42,113,112,92>>, <<63,236,255,61,96,238,4,58>>, <<63,237,201,183,190,100,55,188>>, <<63,238,118,60,158,241,157,87>>,
            <<63,239,4,30,128,54,41,163>>, <<63,239,114,206,175,213,131,152>>, <<63,239,193,221,218,251,24,94>>, <<63,239,240,252,126,80,128,38>>,
            <<63,239,255,251,53,245,166,217>>, <<63,239,238,202,237,42,83,210>>, <<63,239,189,124,237,121,15,72>>, <<63,239,108,66,205,84,52,198>>,
            <<63,238,251,110,62,54,157,82>>, <<63,238,107,112,186,122,35,85>>, <<63,237,188,219,19,54,132,20>>, <<63,236,240,92,222,155,121,117>>,
            <<63,236,6,195,199,88,152,196>>, <<63,235,0,250,189,196,88,102>>, <<63,233,224,9,11,146,145,186>>, <<63,232,165,17,75,7,240,251>>,
            <<63,231,81,80,66,180,155,57>>, <<63,229,230,27,166,220,48,85>>, <<63,228,100,224,193,203,126,25>>, <<63,226,207,35,4,117,92,136>>,
            <<63,225,38,122,128,200,106,253>>, <<63,222,217,36,158,139,74,144>>, <<63,219,70,77,194,232,61,115>>, <<63,215,152,8,133,197,60,246>>,
            <<63,211,210,8,148,239,227,157>>, <<63,207,240,50,247,143,9,50>>, <<63,200,28,53,164,60,250,71>>, <<63,192,47,248,173,226,40,116>>,
            <<63,176,102,231,235,118,218,172>>, <<63,87,87,222,89,247,96,69>>, <<191,175,89,13,194,168,111,243>>, <<191,191,166,169,173,53,237,8>>,
            <<191,199,192,123,166,183,10,128>>, <<191,207,149,191,20,144,15,90>>, <<191,211,165,159,45,25,241,106>>, <<191,215,108,156,82,66,206,211>>,
            <<191,219,28,10,111,186,212,119>>, <<191,222,176,52,173,31,238,220>>, <<191,225,18,192,207,0,11,106>>, <<191,226,188,59,112,72,14,42>>,
            <<191,228,82,222,78,148,173,222>>, <<191,229,213,16,113,133,157,99>>, <<191,231,65,77,111,126,226,62>>, <<191,232,150,38,244,77,15,32>>,
            <<191,233,210,70,49,147,230,204>>, <<191,234,244,109,55,148,83,86>>, <<191,235,251,120,52,239,84,143>>, <<191,236,230,94,156,36,61,57>>,
            <<191,237,180,52,45,162,218,244>>, <<191,238,100,41,229,102,45,242>>, <<191,238,245,142,203,40,169,145>>, <<191,239,103,208,164,96,121,204>>,
            <<191,239,186,124,135,80,232,103>>, <<191,239,237,63,78,156,252,180>>, <<191,239,255,229,236,230,254,170>>, <<191,239,242,93,160,40,220,153>>,
            <<191,239,196,180,4,145,189,103>>, <<191,239,119,23,6,213,213,119>>, <<191,239,9,212,181,254,53,161>>, <<191,238,125,90,244,231,11,135>>,
            <<191,237,210,55,11,187,89,23>>, <<191,237,9,21,25,221,33,12>>, <<191,236,34,191,104,201,37,131>>, <<191,235,32,29,160,164,49,128>>,
            <<191,234,2,51,223,62,125,84>>, <<191,232,202,33,178,119,186,227>>, <<191,231,121,32,247,10,164,216>>, <<191,230,16,132,156,227,19,40>>,
            <<191,228,145,183,82,60,21,167>>, <<191,226,254,58,22,220,176,145>>, <<191,225,87,162,184,226,120,43>>, <<191,223,63,52,121,62,88,73>>,
            <<191,219,175,182,98,71,141,47>>, <<191,216,4,95,230,78,95,160>>, <<191,212,64,225,192,16,46,76>>, <<191,208,105,4,245,114,193,146>>,
            <<191,201,1,78,17,221,6,154>>, <<191,193,23,108,44,188,180,106>>, <<191,178,56,179,124,116,15,189>>, <<191,129,129,217,45,98,158,93>>,
            <<63,171,180,225,70,231,113,178>>, <<63,189,215,45,160,212,126,250>>, <<63,198,218,243,203,209,85,241>>, <<63,206,179,84,62,21,127,136>>,
            <<63,211,54,106,31,214,127,22>>, <<63,214,255,215,123,110,157,159>>, <<63,218,178,35,51,255,192,146>>, <<63,222,73,149,143,86,169,179>>,
            <<63,224,225,72,234,8,131,66>>, <<63,226,140,204,245,210,198,83>>, <<63,228,37,168,242,206,51,204>>, <<63,229,170,65,172,55,130,249>>,
            <<63,231,25,16,78,85,38,200>>, <<63,232,112,163,239,137,76,13>>, <<63,233,175,163,3,89,112,71>>, <<63,234,212,204,181,246,192,159>>,
            <<63,235,222,250,46,233,57,187>>, <<63,236,205,31,185,153,97,54>>, <<63,237,158,77,210,142,76,227>>, <<63,238,81,178,24,80,240,246>>,
            <<63,238,230,152,31,2,209,180>>, <<63,239,92,106,37,210,237,183>>, <<63,239,178,177,173,154,158,81>>, <<63,239,233,23,240,10,226,218>>,
            <<63,239,255,102,54,242,41,64>>, <<63,239,245,134,19,66,232,45>>, <<63,239,203,129,115,163,162,255>>, <<63,239,129,130,154,113,168,225>>,
            <<63,239,23,211,243,64,163,142>>, <<63,238,142,223,200,1,166,36>>, <<63,237,231,47,214,29,10,74>>, <<63,237,33,108,195,234,176,29>>,
            <<63,236,62,93,119,19,194,40>>, <<63,235,62,230,76,136,224,180>>, <<63,234,36,8,50,213,147,186>>, <<63,232,238,223,167,184,51,139>>,
            <<63,231,160,163,154,2,59,32>>, <<63,230,58,164,48,224,115,40>>, <<63,228,190,73,121,197,236,149>>, <<63,227,45,17,254,77,129,89>>,
            <<63,225,136,145,67,126,4,173>>, <<63,223,164,220,103,232,218,11>>, <<63,220,24,194,237,23,115,171>>, <<63,216,112,103,102,93,67,175>>,
            <<63,212,175,119,143,33,40,129>>, <<63,208,217,185,219,56,142,136>>, <<63,201,230,19,85,206,127,182>>, <<63,193,254,166,211,168,141,96>>,
            <<63,180,10,66,115,106,200,63>>, <<63,144,12,62,42,210,38,200>>, <<191,168,16,88,165,103,159,75>>, <<191,188,7,78,85,206,79,8>>,
            <<191,197,245,31,237,158,209,29>>, <<191,205,208,131,76,198,143,46>>, <<191,210,198,245,44,189,138,185>>, <<191,214,146,198,38,157,112,102>>,
            <<191,218,71,227,47,14,115,206>>, <<191,221,226,145,182,105,170,6>>, <<191,224,175,152,225,47,240,166>>, <<191,226,93,32,201,163,175,133>>,
            <<191,227,248,48,149,129,115,184>>, <<191,229,127,42,216,250,176,220>>, <<191,230,240,134,91,76,25,47>>, <<191,232,74,207,162,56,76,15>>,
            <<191,233,140,170,103,163,220,70>>, <<191,234,180,210,247,219,44,148>>, <<191,235,194,31,119,33,211,104>>, <<191,236,179,129,13,67,236,240>>,
            <<191,237,136,4,245,252,93,125>>, <<191,238,62,213,117,29,203,120>>, <<191,238,215,58,173,136,205,245>>, <<191,239,80,155,90,23,74,253>>,
            <<191,239,170,125,103,194,198,36>>, <<191,239,228,134,112,106,202,174>>, <<191,239,254,124,21,191,229,56>>, <<191,239,248,68,59,247,177,235>>,
            <<191,239,209,229,36,15,6,21>>, <<191,239,139,133,101,127,194,92>>, <<191,239,37,107,199,112,167,13>>, <<191,238,159,254,249,134,39,181>>,
            <<191,237,251,197,44,155,228,205>>, <<191,237,57,99,139,206,170,127>>, <<191,236,89,157,150,94,152,90>>, <<191,235,93,84,91,16,154,181>>,
            <<191,234,69,133,149,213,4,125>>, <<191,233,19,74,176,150,185,28>>, <<191,231,199,215,168,51,188,167>>, <<191,230,100,121,214,187,225,179>>,
            <<191,228,234,150,164,44,194,101>>, <<191,227,91,170,30,252,177,60>>, <<191,225,185,69,125,221,209,162>>, <<191,224,5,13,140,57,193,219>>,
            <<191,220,129,114,5,247,224,24>>, <<191,216,220,29,158,168,51,162>>, <<191,213,29,200,146,89,4,112>>, <<191,209,74,54,182,65,10,230>>,
            <<191,202,202,130,119,54,225,230>>, <<191,194,229,165,161,158,50,74>>, <<191,181,219,142,195,252,45,61>>, <<191,151,87,90,95,157,82,179>>,
            <<63,164,107,127,251,156,111,228>>, <<63,186,55,17,210,230,105,78>>, <<63,197,15,3,8,125,171,204>>, <<63,204,237,79,50,253,196,15>>,
            <<63,210,87,65,198,127,10,243>>, <<63,214,37,105,190,140,236,62>>, <<63,217,221,75,194,69,193,93>>, <<63,221,123,42,120,245,108,197>>,
            <<63,224,125,177,89,183,21,223>>, <<63,226,45,55,138,71,207,135>>, <<63,227,202,117,205,232,100,151>>, <<63,229,83,204,135,29,224,107>>,
            <<63,230,199,176,29,55,9,61>>, <<63,232,36,170,138,42,114,87>>, <<63,233,105,92,210,194,11,37>>, <<63,234,148,128,103,154,4,140>>,
            <<63,235,164,232,109,144,34,52>>, <<63,236,153,130,236,88,236,251>>, <<63,237,113,89,226,10,125,12>>, <<63,238,43,148,58,135,249,153>>,
            <<63,238,199,118,169,212,155,220>>, <<63,239,68,100,104,114,229,188>>, <<63,239,161,223,209,18,135,197>>, <<63,239,223,138,222,238,66,249>>,
            <<63,239,253,39,140,90,224,3>>, <<63,239,250,152,17,39,245,170>>, <<63,239,215,223,0,147,223,229>>, <<63,239,149,31,70,180,182,192>>,
            <<63,239,50,156,5,88,232,87>>, <<63,238,176,184,80,130,201,116>>, <<63,238,15,246,202,194,246,48>>, <<63,237,80,249,33,213,207,37>>,
            <<63,236,116,127,108,8,52,153>>, <<63,235,123,103,103,6,238,133>>, <<63,234,102,171,152,219,41,112>>, <<63,233,55,98,83,244,100,203>>,
            <<63,231,238,188,159,60,238,134>>, <<63,230,142,5,3,82,218,25>>, <<63,229,22,158,62,25,182,88>>, <<63,227,138,1,221,243,75,129>>,
            <<63,225,233,190,198,6,158,116>>, <<63,224,55,119,157,18,124,192>>, <<63,220,233,194,80,191,102,18>>, <<63,217,71,129,40,243,249,133>>,
            <<63,213,139,211,90,210,232,54>>, <<63,209,186,122,16,110,154,8>>, <<63,203,174,152,126,90,65,82>>, <<63,195,204,101,150,93,13,90>>,
            <<63,183,172,146,98,167,82,52>>, <<63,158,162,40,243,94,42,240>>, <<191,160,198,99,104,4,7,28>>, <<191,184,102,126,32,22,32,216>>,
            <<191,196,40,160,25,191,84,156>>, <<191,204,9,186,228,95,46,72>>, <<191,209,231,81,96,154,146,36>>, <<191,213,183,195,174,244,147,52>>,
            <<191,217,114,94,80,39,17,157>>, <<191,221,19,97,46,224,212,183>>, <<191,224,75,146,249,151,53,3>>, <<191,225,253,17,215,23,92,117>>,
            <<191,227,156,121,52,25,205,113>>, <<191,229,40,39,70,221,131,176>>, <<191,230,158,142,27,231,14,214>>, <<191,231,254,53,38,60,221,102>>,
            <<191,233,69,186,186,29,125,113>>, <<191,234,115,213,112,179,24,174>>, <<191,235,135,85,115,94,54,237>>, <<191,236,127,37,173,74,235,56>>,
            <<191,237,90,76,226,28,191,147>>, <<191,238,23,238,168,153,76,38>>, <<191,238,183,76,72,85,87,49>>, <<191,239,55,197,121,133,112,224>>,
            <<191,239,152,217,6,49,79,117>>, <<191,239,218,37,76,39,160,109>>, <<191,239,251,104,159,47,171,1>>, <<191,239,252,129,139,22,15,174>>,
            <<191,239,221,110,245,82,30,177>>, <<191,239,158,80,30,34,3,155>>, <<191,239,63,100,129,28,152,121>>, <<191,238,193,11,149,88,134,99>>,
            <<191,238,35,196,109,104,239,1>>, <<191,237,104,45,55,144,26,155>>, <<191,236,143,2,158,168,196,76>>, <<191,235,153,31,12,102,20,66>>,
            <<191,234,135,121,205,168,237,178>>, <<191,233,91,38,25,199,180,79>>, <<191,232,21,81,253,194,144,121>>, <<191,230,183,69,44,122,141,56>>,
            <<191,229,66,95,181,29,76,238>>, <<191,227,184,24,161,16,116,115>>, <<191,226,25,252,122,193,47,115>>, <<191,224,105,171,190,211,55,16>>,
            <<191,221,81,178,114,128,11,75>>, <<191,217,178,144,160,24,53,26>>, <<191,213,249,150,122,147,94,243>>, <<191,210,42,130,116,98,237,212>>,
            <<191,204,146,82,116,165,40,130>>, <<191,196,178,227,178,117,95,116>>, <<191,185,125,71,68,220,144,141>>, <<191,162,246,72,210,178,154,224>>,
            <<63,154,66,30,19,253,205,170>>, <<63,182,149,153,70,120,97,122>>, <<63,195,65,250,31,157,249,220>>, <<63,203,37,201,85,206,244,116>>,
            <<63,209,119,37,111,90,130,90>>, <<63,213,73,213,100,128,199,77>>, <<63,217,7,28,60,81,242,205>>, <<63,220,171,55,49,89,0,163>>,
            <<63,224,25,62,103,128,13,155>>, <<63,225,204,176,80,51,137,255>>, <<63,227,110,59,97,7,110,0>>, <<63,228,252,59,169,98,6,98>>,
            <<63,230,117,32,224,41,59,72>>, <<63,231,215,111,246,87,169,104>>, <<63,233,33,196,148,56,208,26>>, <<63,234,82,210,127,204,67,213>>,
            <<63,235,105,102,234,231,221,58>>, <<63,236,100,105,167,200,198,118>>, <<63,237,66,222,66,220,225,211>>, <<63,238,3,229,0,169,71,249>>,
            <<63,238,166,187,190,206,145,245>>, <<63,239,42,190,183,72,119,131>>, <<63,239,143,105,37,36,110,203>>, <<63,239,212,85,202,9,196,87>>,
            <<63,239,249,63,84,12,173,184>>, <<63,239,254,0,163,102,20,183>>, <<63,239,226,148,239,201,235,236>>, <<63,239,167,23,205,54,127,141>>,
            <<63,239,75,197,16,55,244,255>>, <<63,238,208,248,145,187,205,140>>, <<63,238,55,45,210,177,14,120>>, <<63,237,126,255,127,209,202,154>>,
            <<63,236,169,38,214,19,42,198>>, <<63,235,182,122,232,88,76,47>>, <<63,234,167,239,199,35,71,190>>, <<63,233,126,149,139,30,22,91>>,
            <<63,232,59,151,67,114,35,64>>, <<63,230,224,57,201,1,161,160>>, <<63,229,109,218,119,177,83,168>>, <<63,227,229,237,207,11,106,53>>,
            <<63,226,73,253,251,156,121,220>>, <<63,224,155,169,74,131,217,0>>, <<63,221,185,65,17,139,122,206>>, <<63,218,29,74,160,4,65,250>>,
            <<63,214,103,16,132,141,101,130>>, <<63,210,154,78,109,131,178,103>>, <<63,205,117,173,100,182,21,156>>, <<63,197,153,28,247,82,198,193>>,
            <<63,187,77,167,97,18,190,2>>, <<63,166,155,62,27,41,168,147>>, <<191,146,247,30,3,77,60,31>>, <<191,180,196,105,80,54,60,56>>,
            <<191,194,91,20,25,50,164,197>>, <<191,202,65,125,125,103,142,79>>, <<191,209,6,191,103,207,85,210>>, <<191,212,219,160,76,206,20,249>>,
            <<191,216,155,134,235,127,122,130>>, <<191,220,66,173,218,204,143,83>>, <<191,223,205,104,149,171,38,240>>, <<191,225,156,19,150,132,153,41>>,
            <<191,227,63,188,238,123,229,175>>, <<191,228,208,10,64,189,205,85>>, <<191,230,75,104,243,196,198,213>>, <<191,231,176,91,123,108,99,202>>,
            <<191,232,253,122,216,174,28,43>>, <<191,234,49,120,2,175,238,3>>, <<191,235,75,29,55,185,104,157>>, <<191,236,73,79,52,188,153,210>>,
            <<191,237,43,14,82,57,80,161>>, <<191,237,239,119,133,92,77,162>>, <<191,238,149,197,68,87,163,1>>, <<191,239,29,80,77,14,212,201>>,
            <<191,239,133,144,77,78,182,100>>, <<191,239,206,28,107,231,228,195>>, <<191,239,246,171,178,34,17,133>>, <<191,239,255,21,85,29,232,142>>,
            <<191,239,231,80,222,219,229,166>>, <<191,239,175,118,54,190,190,246>>, <<191,239,87,189,137,128,230,227>>, <<191,238,224,127,16,181,64,153>>,
            <<191,238,74,50,186,11,238,122>>, <<191,237,149,111,174,180,108,208>>, <<191,236,194,235,187,86,56,175>>, <<191,235,211,122,153,57,18,231>>,
            <<191,234,200,13,25,84,150,235>>, <<191,233,161,176,50,29,108,102>>, <<191,232,97,139,241,3,144,121>>, <<191,231,8,226,80,177,249,74>>,
            <<191,229,153,13,245,58,182,20>>, <<191,228,19,128,207,117,143,39>>, <<191,226,121,194,168,239,152,122>>, <<191,224,205,111,153,225,227,233>>,
            <<191,222,32,108,213,119,194,248>>, <<191,218,135,173,197,195,171,171>>, <<191,214,212,64,12,166,251,85>>, <<191,211,9,220,135,255,177,255>>,
            <<191,206,88,166,90,103,221,177>>, <<191,198,127,14,103,69,134,100>>, <<191,189,29,172,174,217,226,132>>, <<191,170,63,232,52,55,235,83>>,
            <<63,135,87,189,190,149,212,45>>, <<63,178,242,244,72,114,241,28>>, <<63,193,115,241,6,107,161,47>>, <<63,201,92,218,82,111,94,146>>,
            <<63,208,150,32,191,202,206,25>>, <<63,212,109,37,214,100,152,208>>, <<63,216,47,159,195,125,133,221>>, <<63,219,217,198,134,231,74,35>>,
            <<63,223,103,234,151,91,138,130>>, <<63,225,107,60,75,183,163,109>>, <<63,227,16,254,119,24,199,18>>, <<63,228,163,147,159,235,98,158>>,
            <<63,230,33,102,225,121,98,247>>, <<63,231,136,248,55,116,67,199>>, <<63,232,216,222,0,45,132,14>>, <<63,234,15,198,104,75,184,42>>,
            <<63,235,44,120,190,142,93,49>>, <<63,236,45,214,174,74,130,133>>, <<63,237,18,221,95,100,39,168>>, <<63,237,218,166,122,162,196,41>>,
            <<63,238,132,105,17,90,228,104>>, <<63,239,15,122,103,132,36,19>>, <<63,239,123,78,159,112,13,54>>, <<63,239,199,121,70,117,72,214>>,
            <<63,239,243,173,194,1,170,115>>, <<63,239,255,191,156,165,78,28>>, <<63,239,235,162,178,201,90,225>>, <<63,239,183,107,62,229,114,168>>,
            <<63,239,99,77,197,39,125,155>>, <<63,238,239,158,222,162,88,8>>, <<63,238,92,210,228,56,103,163>>, <<63,237,171,125,121,151,202,7>>,
            <<63,236,220,80,248,189,185,140>>, <<63,235,240,29,190,150,110,110>>, <<63,234,231,209,89,110,32,156>>, <<63,233,196,117,154,5,144,123>>,
            <<63,232,135,47,136,58,194,85>>, <<63,231,49,62,60,82,143,178>>, <<63,229,195,249,158,11,109,177>>, <<63,228,64,209,10,188,100,181>>,
            <<63,226,169,73,227,219,252,97>>, <<63,224,254,254,7,98,134,163>>, <<63,222,135,52,103,35,199,135>>, <<63,218,241,184,175,130,202,98>>,
            <<63,215,65,35,167,190,10,83>>, <<63,211,121,43,80,211,85,64>>, <<63,207,59,58,98,218,212,59>>, <<63,199,100,181,5,141,7,20>>,
            <<63,190,237,81,38,240,103,102>>, <<63,173,228,58,255,248,158,77>>, <<191,113,129,227,168,124,189,23>>, <<191,177,33,64,59,54,182,150>>,
            <<191,192,140,147,232,1,245,19>>, <<191,200,119,226,205,79,129,208>>, <<191,208,37,74,237,218,211,91>>, <<191,211,254,103,112,179,22,216>>,
            <<191,215,195,104,43,42,19,83>>, <<191,219,112,130,146,141,168,46>>, <<191,223,2,4,37,157,22,139>>, <<191,225,58,43,18,60,132,42>>,
            <<191,226,226,0,150,84,149,196>>, <<191,228,118,216,90,203,122,123>>, <<191,229,247,27,52,253,83,86>>, <<191,231,97,70,173,110,151,169>>,
            <<191,232,179,238,132,123,139,213>>, <<191,233,237,190,32,174,244,133>>, <<191,235,13,121,229,80,45,56>>, <<191,236,18,0,111,207,136,128>>,
            <<191,236,250,75,186,210,27,29>>, <<191,237,197,114,37,184,42,110>>, <<191,238,114,167,95,149,4,134>>, <<191,239,1,61,52,172,40,186>>,
            <<191,239,112,164,61,165,6,90>>, <<191,239,192,108,111,197,4,13>>, <<191,239,240,69,141,158,219,64>>, <<191,239,255,255,119,197,243,19>>,
            <<191,239,239,138,93,52,127,63>>, <<191,239,190,246,203,51,196,195>>, <<191,239,110,117,156,182,123,217>>, <<191,238,254,87,201,54,24,175>>,
            <<191,238,111,14,19,68,85,95>>, <<191,237,193,40,151,34,236,66>>, <<191,236,245,86,57,211,162,144>>, <<191,236,12,99,249,50,54,162>>,
            <<191,235,7,60,29,201,91,51>>, <<191,233,230,229,79,49,239,5>>, <<191,232,172,129,139,233,94,198>>, <<191,231,89,77,5,169,31,161>>,
            <<191,229,238,156,227,100,78,26>>, <<191,228,109,221,234,43,118,241>>, <<191,226,216,147,14,79,121,209>>, <<191,225,48,83,238,52,192,213>>,
            <<191,222,237,150,112,187,140,122>>, <<191,219,91,105,252,147,120,237>>, <<191,215,173,185,235,172,211,212>>, <<191,211,232,57,85,205,186,3>>,
            <<191,208,14,179,70,63,146,244>>, <<191,200,74,13,214,97,103,225>>, <<191,192,94,71,97,171,129,242>>, <<191,176,196,21,48,213,235,1>>,
            <<191,103,87,220,204,120,25,161>>, <<63,174,158,166,106,183,247,191>>, <<63,191,73,255,126,224,36,109>>, <<63,199,146,153,231,137,80,190>>,
            <<63,207,104,126,210,137,199,140>>, <<63,211,143,102,140,10,98,3>>, <<63,215,86,225,138,110,182,182>>, <<63,219,6,227,91,216,5,13>>,
            <<63,222,155,182,147,87,19,176>>, <<63,225,8,224,141,67,205,41>>, <<63,226,178,195,232,120,180,142>>, <<63,228,73,217,6,35,38,21>>,
            <<63,229,204,134,122,251,159,194>>, <<63,231,57,71,97,94,248,253>>, <<63,232,142,172,224,111,147,52>>, <<63,233,203,95,157,9,63,161>>,
            <<63,234,238,33,19,20,209,9>>, <<63,235,245,204,213,224,91,181>>, <<63,236,225,89,182,57,126,93>>, <<63,237,175,218,205,34,64,165>>,
            <<63,238,96,128,106,20,56,216>>, <<63,238,242,152,227,226,52,196>>, <<63,239,101,145,75,102,112,167>>, <<63,239,184,245,255,73,175,172>>,
            <<63,239,236,115,32,78,114,58>>, <<63,239,255,212,229,171,119,154>>, <<63,239,243,7,209,32,153,100>>, <<63,239,198,24,194,145,178,231>>,
            <<63,239,121,52,235,19,210,139>>, <<63,239,12,169,159,121,185,165>>, <<63,238,128,228,10,141,111,163>>, <<63,237,214,112,191,69,9,118>>,
            <<63,237,13,251,43,97,32,243>>, <<63,236,40,76,235,3,62,126>>, <<63,235,38,76,253,233,99,57>>, <<63,234,8,254,223,26,237,29>>,
            <<63,232,209,129,127,240,75,131>>, <<63,231,129,14,39,123,236,216>>, <<63,230,24,247,55,118,253,30>>, <<63,228,154,166,215,238,78,234>>,
            <<63,227,7,157,139,6,66,125>>, <<63,225,97,112,170,67,165,147>>, <<63,223,83,145,157,188,237,65>>, <<63,219,196,192,77,113,169,114>>,
            <<63,216,26,1,111,78,232,101>>, <<63,212,87,5,37,149,84,164>>, <<63,208,127,147,243,143,73,121>>, <<63,201,47,21,222,253,90,240>>,
            <<63,193,69,175,191,178,35,52>>, <<63,178,149,213,30,237,101,24>>, <<63,132,108,204,209,202,164,249>>, <<191,170,250,102,136,244,21,29>>,
            <<191,189,122,111,29,206,144,199>>, <<191,198,173,2,155,173,40,59>>, <<191,206,133,255,84,2,41,85>>, <<191,211,32,36,153,152,71,60>>,
            <<191,214,234,13,74,59,243,230>>, <<191,218,156,234,66,14,99,197>>, <<191,222,53,3,52,199,156,99>>, <<191,224,215,93,96,188,151,31>>,
            <<191,226,131,73,10,159,93,115>>, <<191,228,28,150,55,153,201,64>>, <<191,229,161,169,65,18,75,243>>, <<191,231,16,250,216,75,151,241>>,
            <<191,232,105,25,143,242,61,45>>, <<191,233,168,171,79,168,249,209>>, <<191,234,206,110,176,29,135,137>>, <<191,235,217,60,62,72,53,62>>,
            <<191,236,200,7,164,145,37,14>>, <<191,237,153,224,184,176,16,241>>, <<191,238,77,244,109,55,141,78>>, <<191,238,227,141,165,216,145,97>>,
            <<191,239,90,21,237,136,217,235>>, <<191,239,177,22,13,213,24,93>>, <<191,239,232,54,134,198,134,12>>, <<191,239,255,63,230,227,112,252>>,
            <<191,239,246,27,2,242,47,140>>, <<191,239,204,209,13,70,97,99>>, <<191,239,131,139,140,129,27,220>>, <<191,239,26,148,49,205,67,20>>,
            <<191,238,146,84,142,194,18,249>>, <<191,237,235,85,171,54,115,126>>, <<191,237,38,63,123,111,183,53>>, <<191,236,67,216,55,54,158,124>>,
            <<191,235,69,3,146,124,63,61>>, <<191,234,42,193,216,87,122,198>>, <<191,232,246,46,233,65,100,134>>, <<191,231,168,129,29,147,137,239>>,
            <<191,230,67,8,13,103,170,39>>, <<191,228,199,43,63,18,128,164>>, <<191,227,54,104,189,141,13,174>>, <<191,225,146,83,152,56,87,219>>,
            <<191,223,185,36,154,251,153,51>>, <<191,220,45,186,67,199,217,133>>, <<191,216,133,248,202,133,209,47>>, <<191,212,197,141,79,172,181,8>>,
            <<191,208,240,61,193,242,251,107>>, <<191,202,19,202,37,168,155,167>>, <<191,194,44,222,171,236,76,107>>, <<191,180,103,87,61,65,76,126>>,
            <<191,145,129,175,65,43,42,62>>, <<63,167,85,204,237,164,136,118>>, <<63,187,170,124,178,139,167,43>>, <<63,197,199,31,229,79,228,34>>,
            <<63,205,163,26,81,106,33,228>>, <<63,210,176,163,11,99,21,55>>, <<63,214,124,236,212,132,75,71>>, <<63,218,50,152,165,163,150,26>>,
            <<63,221,205,235,95,127,119,74>>, <<63,224,165,162,49,82,116,200>>, <<63,226,83,144,154,177,164,38>>, <<63,227,239,16,133,183,43,162>>,
            <<63,229,118,132,21,208,131,182>>, <<63,230,232,97,152,59,145,129>>, <<63,232,67,53,15,251,201,186>>, <<63,233,133,161,171,249,226,177>>,
            <<63,234,174,99,37,213,104,38>>, <<63,235,188,79,8,7,142,54>>, <<63,236,174,85,218,15,89,86>>, <<63,237,131,132,49,121,1,177>>,
            <<63,238,59,3,166,174,2,165>>, <<63,238,212,27,172,151,211,218>>, <<63,239,78,50,74,60,28,185>>, <<63,239,168,204,181,151,241,79>>,
            <<63,239,227,143,207,30,72,216>>, <<63,239,254,64,125,93,103,207>>, <<63,239,248,195,232,111,44,223>>, <<63,239,211,31,148,248,104,33>>,
            <<63,239,141,121,94,156,24,122>>, <<63,239,40,23,81,232,43,247>>, <<63,238,163,95,101,225,255,198>>, <<63,237,255,215,21,121,137,90>>,
            <<63,237,62,34,217,74,69,50>>, <<63,236,95,5,130,48,231,19>>, <<63,235,99,95,117,92,74,206>>, <<63,234,76,45,202,158,125,245>>,
            <<63,233,26,137,77,225,5,253>>, <<63,231,207,165,100,188,116,234>>, <<63,230,108,206,217,78,255,194>>, <<63,228,243,106,139,137,120,166>>,
            <<63,227,100,244,10,66,253,48>>, <<63,225,194,252,21,124,75,119>>, <<63,224,15,39,11,83,3,178>>, <<63,220,150,86,130,115,152,104>>,
            <<63,216,241,158,150,61,145,58>>, <<63,213,51,208,100,119,148,93>>, <<63,209,96,175,58,183,125,47>>, <<63,202,248,39,177,193,54,237>>,
            <<63,195,19,209,37,121,95,91>>, <<63,182,56,149,127,157,131,156>>, <<63,152,204,189,224,25,236,114>>, <<191,163,176,229,182,117,190,77>>,
            <<191,185,218,46,68,26,47,115>>, <<191,196,224,244,193,1,82,9>>, <<191,204,191,210,189,95,4,73>>, <<191,210,64,227,84,68,129,146>>,
            <<191,214,15,129,148,55,215,252>>, <<191,217,199,239,232,48,248,82>>, <<191,221,102,112,106,93,139,94>>, <<191,224,115,175,164,107,45,60>>,
            <<191,226,35,155,55,101,108,78>>, <<191,227,193,72,135,225,150,188>>, <<191,229,75,23,136,180,166,51>>, <<191,230,191,124,40,53,24,196>>,
            <<191,232,28,255,222,146,117,250>>, <<191,233,98,67,38,131,132,8>>, <<191,234,141,254,222,208,17,38>>, <<191,235,159,5,147,82,229,106>>,
            <<191,236,148,68,172,40,197,213>>, <<191,237,108,197,129,219,232,113>>, <<191,238,39,174,85,117,213,75>>, <<191,238,196,67,43,126,66,150>>,
            <<191,239,65,230,137,10,217,134>>, <<191,239,160,26,18,33,120,124>>, <<191,239,222,127,8,205,220,162>>, <<191,239,252,214,172,106,209,160>>,
            <<191,239,251,2,120,191,5,104>>, <<191,239,217,4,68,174,28,229>>, <<191,239,150,254,64,95,26,21>>, <<191,239,53,50,210,217,252,106>>,
            <<191,238,180,4,87,63,33,52>>, <<191,238,19,244,185,219,158,2>>, <<191,237,85,164,245,126,19,57>>, <<191,236,121,212,113,143,73,212>>,
            <<191,235,129,96,65,145,135,205>>, <<191,234,109,66,70,200,69,253>>, <<191,233,62,144,52,231,176,243>>, <<191,231,246,122,122,200,228,19>>,
            <<191,230,150,75,16,59,213,58>>, <<191,229,31,100,42,42,131,230>>, <<191,227,147,62,214,91,191,229>>, <<191,225,243,105,128,59,60,235>>,
            <<191,224,65,134,96,36,181,65>>, <<191,220,254,147,173,138,80,197>>, <<191,217,92,241,108,113,146,54>>, <<191,213,161,204,245,63,72,81>>,
            <<191,209,208,230,231,229,45,96>>, <<191,203,220,43,139,197,203,20>>, <<191,195,250,132,44,65,231,158>>, <<191,184,9,137,218,175,61,140>>,
            <<191,160,11,189,2,21,207,222>>, <<63,160,11,189,2,21,192,112>>, <<63,184,9,137,218,175,53,221>>, <<63,195,250,132,44,65,243,156>>,
            <<63,203,220,43,139,197,199,80>>, <<63,209,208,230,231,229,43,133>>, <<63,213,161,204,245,63,85,143>>, <<63,217,92,241,108,113,151,201>>,
            <<63,220,254,147,173,138,79,13>>, <<63,224,65,134,96,36,187,80>>, <<63,225,243,105,128,59,60,30>>, <<63,227,147,62,214,91,194,75>>,
            <<63,229,31,100,42,42,137,47>>, <<63,230,150,75,16,59,212,139>>, <<63,231,246,122,122,200,227,112>>, <<63,233,62,144,52,231,176,91>>,
            <<63,234,109,66,70,200,71,179>>, <<63,235,129,96,65,145,135,79>>, <<63,236,121,212,113,143,73,99>>, <<63,237,85,164,245,126,18,214>>,
            <<63,238,19,244,185,219,159,11>>, <<63,238,180,4,87,63,32,238>>, <<63,239,53,50,210,217,252,51>>, <<63,239,150,254,64,95,27,53>>,
            <<63,239,217,4,68,174,28,205>>, <<63,239,251,2,120,191,5,95>>, <<63,239,252,214,172,106,209,110>>, <<63,239,222,127,8,205,220,184>>,
            <<63,239,160,26,18,33,120,5>>, <<63,239,65,230,137,10,216,224>>, <<63,238,196,67,43,126,66,218>>, <<63,238,39,174,85,117,213,157>>,
            <<63,237,108,197,129,219,232,210>>, <<63,236,148,68,172,40,196,119>>, <<63,235,159,5,147,82,225,221>>, <<63,234,141,254,222,208,17,176>>,
            <<63,233,98,67,38,131,132,158>>, <<63,232,28,255,222,146,115,251>>, <<63,230,191,124,40,53,22,162>>, <<63,229,75,23,136,180,166,236>>,
            <<63,227,193,72,135,225,145,52>>, <<63,226,35,155,55,101,109,25>>, <<63,224,115,175,164,107,46,16>>, <<63,221,102,112,106,93,126,222>>,
            <<63,217,199,239,232,48,250,22>>, <<63,214,15,129,148,55,210,73>>, <<63,210,64,227,84,68,131,107>>, <<63,204,191,210,189,95,8,12>>,
            <<63,196,224,244,193,1,54,69>>, <<63,185,218,46,68,26,55,33>>, <<63,163,176,229,182,117,141,197>>, <<191,152,204,189,224,26,205,130>>,
            <<191,182,56,149,127,157,123,236>>, <<191,195,19,209,37,121,91,138>>, <<191,202,248,39,177,193,66,203>>, <<191,209,96,175,58,183,131,7>>,
            <<191,213,51,208,100,119,146,139>>, <<191,216,241,158,150,61,158,47>>, <<191,220,150,86,130,115,150,174>>, <<191,224,15,39,11,83,2,220>>,
            <<191,225,194,252,21,124,77,253>>, <<191,227,100,244,10,66,252,107>>, <<191,228,243,106,139,137,122,241>>, <<191,230,108,206,217,78,255,17>>,
            <<191,231,207,165,100,188,116,69>>, <<191,233,26,137,77,225,10,90>>, <<191,234,76,45,202,158,125,104>>, <<191,235,99,95,117,92,76,96>>,
            <<191,236,95,5,130,48,232,123>>, <<191,237,62,34,217,74,68,205>>, <<191,237,255,215,21,121,137,4>>, <<191,238,163,95,101,226,0,166>>,
            <<191,239,40,23,81,232,44,168>>, <<191,239,141,121,94,156,24,80>>, <<191,239,211,31,148,248,104,7>>, <<191,239,248,195,232,111,44,213>>,
            <<191,239,254,64,125,93,103,212>>, <<191,239,227,143,207,30,72,151>>, <<191,239,168,204,181,151,241,115>>, <<191,239,78,50,74,60,27,68>>,
            <<191,238,212,27,172,151,212,28>>, <<191,238,59,3,166,174,2,246>>, <<191,237,131,132,49,120,254,249>>, <<191,236,174,85,218,15,89,196>>,
            <<191,235,188,79,8,7,140,178>>, <<191,234,174,99,37,213,102,121>>, <<191,233,133,161,171,249,227,70>>, <<191,232,67,53,15,251,202,91>>,
            <<191,230,232,97,152,59,140,151>>, <<191,229,118,132,21,208,129,118>>, <<191,227,239,16,133,183,44,99>>, <<191,226,83,144,154,177,164,241>>,
            <<191,224,165,162,49,82,117,155>>, <<191,221,205,235,95,127,113,235>>, <<191,218,50,152,165,163,144,144>>, <<191,214,124,236,212,132,77,21>>,
            <<191,210,176,163,11,99,7,194>>, <<191,205,163,26,81,106,37,165>>, <<191,197,199,31,229,79,231,240>>, <<191,187,170,124,178,139,111,55>>,
            <<191,167,85,204,237,164,151,225>>, <<63,145,129,175,65,43,11,97>>, <<63,180,103,87,61,65,100,179>>, <<63,194,44,222,171,236,72,153>>,
            <<63,202,19,202,37,168,151,223>>, <<63,208,240,61,193,242,249,143>>, <<63,212,197,141,79,172,186,198>>, <<63,216,133,248,202,133,207,103>>,
            <<63,220,45,186,67,199,215,202>>, <<63,223,185,36,154,251,151,134>>, <<63,225,146,83,152,56,93,188>>, <<63,227,54,104,189,141,16,27>>,
            <<63,228,199,43,63,18,127,232>>, <<63,230,67,8,13,103,175,53>>, <<63,231,168,129,29,147,137,72>>, <<63,232,246,46,233,65,99,236>>,
            <<63,234,42,193,216,87,126,211>>, <<63,235,69,3,146,124,62,187>>, <<63,236,67,216,55,54,158,8>>, <<63,237,38,63,123,111,184,118>>,
            <<63,237,235,85,171,54,115,39>>, <<63,238,146,84,142,194,18,176>>, <<63,239,26,148,49,205,66,218>>, <<63,239,131,139,140,129,27,177>>,
            <<63,239,204,209,13,70,97,185>>, <<63,239,246,27,2,242,47,128>>, <<63,239,255,63,230,227,112,255>>, <<63,239,232,54,134,198,133,130>>,
            <<63,239,177,22,13,213,23,241>>, <<63,239,90,21,237,136,218,29>>, <<63,238,227,141,165,216,143,139>>, <<63,238,77,244,109,55,141,158>>,
            <<63,237,153,224,184,176,15,202>>, <<63,236,200,7,164,145,33,251>>, <<63,235,217,60,62,72,53,183>>, <<63,234,206,110,176,29,136,16>>,
            <<63,233,168,171,79,168,250,101>>, <<63,232,105,25,143,242,61,204>>, <<63,231,16,250,216,75,147,17>>, <<63,229,161,169,65,18,76,169>>,
            <<63,228,28,150,55,153,202,0>>, <<63,226,131,73,10,159,90,249>>, <<63,224,215,93,96,188,151,241>>, <<63,222,53,3,52,199,158,22>>,
            <<63,218,156,234,66,14,86,249>>, <<63,214,234,13,74,59,245,179>>, <<63,211,32,36,153,152,73,19>>, <<63,206,133,255,84,2,14,0>>,
            <<63,198,173,2,155,173,44,7>>, <<63,189,122,111,29,206,120,168>>, <<63,170,250,102,136,243,228,158>>, <<191,132,108,204,209,202,103,61>>,
            <<191,178,149,213,30,237,93,101>>, <<191,193,69,175,191,178,31,97>>, <<191,201,47,21,222,253,102,215>>, <<191,208,127,147,243,143,87,17>>,
            <<191,212,87,5,37,149,82,207>>, <<191,216,26,1,111,78,230,156>>, <<191,219,196,192,77,113,174,234>>, <<191,223,83,145,157,188,235,146>>,
            <<191,225,97,112,170,67,164,196>>, <<191,227,7,157,139,6,72,37>>, <<191,228,154,166,215,238,78,45>>, <<191,230,24,247,55,118,252,107>>,
            <<191,231,129,14,39,123,241,158>>, <<191,232,209,129,127,240,74,231>>, <<191,234,8,254,223,26,238,225>>, <<191,235,38,76,253,233,98,182>>,
            <<191,236,40,76,235,3,62,8>>, <<191,237,13,251,43,97,35,230>>, <<191,237,214,112,191,69,9,28>>, <<191,238,128,228,10,141,112,142>>,
            <<191,239,12,169,159,121,187,89>>, <<191,239,121,52,235,19,210,95>>, <<191,239,198,24,194,145,178,202>>, <<191,239,243,7,209,32,153,144>>,
            <<191,239,255,212,229,171,119,149>>, <<191,239,236,115,32,78,114,75>>, <<191,239,184,245,255,73,174,192>>, <<191,239,101,145,75,102,112,215>>,
            <<191,238,242,152,227,226,53,3>>, <<191,238,96,128,106,20,57,37>>, <<191,237,175,218,205,34,65,1>>, <<191,236,225,89,182,57,123,85>>,
            <<191,235,245,204,213,224,92,45>>, <<191,234,238,33,19,20,209,143>>, <<191,233,203,95,157,9,59,120>>, <<191,232,142,172,224,111,147,211>>,
            <<191,231,57,71,97,94,246,230>>, <<191,229,204,134,122,251,157,137>>, <<191,228,73,217,6,35,38,211>>, <<191,226,178,195,232,120,181,86>>,
            <<191,225,8,224,141,67,202,151>>, <<191,222,155,182,147,87,14,91>>, <<191,219,6,227,91,216,6,205>>, <<191,215,86,225,138,110,184,130>>,
            <<191,211,143,102,140,10,99,217>>, <<191,207,104,126,210,137,203,73>>, <<191,199,146,153,231,137,68,207>>, <<191,191,73,255,126,224,44,22>>,
            <<191,174,158,166,106,183,135,98>>, <<63,103,87,220,204,119,34,173>>, <<63,176,196,21,48,213,227,78>>, <<63,192,94,71,97,171,157,219>>,
            <<63,200,74,13,214,97,100,23>>, <<63,208,14,179,70,63,152,212>>, <<63,211,232,57,85,205,191,200>>, <<63,215,173,185,235,172,210,9>>,
            <<63,219,91,105,252,147,119,46>>, <<63,222,237,150,112,187,152,204>>, <<63,225,48,83,238,52,195,100>>, <<63,226,216,147,14,79,121,9>>,
            <<63,228,109,221,234,43,118,50>>, <<63,229,238,156,227,100,77,103>>, <<63,231,89,77,5,169,33,180>>, <<63,232,172,129,139,233,96,181>>,
            <<63,233,230,229,79,49,238,116>>, <<63,235,7,60,29,201,94,247>>, <<63,236,12,99,249,50,54,43>>, <<63,236,245,86,57,211,162,39>>,
            <<63,237,193,40,151,34,238,216>>, <<63,238,111,14,19,68,85,19>>, <<63,238,254,87,201,54,24,114>>, <<63,239,110,117,156,182,124,107>>,
            <<63,239,190,246,203,51,196,164>>, <<63,239,239,138,93,52,127,48>>, <<63,239,255,255,119,197,243,19>>, <<63,239,240,69,141,158,219,16>>,
            <<63,239,192,108,111,197,3,172>>, <<63,239,112,164,61,165,6,136>>, <<63,239,1,61,52,172,40,247>>, <<63,238,114,167,95,149,2,92>>,
            <<63,237,197,114,37,184,41,81>>, <<63,236,250,75,186,210,27,134>>, <<63,236,18,0,111,207,133,31>>, <<63,235,13,121,229,80,45,188>>,
            <<63,233,237,190,32,174,245,22>>, <<63,232,179,238,132,123,135,92>>, <<63,231,97,70,173,110,152,82>>, <<63,229,247,27,52,253,84,9>>,
            <<63,228,118,216,90,203,123,57>>, <<63,226,226,0,150,84,150,139>>, <<63,225,58,43,18,60,132,250>>, <<63,223,2,4,37,157,24,59>>,
            <<63,219,112,130,146,141,169,237>>, <<63,215,195,104,43,42,13,176>>, <<63,211,254,103,112,179,24,174>>, <<63,208,37,74,237,218,213,57>>,
            <<63,200,119,226,205,79,102,49>>, <<63,192,140,147,232,1,233,9>>, <<63,177,33,64,59,54,190,73>>, <<63,113,129,227,168,121,56,147>>,
            <<191,173,228,58,255,248,142,229>>, <<191,190,237,81,38,240,127,129>>, <<191,199,100,181,5,141,34,191>>, <<191,207,59,58,98,218,208,125>>,
            <<191,211,121,43,80,211,83,106>>, <<191,215,65,35,167,190,8,135>>, <<191,218,241,184,175,130,200,162>>, <<191,222,135,52,103,35,211,229>>,
            <<191,224,254,254,7,98,133,210>>, <<191,226,169,73,227,219,251,152>>, <<191,228,64,209,10,188,103,14>>, <<191,229,195,249,158,11,108,252>>,
            <<191,231,49,62,60,82,143,8>>, <<191,232,135,47,136,58,198,217>>, <<191,233,196,117,154,5,143,233>>, <<191,234,231,209,89,110,32,22>>,
            <<191,235,240,29,190,150,113,221>>, <<191,236,220,80,248,189,185,33>>, <<191,237,171,125,121,151,203,42>>, <<191,238,92,210,228,56,104,152>>,
            <<191,238,239,158,222,162,87,201>>, <<191,239,99,77,197,39,126,250>>, <<191,239,183,107,62,229,114,135>>, <<191,239,235,162,178,201,91,23>>,
            <<191,239,255,191,156,165,78,42>>, <<191,239,243,173,194,1,170,128>>, <<191,239,199,121,70,117,72,243>>, <<191,239,123,78,159,112,12,170>>,
            <<191,239,15,122,103,132,36,78>>, <<191,238,132,105,17,90,228,178>>, <<191,237,218,166,122,162,193,161>>, <<191,237,18,221,95,100,40,15>>,
            <<191,236,45,214,174,74,130,250>>, <<191,235,44,120,190,142,93,180>>, <<191,234,15,198,104,75,184,185>>, <<191,232,216,222,0,45,130,36>>,
            <<191,231,136,248,55,116,68,110>>, <<191,230,33,102,225,121,99,169>>, <<191,228,163,147,159,235,93,62>>, <<191,227,16,254,119,24,199,217>>,
            <<191,225,107,60,75,183,160,226>>, <<191,223,103,234,151,91,126,63>>, <<191,219,217,198,134,231,75,224>>, <<191,216,47,159,195,125,135,167>>,
            <<191,212,109,37,214,100,147,16>>, <<191,208,150,32,191,202,200,60>>, <<191,201,92,218,82,111,98,90>>, <<191,193,115,241,6,107,133,78>>,
            <<191,178,242,244,72,114,248,206>>, <<191,135,87,189,190,150,17,233>>, <<63,170,63,232,52,55,219,233>>, <<63,189,29,172,174,217,218,217>>,
            <<63,198,127,14,103,69,162,24>>, <<63,206,88,166,90,103,217,241>>, <<63,211,9,220,135,255,176,39>>, <<63,214,212,64,12,167,8,122>>,
            <<63,218,135,173,197,195,169,234>>, <<63,222,32,108,213,119,200,83>>, <<63,224,205,111,153,225,230,127>>, <<63,226,121,194,168,239,151,177>>,
            <<63,228,19,128,207,117,142,103>>, <<63,229,153,13,245,58,184,82>>, <<63,231,8,226,80,177,251,101>>, <<63,232,97,139,241,3,143,217>>,
            <<63,233,161,176,50,29,107,210>>, <<63,234,200,13,25,84,150,100>>, <<63,235,211,122,153,57,20,103>>, <<63,236,194,235,187,86,58,3>>,
            <<63,237,149,111,174,180,108,113>>, <<63,238,74,50,186,11,240,191>>, <<63,238,224,127,16,181,64,89>>, <<63,239,87,189,137,128,230,177>>,
            <<63,239,175,118,54,190,191,242>>, <<63,239,231,80,222,219,229,147>>, <<63,239,255,21,85,29,232,153>>, <<63,239,246,171,178,34,17,96>>,
            <<63,239,206,28,107,231,228,222>>, <<63,239,133,144,77,78,182,142>>, <<63,239,29,80,77,14,213,3>>, <<63,238,149,197,68,87,162,29>>,
            <<63,237,239,119,133,92,77,249>>, <<63,237,43,14,82,57,81,7>>, <<63,236,73,79,52,188,154,69>>, <<63,235,75,29,55,185,103,7>>,
            <<63,234,49,120,2,175,236,68>>, <<63,232,253,122,216,174,28,197>>, <<63,231,176,91,123,108,95,15>>, <<63,230,75,104,243,196,199,134>>,
            <<63,228,208,10,64,189,206,17>>, <<63,227,63,188,238,123,224,17>>, <<63,225,156,19,150,132,153,247>>, <<63,223,205,104,149,171,33,171>>,
            <<63,220,66,173,218,204,137,225>>, <<63,216,155,134,235,127,124,74>>, <<63,212,219,160,76,206,22,204>>, <<63,209,6,191,103,207,87,174>>,
            <<63,202,65,125,125,103,130,109>>, <<63,194,91,20,25,50,152,193>>, <<63,180,196,105,80,54,67,233>>, <<63,146,247,30,3,77,90,252>>,
            <<191,166,155,62,27,42,25,8>>, <<191,187,77,167,97,18,214,39>>, <<191,197,153,28,247,82,194,243>>, <<191,205,117,173,100,182,48,255>>,
            <<191,210,154,78,109,131,176,143>>, <<191,214,103,16,132,141,99,179>>, <<191,218,29,74,160,4,78,210>>, <<191,221,185,65,17,139,121,24>>,
            <<191,224,155,169,74,131,216,45>>, <<191,226,73,253,251,156,121,18>>, <<191,227,229,237,207,11,105,116>>, <<191,229,109,218,119,177,88,225>>,
            <<191,230,224,57,201,1,160,244>>, <<191,232,59,151,67,114,37,59>>, <<191,233,126,149,139,30,24,49>>, <<191,234,167,239,199,35,71,53>>,
            <<191,235,182,122,232,88,75,179>>, <<191,236,169,38,214,19,45,231>>, <<191,237,126,255,127,209,203,199>>, <<191,238,55,45,210,177,14,39>>,
            <<191,238,208,248,145,187,207,114>>, <<191,239,75,197,16,55,244,203>>, <<191,239,167,23,205,54,128,0>>, <<191,239,226,148,239,201,236,45>>,
            <<191,239,254,0,163,102,20,177>>, <<191,239,249,63,84,12,173,194>>, <<191,239,212,85,202,9,196,113>>, <<191,239,143,105,37,36,110,244>>,
            <<191,239,42,190,183,72,117,235>>, <<191,238,166,187,190,206,146,59>>, <<191,238,3,229,0,169,72,78>>, <<191,237,66,222,66,220,224,152>>,
            <<191,236,100,105,167,200,198,232>>, <<191,235,105,102,234,231,221,185>>, <<191,234,82,210,127,204,63,213>>, <<191,233,33,196,148,56,206,57>>,
            <<191,231,215,111,246,87,170,13>>, <<191,230,117,32,224,41,54,69>>, <<191,228,252,59,169,98,7,28>>, <<191,227,110,59,97,7,107,150>>,
            <<191,225,204,176,80,51,135,122>>, <<191,224,25,62,103,128,14,112>>, <<191,220,171,55,49,88,244,15>>, <<191,217,7,28,60,81,244,147>>,
            <<191,213,73,213,100,128,193,148>>, <<191,209,119,37,111,90,116,209>>, <<191,203,37,201,85,206,248,58>>, <<191,195,65,250,31,157,253,173>>,
            <<191,182,149,153,70,120,73,74>>, <<191,154,66,30,19,253,236,134>>, <<63,162,246,72,210,178,139,116>>, <<63,185,125,71,68,220,200,142>>,
            <<63,196,178,227,178,117,91,165>>, <<63,204,146,82,116,165,36,192>>, <<63,210,42,130,116,98,235,251>>, <<63,213,249,150,122,147,93,36>>,
            <<63,217,178,144,160,24,65,253>>, <<63,221,81,178,114,128,16,176>>, <<63,224,105,171,190,211,54,60>>, <<63,226,25,252,122,193,53,64>>,
            <<63,227,184,24,161,16,115,177>>, <<63,229,66,95,181,29,79,51>>, <<63,230,183,69,44,122,146,44>>, <<63,232,21,81,253,194,143,215>>,
            <<63,233,91,38,25,199,179,185>>, <<63,234,135,121,205,168,239,101>>, <<63,235,153,31,12,102,21,204>>, <<63,236,143,2,158,168,195,221>>,
            <<63,237,104,45,55,144,26,58>>, <<63,238,35,196,109,104,238,174>>, <<63,238,193,11,149,88,134,30>>, <<63,239,63,100,129,28,152,68>>,
            <<63,239,158,80,30,34,3,117>>, <<63,239,221,110,245,82,31,86>>, <<63,239,252,129,139,22,15,167>>, <<63,239,251,104,159,47,171,9>>,
            <<63,239,218,37,76,39,159,193>>, <<63,239,152,217,6,49,79,156>>, <<63,239,55,197,121,133,112,53>>, <<63,238,183,76,72,85,85,56>>,
            <<63,238,23,238,168,153,76,122>>, <<63,237,90,76,226,28,191,245>>, <<63,236,127,37,173,74,233,214>>, <<63,235,135,85,115,94,53,97>>,
            <<63,234,115,213,112,179,25,57>>, <<63,233,69,186,186,29,126,8>>, <<63,231,254,53,38,60,222,9>>, <<63,230,158,142,27,231,12,177>>,
            <<63,229,40,39,70,221,129,105>>, <<63,227,156,121,52,25,206,52>>, <<63,225,253,17,215,23,86,164>>, <<63,224,75,146,249,151,53,215>>,
            <<63,221,19,97,46,224,214,111>>, <<63,217,114,94,80,39,4,180>>, <<63,213,183,195,174,244,149,5>>, <<63,209,231,81,96,154,140,80>>,
            <<63,204,9,186,228,95,34,112>>, <<63,196,40,160,25,191,88,108>>, <<63,184,102,126,32,22,40,135>>, <<63,160,198,99,104,4,22,137>>,
            <<191,158,162,40,243,94,140,7>>, <<191,183,172,146,98,167,138,63>>, <<191,195,204,101,150,93,9,138>>, <<191,203,174,152,126,90,61,142>>,
            <<191,209,186,122,16,110,159,221>>, <<191,213,139,211,90,210,237,238>>, <<191,217,71,129,40,243,247,192>>, <<191,220,233,194,80,191,114,159>>,
            <<191,224,55,119,157,18,123,235>>, <<191,225,233,190,198,6,157,168>>, <<191,227,138,1,221,243,81,19>>, <<191,229,22,158,62,25,181,159>>,
            <<191,230,142,5,3,82,220,64>>, <<191,231,238,188,159,60,237,226>>, <<191,233,55,98,83,244,100,51>>, <<191,234,102,171,152,219,40,229>>,
            <<191,235,123,103,103,6,238,7>>, <<191,236,116,127,108,8,53,252>>, <<191,237,80,249,33,213,208,93>>, <<191,238,15,246,202,194,245,219>>,
            <<191,238,176,184,80,130,201,46>>, <<191,239,50,156,5,88,233,232>>, <<191,239,149,31,70,180,183,61>>, <<191,239,215,223,0,147,223,205>>,
            <<191,239,250,152,17,39,245,236>>, <<191,239,253,39,140,90,224,10>>, <<191,239,223,138,222,238,67,15>>, <<191,239,161,223,209,18,134,180>>,
            <<191,239,68,100,104,114,229,240>>, <<191,238,199,118,169,212,156,32>>, <<191,238,43,148,58,135,249,235>>, <<191,237,113,89,226,10,125,108>>,
            <<191,236,153,130,236,88,233,211>>, <<191,235,164,232,109,144,34,176>>, <<191,234,148,128,103,154,2,219>>, <<191,233,105,92,210,194,9,77>>,
            <<191,232,36,170,138,42,114,250>>, <<191,230,199,176,29,55,9,234>>, <<191,229,83,204,135,29,219,44>>, <<191,227,202,117,205,232,98,52>>,
            <<191,226,45,55,138,71,208,82>>, <<191,224,125,177,89,183,15,216>>, <<191,221,123,42,120,245,110,123>>, <<191,217,221,75,194,69,187,207>>,
            <<191,214,37,105,190,140,230,140>>, <<191,210,87,65,198,127,12,204>>, <<191,204,237,79,50,253,168,166>>, <<191,197,15,3,8,125,175,155>>,
            <<191,186,55,17,210,230,112,251>>, <<191,164,107,127,251,155,255,106>>, <<63,151,87,90,95,157,51,214>>, <<63,181,219,142,195,252,37,141>>,
            <<63,194,229,165,161,158,62,76>>, <<63,202,202,130,119,54,222,33>>, <<63,209,74,54,182,65,9,10>>, <<63,213,29,200,146,89,17,185>>,
            <<63,216,220,29,158,168,57,58>>, <<63,220,129,114,5,247,222,94>>, <<63,224,5,13,140,57,193,5>>, <<63,225,185,69,125,221,208,212>>,
            <<63,227,91,170,30,252,179,167>>, <<63,228,234,150,164,44,196,177>>, <<63,230,100,121,214,187,225,3>>, <<63,231,199,215,168,51,193,92>>,
            <<63,233,19,74,176,150,184,130>>, <<63,234,69,133,149,213,6,56>>, <<63,235,93,84,91,16,158,91>>, <<63,236,89,157,150,94,151,231>>,
            <<63,237,57,99,139,206,170,27>>, <<63,237,251,197,44,155,229,221>>, <<63,238,159,254,249,134,39,110>>, <<63,239,37,107,199,112,166,212>>,
            <<63,239,139,133,101,127,195,139>>, <<63,239,209,229,36,15,5,250>>, <<63,239,248,68,59,247,177,224>>, <<63,239,254,124,21,191,229,61>>,
            <<63,239,228,134,112,106,202,194>>, <<63,239,170,125,103,194,197,32>>, <<63,239,80,155,90,23,74,93>>, <<63,238,215,58,173,136,206,55>>,
            <<63,238,62,213,117,29,201,44>>, <<63,237,136,4,245,252,93,220>>, <<63,236,179,129,13,67,235,152>>, <<63,235,194,31,119,33,207,232>>,
            <<63,234,180,210,247,219,45,28>>, <<63,233,140,170,103,163,220,219>>, <<63,232,74,207,162,56,74,21>>, <<63,230,240,134,91,76,23,17>>,
            <<63,229,127,42,216,250,177,147>>, <<63,227,248,48,149,129,116,121>>, <<63,226,93,32,201,163,176,80>>, <<63,224,175,152,225,47,238,15>>,
            <<63,221,226,145,182,105,171,187>>, <<63,218,71,227,47,14,117,144>>, <<63,214,146,198,38,157,99,60>>, <<63,210,198,245,44,189,140,145>>,
            <<63,205,208,131,76,198,146,238>>, <<63,197,245,31,237,158,181,99>>, <<63,188,7,78,85,206,86,179>>, <<63,168,16,88,165,103,110,200>>,
            <<191,144,12,62,42,211,7,227>>, <<191,180,10,66,115,106,192,141>>, <<191,193,254,166,211,168,137,142>>, <<191,201,230,19,85,206,123,239>>,
            <<191,208,217,185,219,56,148,99>>, <<191,212,175,119,143,33,38,174>>, <<191,216,112,103,102,93,65,230>>, <<191,220,24,194,237,23,113,239>>,
            <<191,223,164,220,103,232,223,82>>, <<191,225,136,145,67,126,7,55>>, <<191,227,45,17,254,77,128,147>>, <<191,228,190,73,121,197,241,241>>,
            <<191,230,58,164,48,224,114,118>>, <<191,231,160,163,154,2,58,121>>, <<191,232,238,223,167,184,55,244>>, <<191,234,36,8,50,213,147,44>>,
            <<191,235,62,230,76,136,226,75>>, <<191,236,62,93,119,19,195,149>>, <<191,237,33,108,195,234,175,183>>, <<191,237,231,47,214,29,9,242>>,
            <<191,238,142,223,200,1,165,218>>, <<191,239,23,211,243,64,164,70>>, <<191,239,129,130,154,113,170,28>>, <<191,239,203,129,115,163,162,227>>,
            <<191,239,245,134,19,66,232,32>>, <<191,239,255,102,54,242,41,54>>, <<191,239,233,23,240,10,226,160>>, <<191,239,178,177,173,154,158,115>>,
            <<191,239,92,106,37,210,236,81>>, <<191,238,230,152,31,2,209,244>>, <<191,238,81,178,24,80,241,69>>, <<191,237,158,77,210,142,74,57>>,
            <<191,236,205,31,185,153,97,161>>, <<191,235,222,250,46,233,56,61>>, <<191,234,212,204,181,246,193,38>>, <<191,233,175,163,3,89,112,219>>,
            <<191,232,112,163,239,137,71,130>>, <<191,231,25,16,78,85,39,115>>, <<191,229,170,65,172,55,128,189>>, <<191,228,37,168,242,206,49,112>>,
            <<191,226,140,204,245,210,199,28>>, <<191,224,225,72,234,8,132,20>>, <<191,222,73,149,143,86,164,90>>, <<191,218,178,35,51,255,187,14>>,
            <<191,214,255,215,123,110,159,108>>, <<191,211,54,106,31,214,113,170>>, <<191,206,179,84,62,21,131,71>>, <<191,198,218,243,203,209,89,189>>,
            <<191,189,215,45,160,212,102,220>>, <<191,171,180,225,70,231,129,28>>, <<63,129,129,217,45,98,96,160>>, <<63,178,56,179,124,116,8,10>>,
            <<63,193,23,108,44,188,176,151>>, <<63,201,1,78,17,221,34,51>>, <<63,208,105,4,245,114,191,180>>, <<63,212,64,225,192,16,52,14>>,
            <<63,216,4,95,230,78,101,65>>, <<63,219,175,182,98,71,139,113>>, <<63,223,63,52,121,62,86,154>>, <<63,225,87,162,184,226,126,21>>,
            <<63,226,254,58,22,220,179,2>>, <<63,228,145,183,82,60,20,234>>, <<63,230,16,132,156,227,24,64>>, <<63,231,121,32,247,10,164,48>>,
            <<63,232,202,33,178,119,186,71>>, <<63,234,2,51,223,62,127,24>>, <<63,235,32,29,160,164,48,253>>, <<63,236,34,191,104,201,40,221>>,
            <<63,237,9,21,25,221,32,165>>, <<63,237,210,55,11,187,88,190>>, <<63,238,125,90,244,231,13,170>>, <<63,239,9,212,181,254,53,101>>,
            <<63,239,119,23,6,213,213,74>>, <<63,239,196,180,4,145,189,197>>, <<63,239,242,93,160,40,220,139>>, <<63,239,255,229,236,230,254,172>>,
            <<63,239,237,63,78,156,252,58>>, <<63,239,186,124,135,80,232,2>>, <<63,239,103,208,164,96,121,251>>, <<63,238,245,142,203,40,169,207>>,
            <<63,238,100,41,229,102,46,64>>, <<63,237,180,52,45,162,216,86>>, <<63,236,230,94,156,36,59,235>>, <<63,235,251,120,52,239,85,7>>,
            <<63,234,244,109,55,148,79,140>>, <<63,233,210,70,49,147,231,94>>, <<63,232,150,38,244,77,15,190>>, <<63,231,65,77,111,126,221,105>>,
            <<63,229,213,16,113,133,158,23>>, <<63,228,82,222,78,148,174,157>>, <<63,226,188,59,112,72,11,180>>, <<63,225,18,192,207,0,12,59>>,
            <<63,222,176,52,173,31,240,142>>, <<63,219,28,10,111,186,214,54>>, <<63,215,108,156,82,66,208,158>>, <<63,211,165,159,45,25,243,64>>,
            <<63,207,149,191,20,144,19,23>>, <<63,199,192,123,166,183,14,75>>, <<63,191,166,169,173,53,181,46>>, <<63,175,89,13,194,168,63,122>>,
            <<191,87,87,222,89,245,114,94>>, <<191,176,102,231,235,119,18,215>>, <<191,192,47,248,173,226,36,160>>, <<191,200,28,53,164,61,6,51>>,
            <<191,207,240,50,247,143,36,115>>, <<191,211,210,8,148,239,225,199>>, <<191,215,152,8,133,197,59,43>>, <<191,219,70,77,194,232,66,241>>,
            <<191,222,217,36,158,139,72,224>>, <<191,225,38,122,128,200,106,44>>, <<191,226,207,35,4,117,91,192>>, <<191,228,100,224,193,203,125,91>>,
            <<191,229,230,27,166,220,50,139>>, <<191,231,81,80,66,180,154,144>>, <<191,232,165,17,75,7,240,94>>, <<191,233,224,9,11,146,149,221>>,
            <<191,235,0,250,189,196,87,226>>, <<191,236,6,195,199,88,152,77>>, <<191,236,240,92,222,155,124,118>>, <<191,237,188,219,19,54,131,185>>,
            <<191,238,107,112,186,122,36,70>>, <<191,238,251,110,62,54,159,21>>, <<191,239,108,66,205,84,52,151>>, <<191,239,189,124,237,121,15,40>>,
            <<191,239,238,202,237,42,83,194>>, <<191,239,255,251,53,245,166,219>>, <<191,239,240,252,126,80,127,185>>, <<191,239,193,221,218,251,24,125>>,
            <<191,239,114,206,175,213,131,198>>, <<191,239,4,30,128,54,40,228>>, <<191,238,118,60,158,241,157,163>>, <<191,237,201,183,190,100,56,22>>,
            <<191,236,255,61,96,238,1,65>>, <<191,236,23,153,42,113,112,210>>, <<191,235,19,180,19,132,58,130>>, <<191,233,244,147,127,32,116,194>>,
            <<191,232,187,88,51,193,141,152>>, <<191,231,105,61,56,245,102,139>>, <<191,229,255,150,154,133,247,80>>, <<191,228,127,208,18,121,206,240>>,
            <<191,226,235,107,155,67,157,212>>, <<191,225,67,255,235,144,139,186>>, <<191,223,22,109,186,120,23,85>>, <<191,219,133,151,130,8,61,125>>,
            <<191,215,217,19,65,90,161,201>>, <<191,212,20,146,226,172,158,43>>, <<191,208,59,224,111,151,200,19>>, <<191,200,165,180,130,238,66,118>>,
            <<191,192,186,222,58,188,148,2>>, <<191,177,126,104,254,52,85,35>>, <<191,119,87,214,150,124,24,240>>, <<63,173,41,203,155,55,202,118>>,
            <<63,190,144,158,177,187,102,232>>, <<63,199,54,205,6,221,81,84>>, <<63,207,13,241,203,136,225,107>>, <<63,211,98,237,126,105,252,244>>,
            <<63,215,43,98,173,21,33,137>>, <<63,218,220,138,109,140,11,196>>, <<63,222,114,174,43,64,141,222>>, <<63,224,245,25,62,172,222,0>>,
            <<63,226,159,205,99,180,171,42>>, <<63,228,55,198,93,147,249,246>>, <<63,229,187,105,219,216,54,122>>, <<63,231,41,50,1,107,88,44>>,
            <<63,232,127,174,236,173,183,84>>, <<63,233,189,136,41,116,87,120>>, <<63,234,225,126,11,119,50,191>>, <<63,235,234,106,239,211,36,192>>,
            <<63,236,215,68,100,92,100,232>>, <<63,237,167,28,51,152,30,245>>, <<63,238,89,33,84,79,246,202>>, <<63,238,236,160,187,206,116,143>>,
            <<63,239,97,6,17,240,187,29>>, <<63,239,181,220,70,88,182,121>>, <<63,239,234,206,6,41,113,172>>, <<63,239,255,166,17,215,87,42>>,
            <<63,239,244,79,114,181,252,77>>, <<63,239,200,213,144,13,152,163>>, <<63,239,125,100,35,162,253,145>>, <<63,239,18,71,13,189,146,42>>,
            <<63,238,135,234,8,215,137,31>>, <<63,237,222,216,61,69,36,130>>, <<63,237,23,187,181,63,223,144>>, <<63,236,51,92,177,226,86,176>>,
            <<63,235,50,160,225,192,254,37>>, <<63,234,22,138,121,233,246,149>>, <<63,232,224,55,50,52,168,102>>, <<63,231,144,223,37,230,26,126>>,
            <<63,230,41,211,153,202,247,205>>, <<63,228,172,125,169,3,85,188>>, <<63,227,26,92,217,212,207,140>>, <<63,225,117,5,155,240,208,130>>,
            <<63,223,124,63,99,101,60,172>>, <<63,219,238,201,11,220,104,136>>, <<63,216,69,58,223,249,230,70>>, <<63,212,131,67,207,140,103,187>>,
            <<63,208,172,171,87,37,67,127>>, <<63,201,138,155,102,28,62,80>>, <<63,193,162,47,250,193,175,205>>, <<63,179,80,16,236,161,0,71>>,
            <<63,138,66,171,144,102,142,124>>, <<191,169,133,102,97,129,95,230>>, <<191,188,192,230,96,77,241,39>>, <<191,198,81,23,52,183,173,219>>,
            <<191,206,43,73,87,79,35,50>>, <<191,210,243,145,238,3,143,136>>, <<191,214,190,111,197,150,67,126>>, <<191,218,114,109,193,242,229,130>>,
            <<191,222,11,210,116,36,87,253>>, <<191,224,195,127,150,202,139,172>>, <<191,226,112,57,210,7,216,58>>, <<191,228,10,104,187,150,232,62>>,
            <<191,229,144,111,201,213,220,52>>, <<191,231,0,198,184,156,8,158>>, <<191,232,89,251,19,190,128,204>>, <<191,233,154,177,171,164,128,186>>,
            <<191,234,193,167,242,117,70,93>>, <<191,235,205,181,64,127,220,195>>, <<191,236,189,203,254,150,159,47>>, <<191,237,144,250,181,50,167,191>>,
            <<191,238,70,108,255,78,9,4>>, <<191,238,221,108,96,0,253,233>>, <<191,239,85,96,250,10,243,96>>, <<191,239,173,210,40,142,229,135>>,
            <<191,239,230,102,248,105,143,170>>, <<191,239,254,230,129,167,57,239>>, <<191,239,247,56,32,191,78,200>>, <<191,239,207,99,143,92,24,18>>,
            <<191,239,135,144,220,149,183,255>>, <<191,239,32,8,68,168,56,222>>, <<191,238,153,49,232,77,41,128>>, <<191,237,243,149,100,1,222,206>>,
            <<191,237,47,217,71,163,191,66>>, <<191,236,78,194,110,235,146,238>>, <<191,235,81,51,59,112,157,228>>, <<191,234,56,42,176,250,85,44>>,
            <<191,233,4,195,117,5,220,156>>, <<191,231,184,50,178,129,77,119>>, <<191,230,83,198,226,218,106,121>>, <<191,228,216,230,125,153,181,235>>,
            <<191,227,73,14,143,220,76,55>>, <<191,225,165,209,61,22,179,183>>, <<191,223,225,168,85,69,63,35>>, <<191,220,87,157,175,92,16,49>>,
            <<191,216,177,17,198,108,43,206>>, <<191,212,241,176,131,149,113,41>>, <<191,209,29,62,201,207,59,212>>, <<191,202,111,45,86,246,171,223>>,
            <<191,194,137,71,21,85,234,211>>, <<191,181,33,120,159,232,1,96>>, <<191,148,108,138,63,137,88,56>>, <<63,165,224,172,70,201,28,100>>,
            <<63,186,240,206,109,189,115,242>>, <<63,197,107,23,41,198,108,224>>, <<63,205,72,60,140,181,152,103>>, <<63,210,131,247,86,23,244,183>>,
            <<63,214,81,49,57,161,57,137>>, <<63,218,7,249,33,6,25,246>>, <<63,221,164,146,207,77,128,192>>, <<63,224,145,174,46,23,199,225>>,
            <<63,226,64,104,237,170,40,124>>, <<63,227,220,200,114,181,78,1>>, <<63,229,101,45,255,196,44,40>>, <<63,230,216,14,238,180,15,200>>,
            <<63,232,51,246,61,158,196,226>>, <<63,233,119,134,6,0,120,43>>, <<63,234,161,120,220,160,121,239>>, <<63,235,176,163,24,218,146,170>>,
            <<63,236,163,244,1,255,239,16>>, <<63,237,122,118,225,160,156,230>>, <<63,238,51,83,249,169,139,210>>, <<63,238,205,209,93,95,148,151>>,
            <<63,239,73,83,172,93,122,156>>, <<63,239,165,94,174,216,145,220>>, <<63,239,225,149,210,143,19,140>>, <<63,239,253,188,135,226,106,133>>,
            <<63,239,249,182,126,191,200,206>>, <<63,239,213,135,195,25,215,163>>, <<63,239,145,84,184,214,209,86>>, <<63,239,45,97,247,55,37,166>>,
            <<63,238,170,20,3,217,105,89>>, <<63,238,7,238,237,161,8,14>>, <<63,237,71,149,199,229,88,225>>, <<63,236,105,202,6,110,156,154>>,
            <<63,235,111,106,186,229,248,44>>, <<63,234,89,115,180,124,16,123>>, <<63,233,40,252,130,167,201,132>>, <<63,231,223,55,91,252,3,172>>,
            <<63,230,125,111,234,47,48,36>>, <<63,229,5,9,252,138,30,206>>, <<63,227,119,128,34,13,252,70>>, <<63,225,214,98,44,185,19,4>>,
            <<63,224,35,83,159,105,46,123>>, <<63,220,192,20,15,225,2,79>>, <<63,217,28,150,142,9,95,169>>, <<63,213,95,215,143,134,162,142>>,
            <<63,209,141,153,81,45,15,240>>, <<63,203,83,103,93,78,8,48>>, <<63,195,112,32,137,231,206,182>>, <<63,182,242,154,12,45,23,186>>,
            <<63,155,183,122,201,157,97,200>>, <<191,162,59,169,105,39,1,129>>, <<191,185,32,92,225,137,230,253>>, <<191,196,132,207,226,250,216,106>>,
            <<191,204,100,206,94,221,195,106>>, <<191,210,20,31,41,212,85,164>>, <<191,213,227,168,116,138,9,182>>, <<191,217,157,45,236,211,102,29>>,
            <<191,221,60,240,148,31,100,164>>, <<191,224,95,165,170,68,70,182>>, <<191,226,16,91,85,162,193,33>>, <<191,227,174,230,26,173,230,223>>,
            <<191,229,57,165,13,128,196,9>>, <<191,230,175,11,43,31,49,165>>, <<191,232,13,160,232,192,73,218>>, <<191,233,84,5,173,128,228,116>>,
            <<191,234,128,241,53,2,163,123>>, <<191,235,147,52,217,146,166,224>>, <<191,236,137,188,196,139,254,150>>, <<191,237,99,145,3,195,139,205>>,
            <<191,238,31,214,130,230,147,100>>, <<191,238,189,207,231,208,247,25>>, <<191,239,60,222,80,253,136,208>>, <<191,239,156,129,245,81,22,231>>,
            <<191,239,220,90,164,159,60,94>>, <<191,239,252,40,40,103,237,172>>, <<191,239,251,202,132,108,79,174>>, <<191,239,219,66,22,217,246,62>>,
            <<191,239,154,175,151,236,44,57>>, <<191,239,58,83,249,3,164,68>>, <<191,238,186,144,35,85,174,159>>, <<191,238,27,228,150,116,150,43>>,
            <<191,237,94,240,231,19,63,149>>, <<191,236,132,115,30,134,3,2>>, <<191,235,141,70,251,162,16,43>>, <<191,234,122,101,21,187,177,104>>,
            <<191,233,76,225,226,161,195,69>>, <<191,232,5,236,160,145,150,224>>, <<191,230,166,206,37,59,41,139>>, <<191,229,48,231,147,8,69,232>>,
            <<191,227,165,176,245,243,38,151>>, <<191,226,6,183,201,82,10,144>>, <<191,224,85,157,104,19,181,248>>, <<191,221,40,42,209,254,126,7>>,
            <<191,217,135,199,209,58,185,222>>, <<191,213,205,183,133,6,180,88>>, <<191,209,253,185,119,147,69,218>>, <<191,204,55,70,130,22,215,84>>,
            <<191,196,86,185,88,179,13,26>>, <<191,184,195,111,38,125,253,115>>, <<191,161,129,7,146,165,251,69>>, <<63,157,44,211,207,75,29,69>>,
            <<63,183,79,151,196,92,129,218>>, <<63,195,158,68,94,51,67,144>>, <<63,203,129,1,194,44,221,1>>, <<63,209,164,10,221,50,146,40>>,
            <<63,213,117,214,226,155,193,180>>, <<63,217,50,13,136,136,103,161>>, <<63,220,212,237,27,69,45,151>>, <<63,224,45,102,177,183,9,5>>,
            <<63,225,224,17,169,194,186,23>>, <<63,227,128,194,76,27,15,84>>, <<63,229,13,213,131,213,218,173>>, <<63,230,133,187,246,69,238,147>>,
            <<63,231,230,251,148,160,156,74>>, <<63,233,48,49,24,56,25,2>>, <<63,234,96,17,103,204,37,192>>, <<63,235,117,106,228,137,200,162>>,
            <<63,236,111,38,157,107,74,246>>, <<63,237,76,73,103,195,9,65>>, <<63,238,11,244,219,215,68,64>>, <<63,238,173,104,52,144,156,21>>,
            <<63,239,48,1,17,90,100,51>>, <<63,239,147,60,25,113,219,216>>, <<63,239,214,181,127,255,237,28>>, <<63,239,250,41,104,120,164,2>>,
            <<63,239,253,116,42,219,120,215>>, <<63,239,224,146,119,143,176,26>>, <<63,239,163,161,90,184,212,101>>, <<63,239,70,222,30,255,224,103>>,
            <<63,238,202,166,15,238,136,153>>, <<63,238,47,118,28,26,158,241>>, <<63,237,117,234,87,127,222,12>>, <<63,236,158,189,94,134,169,38>>,
            <<63,235,170,199,154,85,90,71>>, <<63,234,154,254,103,41,44,104>>, <<63,233,112,115,29,145,121,191>>, <<63,232,44,81,255,133,115,102>>,
            <<63,230,207,225,10,105,1,17>>, <<63,229,92,126,175,48,106,129>>, <<63,227,211,160,113,236,94,251>>, <<63,226,54,209,114,33,10,167>>,
            <<63,224,135,176,221,98,27,102>>, <<63,221,143,224,155,133,226,25>>, <<63,217,242,164,43,127,17,95>>, <<63,214,59,78,246,168,158,188>>,
            <<63,210,109,157,200,24,178,131>>, <<63,205,26,199,207,116,29,97>>, <<63,197,61,14,130,202,26,69>>, <<63,186,147,241,228,229,193,50>>,
            <<63,165,38,23,137,83,158,151>>, <<191,149,225,243,196,51,97,254>>, <<191,181,126,133,31,245,8,198>>, <<191,194,183,119,154,48,216,44>>,
            <<191,202,156,217,172,66,78,154>>, <<191,209,51,187,228,244,115,46>>, <<191,213,7,189,241,19,119,204>>, <<191,216,198,153,88,110,28,218>>,
            <<191,220,108,137,190,173,95,109>>, <<191,223,245,227,215,24,102,66>>, <<191,225,175,140,138,162,233,151>>, <<191,227,82,93,160,112,235,192>>,
            <<191,228,225,191,244,120,127,98>>, <<191,230,92,33,217,139,164,97>>, <<191,231,192,6,193,199,76,239>>, <<191,233,12,8,189,80,156,8>>,
            <<191,234,62,217,226,82,149,231>>, <<191,235,87,69,156,210,158,35>>, <<191,236,84,49,229,9,242,89>>, <<191,237,52,160,91,11,195,204>>,
            <<191,237,247,175,70,154,246,83>>, <<191,238,156,154,122,46,5,172>>, <<191,239,34,188,24,60,215,234>>, <<191,239,137,141,58,17,242,145>>,
            <<191,239,208,166,119,119,116,68>>, <<191,239,247,192,78,183,57,5>>, <<191,239,254,179,108,133,159,143>>, <<191,239,229,120,211,142,161,178>>,
            <<191,239,172,41,227,125,108,37>>, <<191,239,83,0,63,119,107,49>>, <<191,238,218,85,148,36,112,118>>, <<191,238,66,163,61,126,80,46>>,
            <<191,237,140,129,204,194,135,48>>, <<191,236,184,168,111,0,216,120>>, <<191,235,199,236,52,225,24,167>>, <<191,234,187,63,60,89,98,37>>,
            <<191,233,147,175,189,44,108,224>>, <<191,232,82,102,249,36,180,126>>, <<191,230,248,168,17,29,232,246>>, <<191,229,135,206,192,9,55,163>>,
            <<191,228,1,77,253,51,130,53>>, <<191,226,102,174,135,44,225,32>>, <<191,224,185,141,88,200,248,171>>, <<191,221,247,52,19,138,229,5>>,
            <<191,218,93,42,57,111,191,224>>, <<191,214,168,156,119,240,156,248>>, <<191,210,221,68,206,154,253,137>>, <<191,205,253,232,80,192,217,32>>,
            <<191,198,35,29,10,32,193,195>>, <<191,188,100,28,62,129,250,104>>, <<191,168,202,225,41,161,11,210>>, <<63,141,45,149,227,224,195,215>>,
            <<63,179,173,42,255,20,89,83>>, <<63,193,208,108,150,141,160,148>>, <<63,201,184,89,19,237,234,123>>, <<63,208,195,51,182,158,241,173>>,
            <<63,212,153,95,14,27,147,117>>, <<63,216,90,210,193,228,75,129>>, <<63,220,3,199,217,133,125,23>>, <<63,223,144,143,255,37,166,151>>,
            <<63,225,126,204,153,161,242,117>>, <<63,227,35,184,177,251,77,158>>, <<63,228,181,100,242,6,154,113>>, <<63,230,50,61,95,76,214,67>>,
            <<63,231,152,194,241,196,84,252>>, <<63,232,231,141,21,11,129,132>>, <<63,234,29,75,19,15,59,137>>, <<63,235,56,197,102,175,145,109>>,
            <<63,236,56,222,245,14,161,226>>, <<63,237,28,150,44,78,120,190>>, <<63,237,227,6,6,157,88,199>>, <<63,238,139,102,240,140,13,129>>,
            <<63,239,21,15,145,198,171,42>>, <<63,239,127,117,119,101,171,34>>, <<63,239,202,45,159,44,77,170>>, <<63,239,244,236,227,40,12,72>>,
            <<63,239,255,136,69,68,248,143>>, <<63,239,233,245,26,139,0,54>>, <<63,239,180,73,21,216,142,73>>, <<63,239,94,186,50,15,205,212>>,
            <<63,238,233,158,123,204,116,124>>, <<63,238,85,107,186,216,178,113>>, <<63,237,162,182,251,184,98,254>>, <<63,236,210,51,249,193,117,172>>,
            <<63,235,228,180,106,88,139,58>>, <<63,234,219,39,42,7,111,141>>, <<63,233,182,151,76,65,132,202>>, <<63,232,120,43,14,199,231,58>>,
            <<63,231,33,34,177,187,95,34>>, <<63,229,178,215,53,133,148,105>>, <<63,228,46,184,255,221,206,70>>, <<63,226,150,78,105,69,205,141>>,
            <<63,224,235,50,52,115,197,241>>, <<63,222,94,35,226,104,80,93>>, <<63,218,199,88,152,197,19,204>>, <<63,215,21,158,157,88,225,200>>,
            <<63,211,76,173,23,195,195,161>>, <<63,206,224,165,18,154,53,252>>, <<63,199,8,225,241,149,108,114>>, <<63,190,51,232,43,149,125,51>>,
            <<63,172,111,88,85,66,225,212>>, <<191,125,45,198,105,128,231,23>>, <<191,177,219,143,109,106,80,90>>, <<191,192,233,38,83,178,237,179>>,
            <<191,200,211,130,241,37,131,40>>, <<191,208,82,115,200,117,100,80>>, <<191,212,42,187,168,199,56,227>>, <<191,215,238,187,43,92,153,168>>,
            <<191,219,154,168,200,53,98,62>>, <<191,223,42,211,44,149,102,228>>, <<191,225,77,210,120,226,13,164>>, <<191,226,244,212,27,219,197,84>>,
            <<191,228,136,197,16,5,8,70>>, <<191,230,8,15,18,221,96,228>>, <<191,231,113,48,167,46,87,23>>, <<191,232,194,190,152,190,246,124>>,
            <<191,233,251,101,105,157,186,98>>, <<191,235,25,234,167,145,112,105>>, <<191,236,29,46,40,89,89,45>>, <<191,237,4,43,43,126,248,84>>,
            <<191,237,205,249,96,149,154,59>>, <<191,238,121,205,208,224,32,71>>, <<191,239,6,251,171,114,6,47>>, <<191,239,116,244,242,254,47,236>>,
            <<191,239,195,75,12,164,221,207>>, <<191,239,241,175,47,49,23,134>>, <<191,239,255,242,178,85,159,99>>, <<191,239,238,7,61,153,207,200>>,
            <<191,239,187,254,214,199,42,55>>, <<191,239,106,11,207,201,14,160>>, <<191,238,248,128,148,16,229,201>>, <<191,238,103,207,85,177,139,167>>,
            <<191,237,184,137,154,133,118,145>>, <<191,236,235,95,169,211,11,234>>, <<191,236,1,31,219,2,68,27>>, <<191,234,250,181,198,22,40,207>>,
            <<191,233,217,41,86,186,137,53>>, <<191,232,157,157,194,212,146,248>>, <<191,231,73,80,101,161,9,41>>, <<191,229,221,151,128,134,157,197>>,
            <<191,228,91,224,226,221,188,70>>, <<191,226,197,176,122,7,159,206>>, <<191,225,28,158,203,70,243,128>>, <<191,222,196,174,177,196,112,66>>,
            <<191,219,49,45,232,90,227,133>>, <<191,215,130,83,252,86,50,113>>, <<191,211,187,213,49,13,59,157>>, <<191,207,194,251,34,232,192,187>>,
            <<191,199,238,90,60,251,159,41>>, <<191,192,1,167,210,206,195,141>>, <<191,176,9,184,119,127,61,242>>, <<61,57,98,13,5,69,192,164>>,
            <<63,176,9,184,119,127,48,189>>, <<63,192,1,167,210,206,204,220>>, <<63,199,238,90,60,251,184,25>>, <<63,207,194,251,34,232,186,82>>,
            <<63,211,187,213,49,13,64,19>>, <<63,215,130,83,252,86,47,93>>, <<63,219,49,45,232,90,231,196>>, <<63,222,196,174,177,196,109,91>>,
            <<63,225,28,158,203,70,242,27>>, <<63,226,197,176,122,7,161,180>>, <<63,228,91,224,226,221,190,21>>, <<63,229,221,151,128,134,159,124>>,
            <<63,231,73,80,101,161,8,6>>, <<63,232,157,157,194,212,151,6>>, <<63,233,217,41,86,186,138,151>>, <<63,234,250,181,198,22,39,235>>,
            <<63,236,1,31,219,2,71,45>>, <<63,236,235,95,169,211,11,53>>, <<63,237,184,137,154,133,119,111>>, <<63,238,103,207,85,177,140,98>>,
            <<63,238,248,128,148,16,229,95>>, <<63,239,106,11,207,201,15,18>>, <<63,239,187,254,214,199,42,0>>, <<63,239,238,7,61,153,207,239>>,
            <<63,239,255,242,178,85,159,98>>, <<63,239,241,175,47,49,23,159>>, <<63,239,195,75,12,164,221,134>>, <<63,239,116,244,242,254,46,194>>,
            <<63,239,6,251,171,114,5,156>>, <<63,238,121,205,208,224,32,200>>, <<63,237,205,249,96,149,151,236>>, <<63,237,4,43,43,126,247,87>>,
            <<63,236,29,46,40,89,89,247>>, <<63,235,25,234,167,145,109,9>>, <<63,233,251,101,105,157,187,90>>, <<63,232,194,190,152,190,245,0>>,
            <<63,231,113,48,167,46,85,126>>, <<63,230,8,15,18,221,98,23>>, <<63,228,136,197,16,5,9,139>>, <<63,226,244,212,27,219,198,170>>,
            <<63,225,77,210,120,226,11,170>>, <<63,223,42,211,44,149,91,207>>, <<63,219,154,168,200,53,101,58>>, <<63,215,238,187,43,92,149,78>>,
            <<63,212,42,187,168,199,44,215>>, <<63,208,82,115,200,117,95,198>>, <<63,200,211,130,241,37,137,166>>, <<63,192,233,38,83,178,212,138>>,
            <<63,177,219,143,109,106,61,162>>, <<63,125,45,198,105,127,186,215>>, <<191,172,111,88,85,67,7,77>>, <<191,190,51,232,43,149,112,15>>,
            <<191,199,8,225,241,149,117,173>>, <<191,206,224,165,18,154,63,24>>, <<191,211,76,173,23,195,192,122>>, <<191,215,21,158,157,88,237,158>>,
            <<191,218,199,88,152,197,16,202>>, <<191,222,94,35,226,104,84,126>>, <<191,224,235,50,52,115,203,84>>, <<191,226,150,78,105,69,204,52>>,
            <<191,228,46,184,255,221,204,253>>, <<191,229,178,215,53,133,153,19>>, <<191,231,33,34,177,187,96,193>>, <<191,232,120,43,14,199,230,41>>,
            <<191,233,182,151,76,65,131,206>>, <<191,234,219,39,42,7,112,211>>, <<191,235,228,180,106,88,140,97>>, <<191,236,210,51,249,193,118,176>>,
            <<191,237,162,182,251,184,98,94>>, <<191,238,85,107,186,216,179,49>>, <<191,238,233,158,123,204,117,23>>, <<191,239,94,186,50,15,206,74>>,
            <<191,239,180,73,21,216,143,37>>, <<191,239,233,245,26,139,0,23>>, <<191,239,255,136,69,68,248,149>>, <<191,239,244,236,227,40,11,243>>,
            <<191,239,202,45,159,44,77,219>>, <<191,239,127,117,119,101,171,109>>, <<191,239,21,15,145,198,169,167>>, <<191,238,139,102,240,140,12,206>>,
            <<191,237,227,6,6,157,89,94>>, <<191,237,28,150,44,78,121,110>>, <<191,236,56,222,245,14,162,169>>, <<191,235,56,197,102,175,144,49>>,
            <<191,234,29,75,19,15,58,46>>, <<191,232,231,141,21,11,130,142>>, <<191,231,152,194,241,196,80,179>>, <<191,230,50,61,95,76,212,147>>,
            <<191,228,181,100,242,6,152,167>>, <<191,227,35,184,177,251,72,136>>, <<191,225,126,204,153,161,243,216>>, <<191,223,144,143,255,37,162,131>>,
            <<191,220,3,199,217,133,113,173>>, <<191,216,90,210,193,228,71,42>>, <<191,212,153,95,14,27,150,150>>, <<191,208,195,51,182,158,244,223>>,
            <<191,201,184,89,19,237,225,74>>, <<191,193,208,108,150,141,167,33>>, <<191,179,173,42,255,20,102,133>>, <<191,141,45,149,227,225,45,180>>,
            <<63,168,202,225,41,161,113,60>>, <<63,188,100,28,62,130,13,15>>, <<63,198,35,29,10,32,187,62>>, <<63,205,253,232,80,192,241,206>>,
            <<63,210,221,68,206,154,250,96>>, <<63,214,168,156,119,240,161,91>>, <<63,218,93,42,57,111,203,113>>, <<63,221,247,52,19,138,226,25>>,
            <<63,224,185,141,88,200,250,171>>, <<63,226,102,174,135,44,227,11>>, <<63,228,1,77,253,51,132,10>>, <<63,229,135,206,192,9,54,106>>,
            <<63,230,248,168,17,29,231,207>>, <<63,232,82,102,249,36,182,4>>, <<63,233,147,175,189,44,107,226>>, <<63,234,187,63,60,89,99,111>>,
            <<63,235,199,236,52,225,23,213>>, <<63,236,184,168,111,0,219,68>>, <<63,237,140,129,204,194,136,22>>, <<63,238,66,163,61,126,79,165>>,
            <<63,238,218,85,148,36,114,37>>, <<63,239,83,0,63,119,106,218>>, <<63,239,172,41,227,125,108,122>>, <<63,239,229,120,211,142,162,53>>,
            <<63,239,254,179,108,133,159,135>>, <<63,239,247,192,78,183,56,234>>, <<63,239,208,166,119,119,116,113>>, <<63,239,137,141,58,17,242,43>>,
            <<63,239,34,188,24,60,216,76>>, <<63,238,156,154,122,46,6,39>>, <<63,237,247,175,70,154,245,129>>, <<63,237,52,160,91,11,193,52>>,
            <<63,236,84,49,229,9,241,65>>, <<63,235,87,69,156,210,158,255>>, <<63,234,62,217,226,82,146,69>>, <<63,233,12,8,189,80,154,146>>,
            <<63,231,192,6,193,199,78,10>>, <<63,230,92,33,217,139,159,214>>, <<63,228,225,191,244,120,128,163>>, <<63,227,82,93,160,112,233,226>>,
            <<63,225,175,140,138,162,231,163>>, <<63,223,245,227,215,24,105,32>>, <<63,220,108,137,190,173,91,57>>, <<63,216,198,153,88,110,31,231>>,
            <<63,213,7,189,241,19,115,94>>, <<63,209,51,187,228,244,102,244>>, <<63,202,156,217,172,66,85,19>>, <<63,194,183,119,154,48,206,227>>,
            <<63,181,126,133,31,244,214,48>>, <<63,149,225,243,196,51,22,242>>, <<191,165,38,23,137,83,132,37>>, <<191,186,147,241,228,229,243,176>>,
            <<191,197,61,14,130,202,35,134>>, <<191,205,26,199,207,116,22,239>>, <<191,210,109,157,200,24,183,1>>, <<191,214,59,78,246,168,155,162>>,
            <<191,217,242,164,43,127,21,169>>, <<191,221,143,224,155,133,230,66>>, <<191,224,135,176,221,98,25,252>>, <<191,226,54,209,114,33,9,75>>,
            <<191,227,211,160,113,236,93,174>>, <<191,229,92,126,175,48,108,64>>, <<191,230,207,225,10,105,5,132>>, <<191,232,44,81,255,133,114,81>>,
            <<191,233,112,115,29,145,123,44>>, <<191,234,154,254,103,41,47,239>>, <<191,235,170,199,154,85,91,116>>, <<191,236,158,189,94,134,168,104>>,
            <<191,237,117,234,87,127,224,134>>, <<191,238,47,118,28,26,159,184>>, <<191,238,202,166,15,238,137,60>>, <<191,239,70,222,30,255,224,230>>,
            <<191,239,163,161,90,184,212,38>>, <<191,239,224,146,119,143,176,79>>, <<191,239,253,116,42,219,120,230>>, <<191,239,250,41,104,120,164,18>>,
            <<191,239,214,181,127,255,236,121>>, <<191,239,147,60,25,113,220,29>>, <<191,239,48,1,17,90,99,172>>, <<191,238,173,104,52,144,154,70>>,
            <<191,238,11,244,219,215,68,210>>, <<191,237,76,73,103,195,9,235>>, <<191,236,111,38,157,107,72,13>>, <<191,235,117,106,228,137,199,110>>,
            <<191,234,96,17,103,204,38,176>>, <<191,233,48,49,24,56,26,7>>, <<191,231,230,251,148,160,154,187>>, <<191,230,133,187,246,69,236,233>>,
            <<191,229,13,213,131,213,216,233>>, <<191,227,128,194,76,27,16,164>>, <<191,225,224,17,169,194,180,212>>, <<191,224,45,102,177,183,6,255>>,
            <<191,220,212,237,27,69,41,103>>, <<191,217,50,13,136,136,91,246>>, <<191,213,117,214,226,155,196,210>>, <<191,209,164,10,221,50,141,166>>,
            <<191,203,129,1,194,44,196,54>>, <<191,195,158,68,94,51,74,26>>, <<191,183,79,151,196,92,143,8>>, <<191,157,44,211,207,75,82,47>>,
            <<63,161,129,7,146,166,32,200>>, <<63,184,195,111,38,125,240,71>>, <<63,196,86,185,88,179,6,146>>, <<63,204,55,70,130,22,208,224>>,
            <<63,209,253,185,119,147,74,90>>, <<63,213,205,183,133,6,184,193>>, <<63,217,135,199,209,58,182,214>>, <<63,221,40,42,209,254,137,83>>,
            <<63,224,85,157,104,19,183,252>>, <<63,226,6,183,201,82,12,128>>, <<63,227,165,176,245,243,43,153>>, <<63,229,48,231,147,8,68,170>>,
            <<63,230,166,206,37,59,43,51>>, <<63,232,5,236,160,145,155,17>>, <<63,233,76,225,226,161,196,181>>, <<63,234,122,101,21,187,176,122>>,
            <<63,235,141,70,251,162,15,83>>, <<63,236,132,115,30,134,4,18>>, <<63,237,94,240,231,19,62,237>>, <<63,238,27,228,150,116,149,155>>,
            <<63,238,186,144,35,85,174,41>>, <<63,239,58,83,249,3,165,166>>, <<63,239,154,175,151,236,44,151>>, <<63,239,219,66,22,217,246,22>>,
            <<63,239,251,202,132,108,79,226>>, <<63,239,252,40,40,103,237,185>>, <<63,239,220,90,164,159,60,38>>, <<63,239,156,129,245,81,21,234>>,
            <<63,239,60,222,80,253,137,44>>, <<63,238,189,207,231,208,246,115>>, <<63,238,31,214,130,230,146,154>>, <<63,237,99,145,3,195,138,223>>,
            <<63,236,137,188,196,139,255,86>>, <<63,235,147,52,217,146,167,183>>, <<63,234,128,241,53,2,162,42>>, <<63,233,84,5,173,128,224,147>>,
            <<63,232,13,160,232,192,72,78>>, <<63,230,175,11,43,31,50,208>>, <<63,229,57,165,13,128,191,73>>, <<63,227,174,230,26,173,229,5>>,
            <<63,226,16,91,85,162,194,127>>, <<63,224,95,165,170,68,65,67>>, <<63,221,60,240,148,31,103,149>>, <<63,217,157,45,236,211,97,209>>,
            <<63,213,227,168,116,138,5,78>>, <<63,210,20,31,41,212,88,209>>, <<63,204,100,206,94,221,186,68>>, <<63,196,132,207,226,250,222,243>>,
            <<63,185,32,92,225,137,212,80>>, <<63,162,59,169,105,39,27,244>>, <<191,155,183,122,201,157,44,221>>, <<191,182,242,154,12,45,42,106>>,
            <<191,195,112,32,137,231,231,205>>, <<191,203,83,103,93,78,17,91>>, <<191,209,141,153,81,45,12,194>>, <<191,213,95,215,143,134,174,132>>,
            <<191,217,28,150,142,9,99,249>>, <<191,220,192,20,15,224,255,90>>, <<191,224,35,83,159,105,51,246>>, <<191,225,214,98,44,185,17,165>>,
            <<191,227,119,128,34,13,254,35>>, <<191,229,5,9,252,138,32,147>>, <<191,230,125,111,234,47,46,246>>, <<191,231,223,55,91,252,5,60>>,
            <<191,233,40,252,130,167,200,126>>, <<191,234,89,115,180,124,17,208>>, <<191,235,111,106,186,229,251,112>>, <<191,236,105,202,6,110,155,215>>,
            <<191,237,71,149,199,229,89,212>>, <<191,238,7,238,237,161,10,63>>, <<191,238,170,20,3,217,106,5>>, <<191,239,45,97,247,55,37,71>>,
            <<191,239,145,84,184,214,210,96>>, <<191,239,213,135,195,25,215,224>>, <<191,239,249,182,126,191,200,189>>, <<191,239,253,188,135,226,106,119>>,
            <<191,239,225,149,210,143,19,176>>, <<191,239,165,94,174,216,145,131>>, <<191,239,73,83,172,93,122,30>>, <<191,238,205,209,93,95,149,10>>,
            <<191,238,51,83,249,169,137,185>>, <<191,237,122,118,225,160,157,139>>, <<191,236,163,244,1,255,238,4>>, <<191,235,176,163,24,218,143,124>>,
            <<191,234,161,120,220,160,122,218>>, <<191,233,119,134,6,0,118,191>>, <<191,232,51,246,61,158,192,188>>, <<191,230,216,14,238,180,14,35>>,
            <<191,229,101,45,255,196,45,99>>, <<191,227,220,200,114,181,79,77>>, <<191,226,64,104,237,170,38,143>>, <<191,224,145,174,46,23,197,223>>,
            <<191,221,164,146,207,77,124,152>>, <<191,218,7,249,33,6,28,252>>, <<191,214,81,49,57,161,53,35>>, <<191,210,131,247,86,23,240,58>>,
            <<191,205,72,60,140,181,158,216>>, <<191,197,107,23,41,198,83,218>>, <<191,186,240,206,109,189,129,27>>, <<191,165,224,172,70,200,246,229>>,
            <<63,148,108,138,63,138,35,62>>, <<63,181,33,120,159,231,244,47>>, <<63,194,137,71,21,85,228,71>>, <<63,202,111,45,86,246,196,181>>,
            <<63,209,29,62,201,207,64,89>>, <<63,212,241,176,131,149,110,9>>, <<63,216,177,17,198,108,40,192>>, <<63,220,87,157,175,92,20,102>>,
            <<63,223,225,168,85,69,67,53>>, <<63,225,165,209,61,22,181,172>>, <<63,227,73,14,143,220,74,229>>, <<63,228,216,230,125,153,186,187>>,
            <<63,230,83,198,226,218,108,39>>, <<63,231,184,50,178,129,79,10>>, <<63,233,4,195,117,5,224,145>>, <<63,234,56,42,176,250,84,58>>,
            <<63,235,81,51,59,112,159,29>>, <<63,236,78,194,110,235,149,227>>, <<63,237,47,217,71,163,190,149>>, <<63,237,243,149,100,1,222,57>>,
            <<63,238,153,49,232,77,41,4>>, <<63,239,32,8,68,168,57,106>>, <<63,239,135,144,220,149,183,183>>, <<63,239,207,99,143,92,23,228>>,
            <<63,239,247,56,32,191,78,180>>, <<63,239,254,230,129,167,57,212>>, <<63,239,230,102,248,105,143,123>>, <<63,239,173,210,40,142,229,195>>,
            <<63,239,85,96,250,10,242,22>>, <<63,238,221,108,96,0,253,74>>, <<63,238,70,108,255,78,8,65>>, <<63,237,144,250,181,50,165,81>>,
            <<63,236,189,203,254,150,159,233>>, <<63,235,205,181,64,127,219,154>>, <<63,234,193,167,242,117,69,19>>, <<63,233,154,177,171,164,127,82>>,
            <<63,232,89,251,19,190,129,223>>, <<63,231,0,198,184,156,9,197>>, <<63,229,144,111,201,213,218,120>>, <<63,228,10,104,187,150,233,136>>,
            <<63,226,112,57,210,7,217,148>>, <<63,224,195,127,150,202,141,20>>, <<63,222,11,210,116,36,76,201>>, <<63,218,114,109,193,242,225,60>>,
            <<63,214,190,111,197,150,70,150>>, <<63,210,243,145,238,3,131,104>>, <<63,206,43,73,87,79,41,160>>, <<63,198,81,23,52,183,164,157>>,
            <<63,188,192,230,96,77,190,182>>, <<63,169,133,102,97,129,122,85>>, <<191,138,66,171,144,103,36,154>>, <<191,179,80,16,236,161,18,253>>,
            <<191,193,162,47,250,193,185,24>>, <<191,201,138,155,102,28,55,212>>, <<191,208,172,171,87,37,64,77>>, <<191,212,131,67,207,140,108,44>>,
            <<191,216,69,58,223,249,242,4>>, <<191,219,238,201,11,220,108,192>>, <<191,223,124,63,99,101,57,203>>, <<191,225,117,5,155,240,213,212>>,
            <<191,227,26,92,217,212,209,110>>, <<191,228,172,125,169,3,84,120>>, <<191,230,41,211,153,202,252,96>>, <<191,231,144,223,37,230,25,95>>,
            <<191,232,224,55,50,52,169,224>>, <<191,234,22,138,121,233,247,241>>, <<191,235,50,160,225,192,253,69>>, <<191,236,51,92,177,226,87,204>>,
            <<191,237,23,187,181,63,222,224>>, <<191,237,222,216,61,69,37,90>>, <<191,238,135,234,8,215,139,5>>, <<191,239,18,71,13,189,145,197>>,
            <<191,239,125,100,35,162,253,251>>, <<191,239,200,213,144,13,153,95>>, <<191,239,244,79,114,181,252,109>>, <<191,239,255,166,17,215,87,46>>,
            <<191,239,234,206,6,41,113,56>>, <<191,239,181,220,70,88,182,40>>, <<191,239,97,6,17,240,187,112>>, <<191,238,236,160,187,206,114,238>>,
            <<191,238,89,33,84,79,247,81>>, <<191,237,167,28,51,152,30,19>>, <<191,236,215,68,100,92,99,228>>, <<191,235,234,106,239,211,37,143>>,
            <<191,234,225,126,11,119,49,121>>, <<191,233,189,136,41,116,88,116>>, <<191,232,127,174,236,173,181,210>>, <<191,231,41,50,1,107,83,203>>,
            <<191,229,187,105,219,216,55,177>>, <<191,228,55,198,93,147,248,36>>, <<191,226,159,205,99,180,169,66>>, <<191,224,245,25,62,172,220,3>>,
            <<191,222,114,174,43,64,144,199>>, <<191,218,220,138,109,140,0,63>>, <<191,215,43,98,173,21,29,41>>, <<191,211,98,237,126,106,0,27>>,
            <<191,207,13,241,203,136,216,81>>, <<191,199,54,205,6,221,87,214>>, <<191,190,144,158,177,187,84,70>>, <<191,173,41,203,155,55,164,254>>,
            <<63,119,87,214,150,123,69,50>>, <<63,177,126,104,254,52,135,201>>, <<63,192,186,222,58,188,141,114>>, <<63,200,165,180,130,238,75,172>>,
            <<63,208,59,224,111,151,212,90>>, <<63,212,20,146,226,172,155,7>>, <<63,215,217,19,65,90,166,36>>, <<63,219,133,151,130,8,72,242>>,
            <<63,223,22,109,186,120,27,110>>, <<63,225,67,255,235,144,138,86>>, <<63,226,235,107,155,67,156,126>>, <<63,228,127,208,18,121,208,189>>,
            <<63,229,255,150,154,133,246,29>>, <<63,231,105,61,56,245,104,37>>, <<63,232,187,88,51,193,140,139>>, <<63,233,244,147,127,32,120,121>>,
            <<63,235,19,180,19,132,59,194>>, <<63,236,23,153,42,113,112,8>>, <<63,236,255,61,96,238,3,240>>, <<63,237,201,183,190,100,55,124>>,
            <<63,238,118,60,158,241,158,91>>, <<63,239,4,30,128,54,42,116>>, <<63,239,114,206,175,213,131,120>>, <<63,239,193,221,218,251,24,199>>,
            <<63,239,240,252,126,80,128,28>>, <<63,239,255,251,53,245,166,218>>, <<63,239,238,202,237,42,83,221>>, <<63,239,189,124,237,121,15,94>>,
            <<63,239,108,66,205,84,52,38>>, <<63,238,251,110,62,54,158,126>>, <<63,238,107,112,186,122,35,140>>, <<63,237,188,219,19,54,132,85>>,
            <<63,236,240,92,222,155,121,192>>, <<63,236,6,195,199,88,151,43>>, <<63,235,0,250,189,196,88,197>>, <<63,233,224,9,11,146,146,33>>,
            <<63,232,165,17,75,7,241,108>>, <<63,231,81,80,66,180,152,245>>, <<63,229,230,27,166,220,45,235>>, <<63,228,100,224,193,203,126,161>>,
            <<63,226,207,35,4,117,93,23>>, <<63,225,38,122,128,200,107,146>>, <<63,222,217,36,158,139,68,195>>, <<63,219,70,77,194,232,69,239>>,
            <<63,215,152,8,133,197,62,62>>, <<63,211,210,8,148,239,221,81>>, <<63,207,240,50,247,143,11,222>>, <<63,200,28,53,164,60,252,252>>,
            <<63,192,47,248,173,226,43,48>>, <<63,176,102,231,235,118,224,45>>, <<63,87,87,222,89,240,193,87>>, <<191,175,89,13,194,168,100,240>>,
            <<191,191,166,169,173,53,231,142>>, <<191,199,192,123,166,183,7,202>>, <<191,207,149,191,20,144,28,47>>, <<191,211,165,159,45,25,247,183>>,
            <<191,215,108,156,82,66,205,138>>, <<191,219,28,10,111,186,211,55>>, <<191,222,176,52,173,31,237,166>>, <<191,225,18,192,207,0,14,55>>,
            <<191,226,188,59,112,72,16,217>>, <<191,228,82,222,78,148,173,86>>, <<191,229,213,16,113,133,156,226>>, <<191,231,65,77,111,126,225,197>>,
            <<191,232,150,38,244,77,17,63>>, <<191,233,210,70,49,147,230,99>>, <<191,234,244,109,55,148,82,247>>, <<191,235,251,120,52,239,86,42>>,
            <<191,236,230,94,156,36,60,237>>, <<191,237,180,52,45,162,218,178>>, <<191,238,100,41,229,102,45,187>>, <<191,238,245,142,203,40,170,103>>,
            <<191,239,103,208,164,96,122,111>>, <<191,239,186,124,135,80,232,80>>, <<191,239,237,63,78,156,252,29>>, <<191,239,255,229,236,230,254,169>>,
            <<191,239,242,93,160,40,220,104>>, <<191,239,196,180,4,145,189,2>>, <<191,239,119,23,6,213,213,152>>, <<191,239,9,212,181,254,53,204>>,
            <<191,238,125,90,244,231,11,189>>, <<191,237,210,55,11,187,87,228>>, <<191,237,9,21,25,221,33,87>>, <<191,236,34,191,104,201,37,215>>,
            <<191,235,32,29,160,164,49,222>>, <<191,234,2,51,223,62,125,187>>, <<191,232,202,33,178,119,184,203>>, <<191,231,121,32,247,10,165,80>>,
            <<191,230,16,132,156,227,22,141>>, <<191,228,145,183,82,60,19,30>>, <<191,226,254,58,22,220,177,31>>, <<191,225,87,162,184,226,120,192>>,
            <<191,223,63,52,121,62,89,125>>, <<191,219,175,182,98,71,135,55>>, <<191,216,4,95,230,78,89,125>>, <<191,212,64,225,192,16,47,155>>,
            <<191,208,105,4,245,114,194,231>>, <<191,201,1,78,17,221,9,78>>, <<191,193,23,108,44,188,167,74>>, <<191,178,56,179,124,116,21,62>>,
            <<191,129,129,217,45,98,202,126>>, <<63,171,180,225,70,231,102,174>>, <<63,189,215,45,160,212,121,127>>, <<63,198,218,243,203,209,98,248>>,
            <<63,206,179,84,62,21,124,219>>, <<63,211,54,106,31,214,125,197>>, <<63,214,255,215,123,110,156,86>>, <<63,218,178,35,51,255,191,81>>,
            <<63,222,73,149,143,86,175,136>>, <<63,224,225,72,234,8,130,172>>, <<63,226,140,204,245,210,201,5>>, <<63,228,37,168,242,206,54,94>>,
            <<63,229,170,65,172,55,130,119>>, <<63,231,25,16,78,85,38,78>>, <<63,232,112,163,239,137,75,155>>, <<63,233,175,163,3,89,114,65>>,
            <<63,234,212,204,181,246,192,63>>, <<63,235,222,250,46,233,57,100>>, <<63,236,205,31,185,153,96,233>>, <<63,237,158,77,210,142,75,28>>,
            <<63,238,81,178,24,80,242,5>>, <<63,238,230,152,31,2,209,134>>, <<63,239,92,106,37,210,237,148>>, <<63,239,178,177,173,154,158,57>>,
            <<63,239,233,23,240,10,226,204>>, <<63,239,255,102,54,242,41,74>>, <<63,239,245,134,19,66,232,54>>, <<63,239,203,129,115,163,162,160>>,
            <<63,239,129,130,154,113,168,255>>, <<63,239,23,211,243,64,163,184>>, <<63,238,142,223,200,1,166,88>>, <<63,237,231,47,214,29,10,136>>,
            <<63,237,33,108,195,234,174,190>>, <<63,236,62,93,119,19,196,92>>, <<63,235,62,230,76,136,225,17>>, <<63,234,36,8,50,213,148,32>>,
            <<63,232,238,223,167,184,51,249>>, <<63,231,160,163,154,2,56,228>>, <<63,230,58,164,48,224,115,167>>, <<63,228,190,73,121,197,237,28>>,
            <<63,227,45,17,254,77,129,230>>, <<63,225,136,145,67,126,5,64>>, <<63,223,164,220,103,232,212,74>>, <<63,220,24,194,237,23,116,232>>,
            <<63,216,112,103,102,93,61,144>>, <<63,212,175,119,143,33,41,207>>, <<63,208,217,185,219,56,143,221>>, <<63,201,230,19,85,206,130,106>>,
            <<63,193,254,166,211,168,144,27>>, <<63,180,10,66,115,106,173,216>>, <<63,144,12,62,42,210,188,213>>, <<191,168,16,88,165,103,148,69>>,
            <<191,188,7,78,85,206,73,140>>, <<191,197,245,31,237,158,206,101>>, <<191,205,208,131,76,198,156,14>>, <<191,210,198,245,44,189,137,104>>,
            <<191,214,146,198,38,157,111,28>>, <<191,218,71,227,47,14,114,140>>, <<191,221,226,145,182,105,175,225>>, <<191,224,175,152,225,47,243,121>>,
            <<191,226,93,32,201,163,174,245>>, <<191,227,248,48,149,129,115,46>>, <<191,229,127,42,216,250,176,89>>, <<191,230,240,134,91,76,24,180>>,
            <<191,232,74,207,162,56,73,1>>, <<191,233,140,170,103,163,219,220>>, <<191,234,180,210,247,219,46,103>>, <<191,235,194,31,119,33,211,16>>,
            <<191,236,179,129,13,67,236,162>>, <<191,237,136,4,245,252,93,57>>, <<191,238,62,213,117,29,203,63>>, <<191,238,215,58,173,136,206,216>>,
            <<191,239,80,155,90,23,74,217>>, <<191,239,170,125,103,194,198,10>>, <<191,239,228,134,112,106,202,159>>, <<191,239,254,124,21,191,229,72>>,
            <<191,239,248,68,59,247,177,198>>, <<191,239,209,229,36,15,6,39>>, <<191,239,139,133,101,127,195,210>>, <<191,239,37,107,199,112,167,53>>,
            <<191,238,159,254,249,134,38,191>>, <<191,237,251,197,44,155,227,165>>, <<191,237,57,99,139,206,170,199>>, <<191,236,89,157,150,94,152,171>>,
            <<191,235,93,84,91,16,155,16>>, <<191,234,69,133,149,213,4,226>>, <<191,233,19,74,176,150,185,137>>, <<191,231,199,215,168,51,189,29>>,
            <<191,230,100,121,214,187,223,86>>, <<191,228,234,150,164,44,194,235>>, <<191,227,91,170,30,252,177,201>>, <<191,225,185,69,125,221,210,53>>,
            <<191,224,5,13,140,57,190,253>>, <<191,220,129,114,5,247,218,42>>, <<191,216,220,29,158,168,52,231>>, <<191,213,29,200,146,89,20,216>>,
            <<191,209,74,54,182,65,12,58>>, <<191,202,202,130,119,54,212,244>>, <<191,194,229,165,161,158,37,49>>, <<191,181,219,142,195,252,50,188>>,
            <<191,151,87,90,95,157,104,194>>, <<63,164,107,127,251,156,100,222>>, <<63,186,55,17,210,230,131,166>>, <<63,197,15,3,8,125,169,20>>,
            <<63,204,237,79,50,253,193,96>>, <<63,210,87,65,198,127,9,160>>, <<63,214,37,105,190,140,234,243>>, <<63,217,221,75,194,69,192,26>>,
            <<63,221,123,42,120,245,107,139>>, <<63,224,125,177,89,183,17,218>>, <<63,226,45,55,138,71,210,64>>, <<63,227,202,117,205,232,100,12>>,
            <<63,229,83,204,135,29,223,232>>, <<63,230,199,176,29,55,8,193>>, <<63,232,36,170,138,42,116,132>>, <<63,233,105,92,210,194,13,40>>,
            <<63,234,148,128,103,154,4,42>>, <<63,235,164,232,109,144,33,219>>, <<63,236,153,130,236,88,236,172>>, <<63,237,113,89,226,10,126,87>>,
            <<63,238,43,148,58,135,249,94>>, <<63,238,199,118,169,212,155,172>>, <<63,239,68,100,104,114,229,150>>, <<63,239,161,223,209,18,135,15>>,
            <<63,239,223,138,222,238,67,68>>, <<63,239,253,39,140,90,223,255>>, <<63,239,250,152,17,39,245,177>>, <<63,239,215,223,0,147,223,247>>,
            <<63,239,149,31,70,180,182,220>>, <<63,239,50,156,5,88,232,126>>, <<63,238,176,184,80,130,201,166>>, <<63,238,15,246,202,194,245,13>>,
            <<63,237,80,249,33,213,205,210>>, <<63,236,116,127,108,8,52,234>>, <<63,235,123,103,103,6,238,223>>, <<63,234,102,171,152,219,41,212>>,
            <<63,233,55,98,83,244,98,193>>, <<63,231,238,188,159,60,238,251>>, <<63,230,142,5,3,82,218,150>>, <<63,229,22,158,62,25,182,221>>,
            <<63,227,138,1,221,243,79,55>>, <<63,225,233,190,198,6,155,182>>, <<63,224,55,119,157,18,125,88>>, <<63,220,233,194,80,191,103,77>>,
            <<63,217,71,129,40,243,250,202>>, <<63,213,139,211,90,210,233,131>>, <<63,209,186,122,16,110,147,171>>, <<63,203,174,152,126,90,68,3>>,
            <<63,195,204,101,150,93,0,69>>, <<63,183,172,146,98,167,87,178>>, <<63,158,162,40,243,94,64,255>>, <<191,160,198,99,104,3,252,21>>,
            <<191,184,102,126,32,22,27,90>>, <<191,196,40,160,25,191,97,176>>, <<191,204,9,186,228,95,27,251>>, <<191,209,231,81,96,154,144,209>>,
            <<191,213,183,195,174,244,145,232>>, <<191,217,114,94,80,39,16,89>>, <<191,221,19,97,46,224,218,157>>, <<191,224,75,146,249,151,52,107>>,
            <<191,225,253,17,215,23,91,227>>, <<191,227,156,121,52,25,204,229>>, <<191,229,40,39,70,221,131,43>>, <<191,230,158,142,27,231,17,46>>,
            <<191,231,254,53,38,60,220,241>>, <<191,233,69,186,186,29,127,121>>, <<191,234,115,213,112,179,24,74>>, <<191,235,135,85,115,94,54,147>>,
            <<191,236,127,37,173,74,233,21>>, <<191,237,90,76,226,28,191,76>>, <<191,238,23,238,168,153,77,70>>, <<191,238,183,76,72,85,87,0>>,
            <<191,239,55,197,121,133,112,185>>, <<191,239,152,217,6,49,79,89>>, <<191,239,218,37,76,39,160,93>>, <<191,239,251,104,159,47,171,29>>,
            <<191,239,252,129,139,22,15,179>>, <<191,239,221,110,245,82,30,193>>, <<191,239,158,80,30,34,3,182>>, <<191,239,63,100,129,28,151,194>>,
            <<191,238,193,11,149,88,133,120>>, <<191,238,35,196,109,104,239,61>>, <<191,237,104,45,55,144,26,225>>, <<191,236,143,2,158,168,196,156>>,
            <<191,235,153,31,12,102,20,156>>, <<191,234,135,121,205,168,240,82>>, <<191,233,91,38,25,199,180,187>>, <<191,232,21,81,253,194,142,75>>,
            <<191,230,183,69,44,122,141,180>>, <<191,229,66,95,181,29,77,114>>, <<191,227,184,24,161,16,116,254>>, <<191,226,25,252,122,193,48,5>>,
            <<191,224,105,171,190,211,52,57>>, <<191,221,81,178,114,128,12,133>>, <<191,217,178,144,160,24,54,93>>, <<191,213,249,150,122,147,96,63>>,
            <<191,210,42,130,116,98,231,123>>, <<191,204,146,82,116,165,27,154>>, <<191,196,178,227,178,117,98,44>>, <<191,185,125,71,68,220,213,185>>,
            <<191,162,246,72,210,178,165,231>>, <<63,154,66,30,19,254,55,144>>, <<63,182,149,153,70,120,123,220>>, <<63,195,65,250,31,157,247,34>>,
            <<63,203,37,201,85,206,241,194>>, <<63,209,119,37,111,90,129,6>>, <<63,213,73,213,100,128,198,0>>, <<63,217,7,28,60,81,241,136>>,
            <<63,220,171,55,49,88,255,103>>, <<63,224,25,62,103,128,16,119>>, <<63,225,204,176,80,51,137,109>>, <<63,227,110,59,97,7,109,115>>,
            <<63,228,252,59,169,98,5,221>>, <<63,230,117,32,224,41,55,241>>, <<63,231,215,111,246,87,171,157>>, <<63,233,33,196,148,56,207,173>>,
            <<63,234,82,210,127,204,67,113>>, <<63,235,105,102,234,231,220,223>>, <<63,236,100,105,167,200,199,253>>, <<63,237,66,222,66,220,227,42>>,
            <<63,238,3,229,0,169,71,188>>, <<63,238,166,187,190,206,145,194>>, <<63,239,42,190,183,72,119,91>>, <<63,239,143,105,37,36,111,87>>,
            <<63,239,212,85,202,9,196,69>>, <<63,239,249,63,84,12,173,177>>, <<63,239,254,0,163,102,20,187>>, <<63,239,226,148,239,201,235,251>>,
            <<63,239,167,23,205,54,127,167>>, <<63,239,75,197,16,55,245,36>>, <<63,238,208,248,145,187,206,208>>, <<63,238,55,45,210,177,13,97>>,
            <<63,237,126,255,127,209,202,222>>, <<63,236,169,38,214,19,43,20>>, <<63,235,182,122,232,88,76,135>>, <<63,234,167,239,199,35,69,233>>,
            <<63,233,126,149,139,30,20,91>>, <<63,232,59,151,67,114,35,179>>, <<63,230,224,57,201,1,162,28>>, <<63,229,109,218,119,177,84,43>>,
            <<63,227,229,237,207,11,103,157>>, <<63,226,73,253,251,156,122,109>>, <<63,224,155,169,74,131,217,151>>, <<63,221,185,65,17,139,124,6>>,
            <<63,218,29,74,160,4,74,138>>, <<63,214,103,16,132,141,95,78>>, <<63,210,154,78,109,131,179,185>>, <<63,205,117,173,100,182,24,75>>,
            <<63,197,153,28,247,82,201,121>>, <<63,187,77,167,97,18,195,126>>, <<63,166,155,62,27,41,179,153>>, <<191,146,247,30,3,77,38,15>>,
            <<191,180,196,105,80,54,86,158>>, <<191,194,91,20,25,50,177,224>>, <<191,202,65,125,125,103,139,155>>, <<191,209,6,191,103,207,84,125>>,
            <<191,212,219,160,76,206,19,171>>, <<191,216,155,134,235,127,128,158>>, <<191,220,66,173,218,204,134,233>>, <<191,223,205,104,149,171,37,189>>,
            <<191,225,156,19,150,132,152,150>>, <<191,227,63,188,238,123,229,34>>, <<191,228,208,10,64,189,207,217>>, <<191,230,75,104,243,196,198,86>>,
            <<191,231,176,91,123,108,99,83>>, <<191,232,253,122,216,174,27,189>>, <<191,234,49,120,2,175,237,157>>, <<191,235,75,29,55,185,106,87>>,
            <<191,236,73,79,52,188,153,127>>, <<191,237,43,14,82,57,81,254>>, <<191,237,239,119,133,92,77,100>>, <<191,238,149,197,68,87,162,205>>,
            <<191,239,29,80,77,14,212,160>>, <<191,239,133,144,77,78,182,69>>, <<191,239,206,28,107,231,229,32>>, <<191,239,246,171,178,34,17,76>>,
            <<191,239,255,21,85,29,232,144>>, <<191,239,231,80,222,219,229,179>>, <<191,239,175,118,54,190,191,15>>, <<191,239,87,189,137,128,230,56>>,
            <<191,238,224,127,16,181,64,200>>, <<191,238,74,50,186,11,238,179>>, <<191,237,149,111,174,180,109,19>>, <<191,236,194,235,187,86,56,252>>,
            <<191,235,211,122,153,57,17,69>>, <<191,234,200,13,25,84,151,75>>, <<191,233,161,176,50,29,106,106>>, <<191,232,97,139,241,3,144,235>>,
            <<191,231,8,226,80,177,249,196>>, <<191,229,153,13,245,58,185,138>>, <<191,228,19,128,207,117,143,176>>, <<191,226,121,194,168,239,149,198>>,
            <<191,224,205,111,153,225,228,128>>, <<191,222,32,108,213,119,196,48>>, <<191,218,135,173,197,195,172,236>>, <<191,214,212,64,12,166,252,159>>,
            <<191,211,9,220,135,255,171,172>>, <<191,206,88,166,90,103,224,95>>, <<191,198,127,14,103,69,137,27>>, <<191,189,29,172,174,217,231,255>>,
            <<191,170,63,232,52,55,182,109>>, <<63,135,87,189,190,150,168,7>>, <<63,178,242,244,72,114,235,155>>, <<63,193,115,241,6,107,126,192>>,
            <<63,201,92,218,82,111,91,222>>, <<63,208,150,32,191,202,204,196>>, <<63,212,109,37,214,100,159,23>>, <<63,216,47,159,195,125,132,151>>,
            <<63,219,217,198,134,231,80,25>>, <<63,223,103,234,151,91,137,78>>, <<63,225,107,60,75,183,162,217>>, <<63,227,16,254,119,24,198,133>>,
            <<63,228,163,147,159,235,98,23>>, <<63,230,33,102,225,121,101,91>>, <<63,231,136,248,55,116,67,79>>, <<63,232,216,222,0,45,131,158>>,
            <<63,234,15,198,104,75,183,195>>, <<63,235,44,120,190,142,94,241>>, <<63,236,45,214,174,74,132,23>>, <<63,237,18,221,95,100,39,94>>,
            <<63,237,218,166,122,162,193,9>>, <<63,238,132,105,17,90,228,51>>, <<63,239,15,122,103,132,36,222>>, <<63,239,123,78,159,112,13,206>>,
            <<63,239,199,121,70,117,72,193>>, <<63,239,243,173,194,1,170,105>>, <<63,239,255,191,156,165,78,29>>, <<63,239,235,162,178,201,90,237>>,
            <<63,239,183,107,62,229,114,191>>, <<63,239,99,77,197,39,125,190>>, <<63,238,239,158,222,162,87,48>>, <<63,238,92,210,228,56,103,219>>,
            <<63,237,171,125,121,151,202,73>>, <<63,236,220,80,248,189,185,216>>, <<63,235,240,29,190,150,112,184>>, <<63,234,231,209,89,110,30,209>>,
            <<63,233,196,117,154,5,144,228>>, <<63,232,135,47,136,58,194,198>>, <<63,231,49,62,60,82,144,44>>, <<63,229,195,249,158,11,107,68>>,
            <<63,228,64,209,10,188,98,37>>, <<63,226,169,73,227,219,252,240>>, <<63,224,254,254,7,98,135,57>>, <<63,222,135,52,103,35,200,189>>,
            <<63,218,241,184,175,130,196,96>>, <<63,215,65,35,167,190,11,156>>, <<63,211,121,43,80,211,86,144>>, <<63,207,59,58,98,218,214,232>>,
            <<63,199,100,181,5,141,25,133>>, <<63,190,237,81,38,240,108,224>>, <<63,173,228,58,255,248,169,81>>, <<191,113,129,227,168,124,100,211>>,
            <<191,177,33,64,59,54,209,3>>, <<191,192,140,147,232,1,242,87>>, <<191,200,119,226,205,79,127,27>>, <<191,208,37,74,237,218,210,6>>,
            <<191,211,254,103,112,179,29,35>>, <<191,215,195,104,43,42,25,121>>, <<191,219,112,130,146,141,166,239>>, <<191,223,2,4,37,157,21,86>>,
            <<191,225,58,43,18,60,131,149>>, <<191,226,226,0,150,84,152,112>>, <<191,228,118,216,90,203,121,243>>, <<191,229,247,27,52,253,82,213>>,
            <<191,231,97,70,173,110,151,49>>, <<191,232,179,238,132,123,136,217>>, <<191,233,237,190,32,174,246,118>>, <<191,235,13,121,229,80,44,218>>,
            <<191,236,18,0,111,207,136,43>>, <<191,236,250,75,186,210,26,210>>, <<191,237,197,114,37,184,42,45>>, <<191,238,114,167,95,149,4,79>>,
            <<191,239,1,61,52,172,40,142>>, <<191,239,112,164,61,165,6,248>>, <<191,239,192,108,111,197,4,118>>, <<191,239,240,69,141,158,219,53>>,
            <<191,239,255,255,119,197,243,20>>, <<191,239,239,138,93,52,127,74>>, <<191,239,190,246,203,51,196,88>>, <<191,239,110,117,156,182,124,186>>,
            <<191,238,254,87,201,54,24,219>>, <<191,238,111,14,19,68,85,150>>, <<191,237,193,40,151,34,236,131>>, <<191,236,245,86,57,211,161,40>>,
            <<191,236,12,99,249,50,54,247>>, <<191,235,7,60,29,201,91,145>>, <<191,233,230,229,79,49,239,108>>, <<191,232,172,129,139,233,95,54>>,
            <<191,231,89,77,5,169,29,93>>, <<191,229,238,156,227,100,78,155>>, <<191,228,109,221,234,43,116,100>>, <<191,226,216,147,14,79,122,96>>,
            <<191,225,48,83,238,52,193,105>>, <<191,222,237,150,112,187,155,177>>, <<191,219,91,105,252,147,122,44>>, <<191,215,173,185,235,172,205,173>>,
            <<191,211,232,57,85,205,179,184>>, <<191,208,14,179,70,63,148,74>>, <<191,200,74,13,214,97,106,150>>, <<191,192,94,71,97,171,132,174>>,
            <<191,176,196,21,48,213,240,130>>, <<191,103,87,220,204,116,202,43>>, <<63,174,158,166,106,183,172,217>>, <<63,191,73,255,126,224,62,182>>,
            <<63,199,146,153,231,137,78,8>>, <<63,207,104,126,210,137,212,98>>, <<63,211,143,102,140,10,96,179>>, <<63,215,86,225,138,110,181,109>>,
            <<63,219,6,227,91,216,3,205>>, <<63,222,155,182,147,87,11,115>>, <<63,225,8,224,141,67,204,148>>, <<63,226,178,195,232,120,183,61>>,
            <<63,228,73,217,6,35,40,164>>, <<63,229,204,134,122,251,162,46>>, <<63,231,57,71,97,94,248,131>>, <<63,232,142,172,224,111,146,195>>,
            <<63,233,203,95,157,9,63,57>>, <<63,234,238,33,19,20,208,170>>, <<63,235,245,204,213,224,93,81>>, <<63,236,225,89,182,57,124,88>>,
            <<63,237,175,218,205,34,65,225>>, <<63,238,96,128,106,20,57,226>>, <<63,238,242,152,227,226,53,156>>, <<63,239,101,145,75,102,112,133>>,
            <<63,239,184,245,255,73,174,136>>, <<63,239,236,115,32,78,114,46>>, <<63,239,255,212,229,171,119,146>>, <<63,239,243,7,209,32,153,110>>,
            <<63,239,198,24,194,145,178,130>>, <<63,239,121,52,235,19,209,242>>, <<63,239,12,169,159,121,184,216>>, <<63,238,128,228,10,141,111,216>>,
            <<63,237,214,112,191,69,9,181>>, <<63,237,13,251,43,97,33,61>>, <<63,236,40,76,235,3,62,209>>, <<63,235,38,76,253,233,97,120>>,
            <<63,234,8,254,223,26,239,215>>, <<63,232,209,129,127,240,73,108>>, <<63,231,129,14,39,123,240,6>>, <<63,230,24,247,55,118,250,185>>,
            <<63,228,154,166,215,238,79,113>>, <<63,227,7,157,139,6,67,10>>, <<63,225,97,112,170,67,166,39>>, <<63,223,83,145,157,188,238,117>>,
            <<63,219,196,192,77,113,170,176>>, <<63,216,26,1,111,78,226,67>>, <<63,212,87,5,37,149,78,93>>, <<63,208,127,147,243,143,67,19>>,
            <<63,201,47,21,222,253,93,164>>, <<63,193,69,175,191,178,37,240>>, <<63,178,149,213,30,237,106,152>>, <<63,132,108,204,209,202,209,26>>,
            <<191,170,250,102,136,243,202,47>>, <<191,189,122,111,29,206,107,131>>, <<191,198,173,2,155,173,53,67>>, <<191,206,133,255,84,2,23,29>>,
            <<191,211,32,36,153,152,77,141>>, <<191,214,234,13,74,59,242,156>>, <<191,218,156,234,66,14,98,132>>, <<191,222,53,3,52,199,155,44>>,
            <<191,224,215,93,96,188,150,137>>, <<191,226,131,73,10,159,92,227>>, <<191,228,28,150,55,153,203,211>>, <<191,229,161,169,65,18,78,100>>,
            <<191,231,16,250,216,75,154,61>>, <<191,232,105,25,143,242,63,81>>, <<191,233,168,171,79,168,249,104>>, <<191,234,206,110,176,29,135,41>>,
            <<191,235,217,60,62,72,52,231>>, <<191,236,200,7,164,145,33,66>>, <<191,237,153,224,184,176,15,41>>, <<191,238,77,244,109,55,142,94>>,
            <<191,238,227,141,165,216,146,62>>, <<191,239,90,21,237,136,218,149>>, <<191,239,177,22,13,213,24,69>>, <<191,239,232,54,134,198,133,254>>,
            <<191,239,255,63,230,227,112,250>>, <<191,239,246,27,2,242,47,149>>, <<191,239,204,209,13,70,97,118>>, <<191,239,131,139,140,129,27,73>>,
            <<191,239,26,148,49,205,66,77>>, <<191,238,146,84,142,194,17,255>>, <<191,237,235,85,171,54,114,82>>, <<191,237,38,63,123,111,185,36>>,
            <<191,236,67,216,55,54,158,207>>, <<191,235,69,3,146,124,63,153>>, <<191,234,42,193,216,87,123,44>>, <<191,232,246,46,233,65,100,245>>,
            <<191,231,168,129,29,147,135,180>>, <<191,230,67,8,13,103,167,198>>, <<191,228,199,43,63,18,126,31>>, <<191,227,54,104,189,141,14,59>>,
            <<191,225,146,83,152,56,88,111>>, <<191,223,185,36,154,251,154,102>>, <<191,220,45,186,67,199,218,194>>, <<191,216,133,248,202,133,210,117>>,
            <<191,212,197,141,79,172,189,231>>, <<191,208,240,61,193,242,245,9>>, <<191,202,19,202,37,168,142,176>>, <<191,194,44,222,171,236,63,79>>,
            <<191,180,103,87,61,65,113,228>>, <<191,145,129,175,65,43,64,78>>, <<63,167,85,204,237,164,125,113>>, <<63,187,170,124,178,139,161,175>>,
            <<63,197,199,31,229,79,225,106>>, <<63,205,163,26,81,106,46,198>>, <<63,210,176,163,11,99,27,141>>, <<63,214,124,236,212,132,81,122>>,
            <<63,218,50,152,165,163,148,216>>, <<63,221,205,235,95,127,125,38>>, <<63,224,165,162,49,82,116,49>>, <<63,226,83,144,154,177,163,149>>,
            <<63,227,239,16,133,183,43,24>>, <<63,229,118,132,21,208,128,60>>, <<63,230,232,97,152,59,142,58>>, <<63,232,67,53,15,251,203,226>>,
            <<63,233,133,161,171,249,228,176>>, <<63,234,174,99,37,213,105,250>>, <<63,235,188,79,8,7,141,222>>, <<63,236,174,85,218,15,89,8>>,
            <<63,237,131,132,49,121,1,108>>, <<63,238,59,3,166,174,2,107>>, <<63,238,212,27,172,151,212,189>>, <<63,239,78,50,74,60,29,104>>,
            <<63,239,168,204,181,151,241,202>>, <<63,239,227,143,207,30,72,201>>, <<63,239,254,64,125,93,103,224>>, <<63,239,248,195,232,111,44,230>>,
            <<63,239,211,31,148,248,104,52>>, <<63,239,141,121,94,156,24,151>>, <<63,239,40,23,81,232,45,9>>, <<63,238,163,95,101,225,255,249>>,
            <<63,237,255,215,21,121,136,51>>, <<63,237,62,34,217,74,67,218>>, <<63,236,95,5,130,48,229,139>>, <<63,235,99,95,117,92,75,41>>,
            <<63,234,76,45,202,158,126,90>>, <<63,233,26,137,77,225,6,107>>, <<63,231,207,165,100,188,117,96>>, <<63,230,108,206,217,78,253,101>>,
            <<63,228,243,106,139,137,124,49>>, <<63,227,100,244,10,66,250,142>>, <<63,225,194,252,21,124,76,10>>, <<63,224,15,39,11,83,0,213>>,
            <<63,220,150,86,130,115,153,164>>, <<63,216,241,158,150,61,161,59>>, <<63,213,51,208,100,119,149,170>>, <<63,209,96,175,58,183,134,54>>,
            <<63,202,248,39,177,193,57,159>>, <<63,195,19,209,37,121,82,67>>, <<63,182,56,149,127,157,105,58>>, <<63,152,204,189,224,25,130,139>>,
            <<191,163,176,229,182,117,179,70>>, <<191,185,218,46,68,26,41,246>>, <<191,196,224,244,193,1,79,80>>, <<191,204,191,210,189,95,1,153>>,
            <<191,210,64,227,84,68,135,235>>, <<191,214,15,129,148,55,207,46>>, <<191,217,199,239,232,48,254,97>>, <<191,221,102,112,106,93,131,9>>,
            <<191,224,115,175,164,107,48,19>>, <<191,226,35,155,55,101,107,188>>, <<191,227,193,72,135,225,150,50>>, <<191,229,75,23,136,180,165,176>>,
            <<191,230,191,124,40,53,21,120>>, <<191,232,28,255,222,146,117,134>>, <<191,233,98,67,38,131,134,12>>, <<191,234,141,254,222,208,18,255>>,
            <<191,235,159,5,147,82,231,22>>, <<191,236,148,68,172,40,197,133>>, <<191,237,108,197,129,219,232,43>>, <<191,238,39,174,85,117,213,16>>,
            <<191,238,196,67,43,126,66,102>>, <<191,239,65,230,137,10,216,133>>, <<191,239,160,26,18,33,119,196>>, <<191,239,222,127,8,205,220,238>>,
            <<191,239,252,214,172,106,209,184>>, <<191,239,251,2,120,191,5,74>>, <<191,239,217,4,68,174,28,246>>, <<191,239,150,254,64,95,26,49>>,
            <<191,239,53,50,210,217,252,145>>, <<191,238,180,4,87,63,33,101>>, <<191,238,19,244,185,219,158,62>>, <<191,237,85,164,245,126,17,230>>,
            <<191,236,121,212,113,143,72,81>>, <<191,235,129,96,65,145,134,28>>, <<191,234,109,66,70,200,70,97>>, <<191,233,62,144,52,231,177,96>>,
            <<191,231,246,122,122,200,228,136>>, <<191,230,150,75,16,59,213,183>>, <<191,229,31,100,42,42,138,109>>, <<191,227,147,62,214,91,195,154>>,
            <<191,225,243,105,128,59,58,45>>, <<191,224,65,134,96,36,178,103>>, <<191,220,254,147,173,138,74,222>>, <<191,217,92,241,108,113,147,122>>,
            <<191,213,161,204,245,63,73,157>>, <<191,209,208,230,231,229,46,179>>, <<191,203,220,43,139,197,205,197>>, <<191,195,250,132,44,65,234,87>>,
            <<191,184,9,137,218,175,35,47>>, <<191,160,11,189,2,21,154,237>>, <<63,160,11,189,2,21,245,97>>, <<63,184,9,137,218,175,80,59>>,
            <<63,195,250,132,44,65,225,20>>, <<63,203,220,43,139,197,196,159>>, <<63,209,208,230,231,229,42,50>>, <<63,213,161,204,245,63,84,66>>,
            <<63,217,92,241,108,113,143,44>>, <<63,220,254,147,173,138,84,244>>, <<63,224,65,134,96,36,190,42>>, <<63,225,243,105,128,59,62,220>>,
            <<63,227,147,62,214,91,193,192>>, <<63,229,31,100,42,42,136,170>>, <<63,230,150,75,16,59,212,14>>, <<63,231,246,122,122,200,226,251>>,
            <<63,233,62,144,52,231,175,239>>, <<63,234,109,66,70,200,69,14>>, <<63,235,129,96,65,145,137,0>>, <<63,236,121,212,113,143,74,229>>,
            <<63,237,85,164,245,126,20,41>>, <<63,238,19,244,185,219,160,45>>, <<63,238,180,4,87,63,32,188>>, <<63,239,53,50,210,217,252,12>>,
            <<63,239,150,254,64,95,27,25>>, <<63,239,217,4,68,174,28,188>>, <<63,239,251,2,120,191,5,125>>, <<63,239,252,214,172,106,209,87>>,
            <<63,239,222,127,8,205,220,108>>, <<63,239,160,26,18,33,120,32>>, <<63,239,65,230,137,10,217,6>>, <<63,238,196,67,43,126,67,11>>,
            <<63,238,39,174,85,117,213,216>>, <<63,237,108,197,129,219,233,23>>, <<63,236,148,68,172,40,198,147>>, <<63,235,159,5,147,82,228,59>>,
            <<63,234,141,254,222,208,15,215>>, <<63,233,98,67,38,131,130,154>>, <<63,232,28,255,222,146,113,206>>, <<63,230,191,124,40,53,23,30>>,
            <<63,229,75,23,136,180,167,112>>, <<63,227,193,72,135,225,145,190>>, <<63,226,35,155,55,101,109,171>>, <<63,224,115,175,164,107,43,57>>,
            <<63,221,102,112,106,93,120,253>>, <<63,217,199,239,232,48,244,7>>, <<63,214,15,129,148,55,211,148>>, <<63,210,64,227,84,68,125,19>>,
            <<63,204,191,210,189,95,10,188>>, <<63,196,224,244,193,1,88,144>>, <<63,185,218,46,68,26,60,158>>, <<63,163,176,229,182,117,216,191>>,
            <<191,152,204,189,224,26,55,125>>, <<191,182,56,149,127,157,150,78>>, <<191,195,19,209,37,121,104,162>>, <<191,202,248,39,177,193,79,189>>,
            <<191,209,96,175,58,183,129,179>>, <<191,213,51,208,100,119,145,62>>, <<191,216,241,158,150,61,156,234>>, <<191,220,150,86,130,115,149,114>>,
            <<191,224,15,39,11,83,5,186>>, <<191,225,194,252,21,124,74,23>>, <<191,227,100,244,10,66,255,13>>, <<191,228,243,106,139,137,122,108>>,
            <<191,230,108,206,217,79,1,110>>, <<191,231,207,165,100,188,115,207>>, <<191,233,26,137,77,225,9,237>>, <<191,234,76,45,202,158,125,4>>,
            <<191,235,99,95,117,92,73,243>>, <<191,236,95,5,130,48,232,41>>, <<191,237,62,34,217,74,70,38>>, <<191,237,255,215,21,121,138,43>>,
            <<191,238,163,95,101,226,1,155>>, <<191,239,40,23,81,232,44,128>>, <<191,239,141,121,94,156,24,51>>, <<191,239,211,31,148,248,103,245>>,
            <<191,239,248,195,232,111,44,205>>, <<191,239,254,64,125,93,103,194>>, <<191,239,227,143,207,30,72,251>>, <<191,239,168,204,181,151,240,247>>,
            <<191,239,78,50,74,60,28,60>>, <<191,238,212,27,172,151,211,57>>, <<191,238,59,3,166,174,3,48>>, <<191,237,131,132,49,120,255,61>>,
            <<191,236,174,85,218,15,90,18>>, <<191,235,188,79,8,7,143,9>>, <<191,234,174,99,37,213,102,218>>, <<191,233,133,161,171,249,225,71>>,
            <<191,232,67,53,15,251,200,50>>, <<191,230,232,97,152,59,138,71>>, <<191,229,118,132,21,208,129,249>>, <<191,227,239,16,133,183,44,237>>,
            <<191,226,83,144,154,177,165,129>>, <<191,224,165,162,49,82,118,49>>, <<191,221,205,235,95,127,129,76>>, <<191,218,50,152,165,163,153,31>>,
            <<191,214,124,236,212,132,70,226>>, <<191,210,176,163,11,99,1,109>>, <<191,205,163,26,81,106,24,196>>, <<191,197,199,31,229,79,234,168>>,
            <<191,187,170,124,178,139,116,179>>, <<191,167,85,204,237,164,162,231>>, <<63,145,129,175,65,42,245,80>>, <<63,180,103,87,61,65,95,51>>,
            <<63,194,44,222,171,236,85,181>>, <<63,202,19,202,37,168,164,214>>, <<63,208,240,61,193,242,255,241>>, <<63,212,197,141,79,172,185,120>>,
            <<63,216,133,248,202,133,206,33>>, <<63,220,45,186,67,199,214,141>>, <<63,223,185,36,154,251,150,83>>, <<63,225,146,83,152,56,93,41>>,
            <<63,227,54,104,189,141,12,91>>, <<63,228,199,43,63,18,130,109>>, <<63,230,67,8,13,103,177,149>>, <<63,231,168,129,29,147,139,131>>,
            <<63,232,246,46,233,65,99,125>>, <<63,234,42,193,216,87,126,109>>, <<63,235,69,3,146,124,62,95>>, <<63,236,67,216,55,54,157,181>>,
            <<63,237,38,63,123,111,184,45>>, <<63,237,235,85,171,54,116,83>>, <<63,238,146,84,142,194,19,171>>, <<63,239,26,148,49,205,67,161>>,
            <<63,239,131,139,140,129,28,68>>, <<63,239,204,209,13,70,97,51>>, <<63,239,246,27,2,242,47,119>>, <<63,239,255,63,230,227,113,2>>,
            <<63,239,232,54,134,198,133,144>>, <<63,239,177,22,13,213,24,152>>, <<63,239,90,21,237,136,217,115>>, <<63,238,227,141,165,216,142,173>>,
            <<63,238,77,244,109,55,140,141>>, <<63,237,153,224,184,176,16,13>>, <<63,236,200,7,164,145,34,72>>, <<63,235,217,60,62,72,54,14>>,
            <<63,234,206,110,176,29,136,113>>, <<63,233,168,171,79,168,250,207>>, <<63,232,105,25,143,242,64,213>>, <<63,231,16,250,216,75,150,81>>,
            <<63,229,161,169,65,18,74,57>>, <<63,228,28,150,55,153,199,109>>, <<63,226,131,73,10,159,88,70>>, <<63,224,215,93,96,188,152,135>>,
            <<63,222,53,3,52,199,159,78>>, <<63,218,156,234,66,14,88,58>>, <<63,214,234,13,74,59,246,253>>, <<63,211,32,36,153,152,66,193>>,
            <<63,206,133,255,84,2,1,36>>, <<63,198,173,2,155,173,30,255>>, <<63,189,122,111,29,206,126,35>>, <<63,170,250,102,136,243,239,162>>,
            <<191,132,108,204,209,202,59,27>>, <<191,178,149,213,30,237,87,229>>, <<191,193,69,175,191,178,28,166>>, <<191,201,47,21,222,253,84,115>>,
            <<191,208,127,147,243,143,78,1>>, <<191,212,87,5,37,149,89,22>>, <<191,216,26,1,111,78,236,190>>, <<191,219,196,192,77,113,180,225>>,
            <<191,223,83,145,157,188,234,95>>, <<191,225,97,112,170,67,164,47>>, <<191,227,7,157,139,6,71,151>>, <<191,228,154,166,215,238,77,166>>,
            <<191,230,24,247,55,118,254,208>>, <<191,231,129,14,39,123,243,221>>, <<191,232,209,129,127,240,76,254>>, <<191,234,8,254,223,26,238,122>>,
            <<191,235,38,76,253,233,100,119>>, <<191,236,40,76,235,3,61,180>>, <<191,237,13,251,43,97,32,66>>, <<191,237,214,112,191,69,8,221>>,
            <<191,238,128,228,10,141,111,35>>, <<191,239,12,169,159,121,186,55>>, <<191,239,121,52,235,19,210,248>>, <<191,239,198,24,194,145,179,46>>,
            <<191,239,243,7,209,32,153,191>>, <<191,239,255,212,229,171,119,150>>, <<191,239,236,115,32,78,114,87>>, <<191,239,184,245,255,73,174,215>>,
            <<191,239,101,145,75,102,112,249>>, <<191,238,242,152,227,226,52,43>>, <<191,238,96,128,106,20,58,159>>, <<191,237,175,218,205,34,63,197>>,
            <<191,236,225,89,182,57,125,90>>, <<191,235,245,204,213,224,90,145>>, <<191,234,238,33,19,20,209,238>>, <<191,233,203,95,157,9,59,224>>,
            <<191,232,142,172,224,111,148,68>>, <<191,231,57,71,97,94,250,32>>, <<191,229,204,134,122,251,158,10>>, <<191,228,73,217,6,35,36,68>>,
            <<191,226,178,195,232,120,178,166>>, <<191,225,8,224,141,67,199,202>>, <<191,222,155,182,147,87,15,145>>, <<191,219,6,227,91,216,8,13>>,
            <<191,215,86,225,138,110,185,203>>, <<191,211,143,102,140,10,101,42>>, <<191,207,104,126,210,137,190,115>>, <<191,199,146,153,231,137,87,63>>,
            <<191,191,73,255,126,224,17,205>>, <<191,174,158,166,106,183,82,130>>, <<63,103,87,220,204,122,114,36>>, <<63,176,196,21,48,213,221,204>>,
            <<63,192,94,71,97,171,155,31>>, <<63,200,74,13,214,97,97,97>>, <<63,208,14,179,70,63,143,192>>, <<63,211,232,57,85,205,190,120>>,
            <<63,215,173,185,235,172,216,48>>, <<63,219,91,105,252,147,125,43>>, <<63,222,237,150,112,187,158,152>>, <<63,225,48,83,238,52,194,207>>,
            <<63,226,216,147,14,79,120,123>>, <<63,228,109,221,234,43,117,171>>, <<63,229,238,156,227,100,76,230>>, <<63,231,89,77,5,169,33,60>>,
            <<63,232,172,129,139,233,93,184>>, <<63,233,230,229,79,49,240,101>>, <<63,235,7,60,29,201,96,189>>, <<63,236,12,99,249,50,55,195>>,
            <<63,236,245,86,57,211,161,220>>, <<63,237,193,40,151,34,238,151>>, <<63,238,111,14,19,68,84,220>>, <<63,238,254,87,201,54,24,70>>,
            <<63,239,110,117,156,182,124,73>>, <<63,239,190,246,203,51,197,14>>, <<63,239,239,138,93,52,127,101>>, <<63,239,255,255,119,197,243,20>>,
            <<63,239,240,69,141,158,219,27>>, <<63,239,192,108,111,197,4,65>>, <<63,239,112,164,61,165,6,169>>, <<63,239,1,61,52,172,41,34>>,
            <<63,238,114,167,95,149,2,146>>, <<63,237,197,114,37,184,43,9>>, <<63,236,250,75,186,210,26,30>>, <<63,236,18,0,111,207,131,137>>,
            <<63,235,13,121,229,80,43,247>>, <<63,233,237,190,32,174,245,125>>, <<63,232,179,238,132,123,135,204>>, <<63,231,97,70,173,110,152,203>>,
            <<63,229,247,27,52,253,84,138>>, <<63,228,118,216,90,203,123,193>>, <<63,226,226,0,150,84,147,223>>, <<63,225,58,43,18,60,130,48>>,
            <<63,223,2,4,37,157,18,112>>, <<63,219,112,130,146,141,163,241>>, <<63,215,195,104,43,42,7,138>>, <<63,211,254,103,112,179,25,253>>,
            <<63,208,37,74,237,218,214,143>>, <<63,200,119,226,205,79,104,230>>, <<63,192,140,147,232,1,251,163>>, <<63,177,33,64,59,54,163,221>>,
            <<63,113,129,227,168,119,144,216>>, <<191,173,228,58,255,248,195,197>>, <<191,190,237,81,38,240,122,7>>, <<191,199,100,181,5,141,32,8>>,
            <<191,207,59,58,98,218,205,209>>, <<191,211,121,43,80,211,82,25>>, <<191,215,65,35,167,190,7,62>>, <<191,218,241,184,175,130,206,163>>,
            <<191,222,135,52,103,35,203,166>>, <<191,224,254,254,7,98,136,160>>, <<191,226,169,73,227,219,254,72>>, <<191,228,64,209,10,188,105,158>>,
            <<191,229,195,249,158,11,108,123>>, <<191,231,49,62,60,82,142,142>>, <<191,232,135,47,136,58,198,104>>, <<191,233,196,117,154,5,143,128>>,
            <<191,234,231,209,89,110,33,225>>, <<191,235,240,29,190,150,115,122>>, <<191,236,220,80,248,189,186,143>>, <<191,237,171,125,121,151,202,232>>,
            <<191,238,92,210,228,56,104,96>>, <<191,238,239,158,222,162,87,156>>, <<191,239,99,77,197,39,125,73>>, <<191,239,183,107,62,229,114,112>>,
            <<191,239,235,162,178,201,90,195>>, <<191,239,255,191,156,165,78,33>>, <<191,239,243,173,194,1,170,82>>, <<191,239,199,121,70,117,72,143>>,
            <<191,239,123,78,159,112,12,19>>, <<191,239,15,122,103,132,36,120>>, <<191,238,132,105,17,90,228,231>>, <<191,237,218,166,122,162,193,225>>,
            <<191,237,18,221,95,100,40,88>>, <<191,236,45,214,174,74,129,105>>, <<191,235,44,120,190,142,91,244>>, <<191,234,15,198,104,75,182,205>>,
            <<191,232,216,222,0,45,130,147>>, <<191,231,136,248,55,116,66,48>>, <<191,230,33,102,225,121,100,40>>, <<191,228,163,147,159,235,99,226>>,
            <<191,227,16,254,119,24,200,102>>, <<191,225,107,60,75,183,164,209>>, <<191,223,103,234,151,91,134,107>>, <<191,219,217,198,134,231,69,234>>,
            <<191,216,47,159,195,125,129,134>>, <<191,212,109,37,214,100,140,201>>, <<191,208,150,32,191,202,201,146>>, <<191,201,92,218,82,111,101,15>>,
            <<191,193,115,241,6,107,136,10>>, <<191,178,242,244,72,114,254,78>>, <<191,135,87,189,190,149,62,14>>, <<63,170,63,232,52,56,16,207>>,
            <<63,189,29,172,174,217,245,40>>, <<63,198,127,14,103,69,143,161>>, <<63,206,88,166,90,103,230,206>>, <<63,211,9,220,135,255,174,214>>,
            <<63,214,212,64,12,167,7,48>>, <<63,218,135,173,197,195,168,168>>, <<63,222,32,108,213,119,192,13>>, <<63,224,205,111,153,225,229,232>>,
            <<63,226,121,194,168,239,154,101>>, <<63,228,19,128,207,117,144,251>>, <<63,229,153,13,245,58,186,195>>, <<63,231,8,226,80,177,250,235>>,
            <<63,232,97,139,241,3,143,102>>, <<63,233,161,176,50,29,107,104>>, <<63,234,200,13,25,84,150,3>>, <<63,235,211,122,153,57,20,16>>,
            <<63,236,194,235,187,86,55,245>>, <<63,237,149,111,174,180,109,180>>, <<63,238,74,50,186,11,241,208>>, <<63,238,224,127,16,181,65,55>>,
            <<63,239,87,189,137,128,230,142>>, <<63,239,175,118,54,190,191,218>>, <<63,239,231,80,222,219,229,133>>, <<63,239,255,21,85,29,232,135>>,
            <<63,239,246,171,178,34,17,105>>, <<63,239,206,28,107,231,228,128>>, <<63,239,133,144,77,78,181,252>>, <<63,239,29,80,77,14,212,61>>,
            <<63,238,149,197,68,87,162,81>>, <<63,237,239,119,133,92,78,56>>, <<63,237,43,14,82,57,81,79>>, <<63,236,73,79,52,188,154,152>>,
            <<63,235,75,29,55,185,103,100>>, <<63,234,49,120,2,175,238,246>>, <<63,232,253,122,216,174,26,180>>, <<63,231,176,91,123,108,92,214>>,
            <<63,230,75,104,243,196,197,38>>, <<63,228,208,10,64,189,206,151>>, <<63,227,63,188,238,123,224,158>>, <<63,225,156,19,150,132,154,139>>,
            <<63,223,205,104,149,171,41,207>>, <<63,220,66,173,218,204,139,29>>, <<63,216,155,134,235,127,118,45>>, <<63,212,219,160,76,206,16,138>>,
            <<63,209,6,191,103,207,81,76>>, <<63,202,65,125,125,103,133,32>>, <<63,194,91,20,25,50,171,82>>, <<63,180,196,105,80,54,73,105>>,
            <<63,146,247,30,3,77,113,12>>, <<191,166,155,62,27,42,14,2>>, <<191,187,77,167,97,18,176,218>>, <<191,197,153,28,247,82,208,0>>,
            <<191,205,117,173,100,182,61,225>>, <<191,210,154,78,109,131,182,228>>, <<191,214,103,16,132,141,98,105>>, <<191,218,29,74,160,4,77,144>>,
            <<191,221,185,65,17,139,119,223>>, <<191,224,155,169,74,131,215,150>>, <<191,226,73,253,251,156,120,129>>, <<191,227,229,237,207,11,108,11>>,
            <<191,229,109,218,119,177,85,102>>, <<191,230,224,57,201,1,163,68>>, <<191,232,59,151,67,114,36,200>>, <<191,233,126,149,139,30,26,49>>,
            <<191,234,167,239,199,35,70,212>>, <<191,235,182,122,232,88,75,91>>, <<191,236,169,38,214,19,45,152>>, <<191,237,126,255,127,209,201,246>>,
            <<191,238,55,45,210,177,15,62>>, <<191,238,208,248,145,187,208,86>>, <<191,239,75,197,16,55,245,124>>, <<191,239,167,23,205,54,127,230>>,
            <<191,239,226,148,239,201,236,31>>, <<191,239,254,0,163,102,20,173>>, <<191,239,249,63,84,12,173,201>>, <<191,239,212,85,202,9,196,131>>,
            <<191,239,143,105,37,36,110,104>>, <<191,239,42,190,183,72,118,251>>, <<191,238,166,187,190,206,145,72>>, <<191,238,3,229,0,169,71,41>>,
            <<191,237,66,222,66,220,223,65>>, <<191,236,100,105,167,200,199,57>>, <<191,235,105,102,234,231,222,21>>, <<191,234,82,210,127,204,64,57>>,
            <<191,233,33,196,148,56,209,33>>, <<191,231,215,111,246,87,167,216>>, <<191,230,117,32,224,41,51,233>>, <<191,228,252,59,169,98,4,157>>,
            <<191,227,110,59,97,7,108,34>>, <<191,225,204,176,80,51,136,12>>, <<191,224,25,62,103,128,15,9>>, <<191,220,171,55,49,89,3,152>>,
            <<191,217,7,28,60,81,245,216>>, <<191,213,73,213,100,128,202,108>>, <<191,209,119,37,111,90,125,215>>, <<191,203,37,201,85,206,235,73>>,
            <<191,195,65,250,31,157,240,149>>, <<191,182,149,153,70,120,46,233>>, <<191,154,66,30,19,254,2,149>>, <<63,162,246,72,210,178,128,109>>,
            <<63,185,125,71,68,220,195,17>>, <<63,196,178,227,178,117,88,236>>, <<63,204,146,82,116,165,49,168>>, <<63,210,42,130,116,98,242,84>>,
            <<63,213,249,150,122,147,99,91>>, <<63,217,178,144,160,24,57,102>>, <<63,221,81,178,114,128,15,119>>, <<63,224,105,171,190,211,53,165>>,
            <<63,226,25,252,122,193,52,175>>, <<63,227,184,24,161,16,115,38>>, <<63,229,66,95,181,29,75,177>>, <<63,230,183,69,44,122,142,223>>,
            <<63,232,21,81,253,194,146,5>>, <<63,233,91,38,25,199,181,190>>, <<63,234,135,121,205,168,241,63>>, <<63,235,153,31,12,102,21,114>>,
            <<63,236,143,2,158,168,195,141>>, <<63,237,104,45,55,144,25,244>>, <<63,238,35,196,109,104,238,115>>, <<63,238,193,11,149,88,135,9>>,
            <<63,239,63,100,129,28,152,250>>, <<63,239,158,80,30,34,3,247>>, <<63,239,221,110,245,82,30,232>>, <<63,239,252,129,139,22,15,192>>,
            <<63,239,251,104,159,47,171,15>>, <<63,239,218,37,76,39,159,209>>, <<63,239,152,217,6,49,79,184>>, <<63,239,55,197,121,133,113,61>>,
            <<63,238,183,76,72,85,86,137>>, <<63,238,23,238,168,153,75,90>>, <<63,237,90,76,226,28,190,164>>, <<63,236,127,37,173,74,232,85>>,
            <<63,235,135,85,115,94,53,187>>, <<63,234,115,213,112,179,25,156>>, <<63,233,69,186,186,29,126,117>>, <<63,231,254,53,38,60,222,126>>,
            <<63,230,158,142,27,231,13,45>>, <<63,229,40,39,70,221,132,237>>, <<63,227,156,121,52,25,203,150>>, <<63,225,253,17,215,23,83,231>>,
            <<63,224,75,146,249,151,50,254>>, <<63,221,19,97,46,224,215,170>>, <<63,217,114,94,80,39,5,248>>, <<63,213,183,195,174,244,150,81>>,
            <<63,209,231,81,96,154,149,81>>, <<63,204,9,186,228,95,37,33>>, <<63,196,40,160,25,191,75,88>>, <<63,184,102,126,32,22,14,42>>,
            <<63,160,198,99,104,3,225,153>>, <<191,158,162,40,243,94,117,248>>, <<191,183,172,146,98,167,69,7>>, <<191,195,204,101,150,93,6,208>>,
            <<191,203,174,152,126,90,58,220>>, <<191,209,186,122,16,110,158,138>>, <<191,213,139,211,90,210,229,25>>, <<191,217,71,129,40,243,253,213>>,
            <<191,220,233,194,80,191,120,135>>, <<191,224,55,119,157,18,126,197>>, <<191,225,233,190,198,6,157,21>>, <<191,227,138,1,221,243,80,135>>,
            <<191,229,22,158,62,25,181,26>>, <<191,230,142,5,3,82,216,237>>, <<191,231,238,188,159,60,237,109>>, <<191,233,55,98,83,244,102,60>>,
            <<191,234,102,171,152,219,42,196>>, <<191,235,123,103,103,6,239,185>>, <<191,236,116,127,108,8,53,171>>, <<191,237,80,249,33,213,206,124>>,
            <<191,238,15,246,202,194,245,158>>, <<191,238,176,184,80,130,200,252>>, <<191,239,50,156,5,88,233,192>>, <<191,239,149,31,70,180,182,124>>,
            <<191,239,215,223,0,147,224,33>>, <<191,239,250,152,17,39,246,11>>, <<191,239,253,39,140,90,223,243>>, <<191,239,223,138,222,238,67,31>>,
            <<191,239,161,223,209,18,134,207>>, <<191,239,68,100,104,114,230,22>>, <<191,238,199,118,169,212,156,80>>, <<191,238,43,148,58,135,250,38>>,
            <<191,237,113,89,226,10,124,32>>, <<191,236,153,130,236,88,235,238>>, <<191,235,164,232,109,144,33,5>>, <<191,234,148,128,103,154,3,61>>,
            <<191,233,105,92,210,194,7,74>>, <<191,232,36,170,138,42,115,109>>, <<191,230,199,176,29,55,10,102>>, <<191,229,83,204,135,29,219,176>>,
            <<191,227,202,117,205,232,101,228>>, <<191,226,45,55,138,71,205,153>>, <<191,224,125,177,89,183,13,2>>, <<191,221,123,42,120,245,104,155>>,
            <<191,217,221,75,194,69,189,18>>, <<191,214,37,105,190,140,231,216>>, <<191,210,87,65,198,127,14,30>>, <<191,204,237,79,50,253,202,130>>,
            <<191,197,15,3,8,125,178,83>>, <<191,186,55,17,210,230,86,163>>, <<191,164,107,127,251,156,74,100>>, <<63,151,87,90,95,157,157,190>>,
            <<63,181,219,142,195,252,63,240>>, <<63,194,229,165,161,158,75,101>>, <<63,202,202,130,119,54,219,110>>, <<63,209,74,54,182,65,7,182>>,
            <<63,213,29,200,146,89,16,107>>, <<63,216,220,29,158,168,48,150>>, <<63,220,129,114,5,247,228,75>>, <<63,224,5,13,140,57,195,226>>,
            <<63,225,185,69,125,221,211,150>>, <<63,227,91,170,30,252,179,27>>, <<63,228,234,150,164,44,196,44>>, <<63,230,100,121,214,187,224,133>>,
            <<63,231,199,215,168,51,187,140>>, <<63,233,19,74,176,150,184,20>>, <<63,234,69,133,149,213,3,139>>, <<63,235,93,84,91,16,155,236>>,
            <<63,236,89,157,150,94,153,112>>, <<63,237,57,99,139,206,171,116>>, <<63,237,251,197,44,155,231,5>>, <<63,238,159,254,249,134,39,58>>,
            <<63,239,37,107,199,112,166,171>>, <<63,239,139,133,101,127,195,109>>, <<63,239,209,229,36,15,5,232>>, <<63,239,248,68,59,247,178,5>>,
            <<63,239,254,124,21,191,229,44>>, <<63,239,228,134,112,106,202,124>>, <<63,239,170,125,103,194,197,205>>, <<63,239,80,155,90,23,74,129>>,
            <<63,238,215,58,173,136,206,102>>, <<63,238,62,213,117,29,201,102>>, <<63,237,136,4,245,252,94,32>>, <<63,236,179,129,13,67,237,171>>,
            <<63,235,194,31,119,33,210,61>>, <<63,234,180,210,247,219,43,73>>, <<63,233,140,170,103,163,218,220>>, <<63,232,74,207,162,56,71,237>>,
            <<63,230,240,134,91,76,23,140>>, <<63,229,127,42,216,250,178,21>>, <<63,227,248,48,149,129,117,3>>, <<63,226,93,32,201,163,176,224>>,
            <<63,224,175,152,225,47,238,166>>, <<63,221,226,145,182,105,165,224>>, <<63,218,71,227,47,14,111,135>>, <<63,214,146,198,38,157,93,10>>,
            <<63,210,198,245,44,189,134,61>>, <<63,205,208,131,76,198,149,157>>, <<63,197,245,31,237,158,184,27>>, <<63,188,7,78,85,206,92,47>>,
            <<63,168,16,88,165,103,185,187>>, <<191,144,12,62,42,210,113,214>>, <<191,180,10,66,115,106,218,244>>, <<191,193,254,166,211,168,150,170>>,
            <<191,201,230,19,85,206,136,231>>, <<191,208,217,185,219,56,147,15>>, <<191,212,175,119,143,33,37,95>>, <<191,216,112,103,102,93,64,160>>,
            <<191,220,24,194,237,23,112,178>>, <<191,223,164,220,103,232,222,31>>, <<191,225,136,145,67,126,3,74>>, <<191,227,45,17,254,77,131,57>>,
            <<191,228,190,73,121,197,244,118>>, <<191,230,58,164,48,224,116,216>>, <<191,231,160,163,154,2,58,2>>, <<191,232,238,223,167,184,55,133>>,
            <<191,234,36,8,50,213,146,198>>, <<191,235,62,230,76,136,223,214>>, <<191,236,62,93,119,19,195,66>>, <<191,237,33,108,195,234,177,22>>,
            <<191,237,231,47,214,29,11,31>>, <<191,238,142,223,200,1,166,214>>, <<191,239,23,211,243,64,164,28>>, <<191,239,129,130,154,113,168,150>>,
            <<191,239,203,129,115,163,162,207>>, <<191,239,245,134,19,66,232,23>>, <<191,239,255,102,54,242,41,56>>, <<191,239,233,23,240,10,226,249>>,
            <<191,239,178,177,173,154,157,255>>, <<191,239,92,106,37,210,235,169>>, <<191,238,230,152,31,2,209,24>>, <<191,238,81,178,24,80,241,125>>,
            <<191,237,158,77,210,142,74,124>>, <<191,236,205,31,185,153,97,238>>, <<191,235,222,250,46,233,58,139>>, <<191,234,212,204,181,246,193,134>>,
            <<191,233,175,163,3,89,110,225>>, <<191,232,112,163,239,137,74,137>>, <<191,231,25,16,78,85,37,40>>, <<191,229,170,65,172,55,129,63>>,
            <<191,228,37,168,242,206,46,222>>, <<191,226,140,204,245,210,199,172>>, <<191,224,225,72,234,8,132,170>>, <<191,222,73,149,143,86,165,145>>,
            <<191,218,178,35,51,255,195,148>>, <<191,214,255,215,123,110,153,63>>, <<191,211,54,106,31,214,107,89>>, <<191,206,179,84,62,21,118,108>>,
            <<191,198,218,243,203,209,92,115>>, <<191,189,215,45,160,212,108,86>>, <<191,171,180,225,70,231,140,32>>, <<63,129,129,217,45,98,52,126>>,
            <<63,178,56,179,124,116,2,138>>, <<63,193,23,108,44,188,189,182>>, <<63,201,1,78,17,221,15,205>>, <<63,208,105,4,245,114,198,27>>,
            <<63,212,64,225,192,16,50,191>>, <<63,216,4,95,230,78,107,100>>, <<63,219,175,182,98,71,138,51>>, <<63,223,63,52,121,62,85,101>>,
            <<63,225,87,162,184,226,125,129>>, <<63,226,254,58,22,220,175,60>>, <<63,228,145,183,82,60,23,115>>, <<63,230,16,132,156,227,26,166>>,
            <<63,231,121,32,247,10,166,112>>, <<63,232,202,33,178,119,185,215>>, <<63,234,2,51,223,62,126,178>>, <<63,235,32,29,160,164,48,160>>,
            <<63,236,34,191,104,201,36,185>>, <<63,237,9,21,25,221,32,90>>, <<63,237,210,55,11,187,89,241>>, <<63,238,125,90,244,231,12,62>>,
            <<63,239,9,212,181,254,54,52>>, <<63,239,119,23,6,213,213,229>>, <<63,239,196,180,4,145,190,43>>, <<63,239,242,93,160,40,220,128>>,
            <<63,239,255,229,236,230,254,172>>, <<63,239,237,63,78,156,252,70>>, <<63,239,186,124,135,80,232,158>>, <<63,239,103,208,164,96,121,89>>,
            <<63,238,245,142,203,40,168,249>>, <<63,238,100,41,229,102,45,54>>, <<63,237,180,52,45,162,218,20>>, <<63,236,230,94,156,36,60,55>>,
            <<63,235,251,120,52,239,85,93>>, <<63,234,244,109,55,148,79,235>>, <<63,233,210,70,49,147,231,198>>, <<63,232,150,38,244,77,13,160>>,
            <<63,231,65,77,111,126,224,161>>, <<63,229,213,16,113,133,155,172>>, <<63,228,82,222,78,148,172,14>>, <<63,226,188,59,112,72,9,5>>,
            <<63,225,18,192,207,0,12,209>>, <<63,222,176,52,173,31,241,196>>, <<63,219,28,10,111,186,215,118>>, <<63,215,108,156,82,66,209,231>>,
            <<63,211,165,159,45,25,236,243>>, <<63,207,149,191,20,144,6,66>>, <<63,199,192,123,166,183,1,72>>, <<63,191,166,169,173,53,218,104>>,
            <<63,175,89,13,194,168,74,125>>, <<191,87,87,222,89,244,17,76>>, <<191,176,102,231,235,119,13,85>>, <<191,192,47,248,173,226,33,228>>,
            <<191,200,28,53,164,60,243,199>>, <<191,207,240,50,247,143,18,72>>, <<191,211,210,8,148,239,232,19>>, <<191,215,152,8,133,197,65,82>>,
            <<191,219,70,77,194,232,72,238>>, <<191,222,217,36,158,139,71,170>>, <<191,225,38,122,128,200,105,151>>, <<191,226,207,35,4,117,91,49>>,
            <<191,228,100,224,193,203,124,211>>, <<191,229,230,27,166,220,50,11>>, <<191,231,81,80,66,180,156,212>>, <<191,232,165,17,75,7,242,122>>,
            <<191,233,224,9,11,146,151,208>>, <<191,235,0,250,189,196,89,168>>, <<191,236,6,195,199,88,151,248>>, <<191,236,240,92,222,155,124,42>>,
            <<191,237,188,219,19,54,131,120>>, <<191,238,107,112,186,122,34,209>>, <<191,238,251,110,62,54,157,232>>, <<191,239,108,66,205,84,53,56>>,
            <<191,239,189,124,237,121,15,148>>, <<191,239,238,202,237,42,83,249>>, <<191,239,255,251,53,245,166,219>>, <<191,239,240,252,126,80,128,64>>,
            <<191,239,193,221,218,251,24,147>>, <<191,239,114,206,175,213,131,231>>, <<191,239,4,30,128,54,41,16>>, <<191,238,118,60,158,241,156,159>>,
            <<191,237,201,183,190,100,54,225>>, <<191,236,255,61,96,237,255,218>>, <<191,236,23,153,42,113,111,61>>, <<191,235,19,180,19,132,58,224>>,
            <<191,233,244,147,127,32,117,42>>, <<191,232,187,88,51,193,142,8>>, <<191,231,105,61,56,245,105,190>>, <<191,229,255,150,154,133,247,209>>,
            <<191,228,127,208,18,121,204,101>>, <<191,226,235,107,155,67,155,40>>, <<191,225,67,255,235,144,136,241>>, <<191,223,22,109,186,120,24,137>>,
            <<191,219,133,151,130,8,77,45>>, <<191,215,217,19,65,90,163,17>>, <<191,212,20,146,226,172,159,122>>, <<191,208,59,224,111,151,201,105>>,
            <<191,200,165,180,130,238,84,223>>, <<191,192,186,222,58,188,134,225>>, <<191,177,126,104,254,52,58,183>>, <<191,119,87,214,150,122,113,54>>,
            <<63,173,41,203,155,55,191,114>>, <<63,190,144,158,177,187,97,110>>, <<63,199,54,205,6,221,78,157>>, <<63,207,13,241,203,136,207,57>>,
            <<63,211,98,237,126,105,251,163>>, <<63,215,43,98,173,21,39,181>>, <<63,218,220,138,109,140,3,64>>, <<63,222,114,174,43,64,147,177>>,
            <<63,224,245,25,62,172,221,106>>, <<63,226,159,205,99,180,173,220>>, <<63,228,55,198,93,147,249,109>>, <<63,229,187,105,219,216,53,248>>,
            <<63,231,41,50,1,107,87,178>>, <<63,232,127,174,236,173,180,80>>, <<63,233,189,136,41,116,89,112>>, <<63,234,225,126,11,119,52,139>>,
            <<63,235,234,106,239,211,38,94>>, <<63,236,215,68,100,92,100,156>>, <<63,237,167,28,51,152,30,178>>, <<63,238,89,33,84,79,246,146>>,
            <<63,238,236,160,187,206,114,83>>, <<63,239,97,6,17,240,186,251>>, <<63,239,181,220,70,88,182,234>>, <<63,239,234,206,6,41,113,233>>,
            <<63,239,255,166,17,215,87,50>>, <<63,239,244,79,114,181,252,87>>, <<63,239,200,213,144,13,152,64>>, <<63,239,125,100,35,162,253,176>>,
            <<63,239,18,71,13,189,146,84>>, <<63,238,135,234,8,215,137,84>>, <<63,237,222,216,61,69,38,49>>, <<63,237,23,187,181,63,222,47>>,
            <<63,236,51,92,177,226,85,32>>, <<63,235,50,160,225,192,252,102>>, <<63,234,22,138,121,233,246,251>>, <<63,232,224,55,50,52,168,213>>,
            <<63,231,144,223,37,230,26,245>>, <<63,230,41,211,153,202,254,17>>, <<63,228,172,125,169,3,86,66>>, <<63,227,26,92,217,212,204,228>>,
            <<63,225,117,5,155,240,212,112>>, <<63,223,124,63,99,101,54,233>>, <<63,219,238,201,11,220,105,197>>, <<63,216,69,58,223,249,224,38>>,
            <<63,212,131,67,207,140,105,9>>, <<63,208,172,171,87,37,68,212>>, <<63,201,138,155,102,28,65,4>>, <<63,193,162,47,250,193,194,97>>,
            <<63,179,80,16,236,160,229,222>>, <<63,138,66,171,144,101,186,163>>, <<191,169,133,102,97,129,148,204>>, <<191,188,192,230,96,77,203,224>>,
            <<191,198,81,23,52,183,171,35>>, <<191,206,43,73,87,79,32,131>>, <<191,210,243,145,238,3,142,54>>, <<191,214,190,111,197,150,66,52>>,
            <<191,218,114,109,193,242,235,137>>, <<191,222,11,210,116,36,79,181>>, <<191,224,195,127,150,202,142,126>>, <<191,226,112,57,210,7,218,239>>,
            <<191,228,10,104,187,150,234,211>>, <<191,229,144,111,201,213,219,177>>, <<191,231,0,198,184,156,8,36>>, <<191,232,89,251,19,190,128,89>>,
            <<191,233,154,177,171,164,125,234>>, <<191,234,193,167,242,117,72,45>>, <<191,235,205,181,64,127,222,103>>, <<191,236,189,203,254,150,160,164>>,
            <<191,237,144,250,181,50,169,3>>, <<191,238,70,108,255,78,8,203>>, <<191,238,221,108,96,0,253,186>>, <<191,239,85,96,250,10,243,60>>,
            <<191,239,173,210,40,142,229,110>>, <<191,239,230,102,248,105,143,75>>, <<191,239,254,230,129,167,57,219>>, <<191,239,247,56,32,191,78,161>>,
            <<191,239,207,99,143,92,23,182>>, <<191,239,135,144,220,149,183,110>>, <<191,239,32,8,68,168,57,7>>, <<191,238,153,49,232,77,41,179>>,
            <<191,237,243,149,100,1,223,13>>, <<191,237,47,217,71,163,191,139>>, <<191,236,78,194,110,235,147,64>>, <<191,235,81,51,59,112,156,43>>,
            <<191,234,56,42,176,250,83,71>>, <<191,233,4,195,117,5,218,140>>, <<191,231,184,50,178,129,77,238>>, <<191,230,83,198,226,218,106,247>>,
            <<191,228,216,230,125,153,182,113>>, <<191,227,73,14,143,220,76,196>>, <<191,225,165,209,61,22,183,160>>, <<191,223,225,168,85,69,71,69>>,
            <<191,220,87,157,175,92,10,65>>, <<191,216,177,17,198,108,37,178>>, <<191,212,241,176,131,149,106,232>>, <<191,209,29,62,201,207,61,40>>,
            <<191,202,111,45,86,246,205,225>>, <<191,194,137,71,21,85,237,142>>, <<191,181,33,120,159,232,6,223>>, <<191,148,108,138,63,137,110,72>>,
            <<63,165,224,172,70,201,81,79>>, <<63,186,240,206,109,189,142,72>>, <<63,197,107,23,41,198,121,238>>, <<63,205,72,60,140,181,165,75>>,
            <<63,210,131,247,86,23,243,101>>, <<63,214,81,49,57,161,56,62>>, <<63,218,7,249,33,6,24,179>>, <<63,221,164,146,207,77,120,112>>,
            <<63,224,145,174,46,23,195,222>>, <<63,226,64,104,237,170,43,52>>, <<63,227,220,200,114,181,80,153>>, <<63,229,101,45,255,196,46,158>>,
            <<63,230,216,14,238,180,15,76>>, <<63,232,51,246,61,158,196,111>>, <<63,233,119,134,6,0,119,192>>, <<63,234,161,120,220,160,121,141>>,
            <<63,235,176,163,24,218,146,82>>, <<63,236,163,244,1,255,236,249>>, <<63,237,122,118,225,160,158,48>>, <<63,238,51,83,249,169,140,234>>,
            <<63,238,205,209,93,95,149,124>>, <<63,239,73,83,172,93,122,119>>, <<63,239,165,94,174,216,145,194>>, <<63,239,225,149,210,143,19,125>>,
            <<63,239,253,188,135,226,106,104>>, <<63,239,249,182,126,191,200,213>>, <<63,239,213,135,195,25,215,77>>, <<63,239,145,84,184,214,210,27>>,
            <<63,239,45,97,247,55,36,231>>, <<63,238,170,20,3,217,105,140>>, <<63,238,7,238,237,161,8,75>>, <<63,237,71,149,199,229,89,41>>,
            <<63,236,105,202,6,110,156,235>>, <<63,235,111,106,186,229,248,135>>, <<63,234,89,115,180,124,19,36>>, <<63,233,40,252,130,167,199,120>>,
            <<63,231,223,55,91,252,1,120>>, <<63,230,125,111,234,47,45,201>>, <<63,229,5,9,252,138,31,83>>, <<63,227,119,128,34,13,252,211>>,
            <<63,225,214,98,44,185,19,151>>, <<63,224,35,83,159,105,53,252>>, <<63,220,192,20,15,225,3,139>>, <<63,217,28,150,142,9,89,146>>,
            <<63,213,95,215,143,134,156,80>>, <<63,209,141,153,81,45,9,146>>, <<63,203,83,103,93,78,10,226>>, <<63,195,112,32,137,231,193,160>>,
            <<63,182,242,154,12,45,29,56>>, <<63,155,183,122,201,157,119,215>>, <<191,162,59,169,105,38,246,122>>, <<191,185,32,92,225,137,193,167>>,
            <<191,196,132,207,226,250,229,125>>, <<191,204,100,206,94,221,208,83>>, <<191,210,20,31,41,212,91,254>>, <<191,213,227,168,116,138,8,107>>,
            <<191,217,157,45,236,211,100,218>>, <<191,221,60,240,148,31,99,106>>, <<191,224,95,165,170,68,70,31>>, <<191,226,16,91,85,162,192,143>>,
            <<191,227,174,230,26,173,233,123>>, <<191,229,57,165,13,128,192,135>>, <<191,230,175,11,43,31,51,251>>, <<191,232,13,160,232,192,73,102>>,
            <<191,233,84,5,173,128,230,122>>, <<191,234,128,241,53,2,163,24>>, <<191,235,147,52,217,146,166,134>>, <<191,236,137,188,196,139,254,70>>,
            <<191,237,99,145,3,195,137,242>>, <<191,238,31,214,130,230,148,130>>, <<191,238,189,207,231,208,248,5>>, <<191,239,60,222,80,253,137,136>>,
            <<191,239,156,129,245,81,22,44>>, <<191,239,220,90,164,159,60,77>>, <<191,239,252,40,40,103,237,167>>, <<191,239,251,202,132,108,79,179>>,
            <<191,239,219,66,22,217,246,79>>, <<191,239,154,175,151,236,43,180>>, <<191,239,58,83,249,3,165,74>>, <<191,238,186,144,35,85,173,179>>,
            <<191,238,27,228,150,116,149,12>>, <<191,237,94,240,231,19,62,68>>, <<191,236,132,115,30,134,3,82>>, <<191,235,141,70,251,162,16,132>>,
            <<191,234,122,101,21,187,177,203>>, <<191,233,76,225,226,161,198,36>>, <<191,232,5,236,160,145,151,84>>, <<191,230,166,206,37,59,39,52>>,
            <<191,229,48,231,147,8,67,109>>, <<191,227,165,176,245,243,35,250>>, <<191,226,6,183,201,82,11,34>>, <<191,224,85,157,104,19,182,143>>,
            <<191,221,40,42,209,254,127,65>>, <<191,217,135,199,209,58,187,34>>, <<191,213,205,183,133,6,189,41>>, <<191,209,253,185,119,147,78,218>>,
            <<191,204,55,70,130,22,202,106>>, <<191,196,86,185,88,179,0,7>>, <<191,184,195,111,38,125,227,24>>, <<191,161,129,7,146,166,6,76>>,
            <<63,157,44,211,207,75,7,54>>, <<63,183,79,151,196,92,124,91>>, <<63,195,158,68,94,51,64,215>>, <<63,203,129,1,194,44,218,79>>,
            <<63,209,164,10,221,50,152,134>>, <<63,213,117,214,226,155,199,241>>, <<63,217,50,13,136,136,109,183>>, <<63,220,212,237,27,69,44,92>>,
            <<63,224,45,102,177,183,8,109>>, <<63,225,224,17,169,194,185,133>>, <<63,227,128,194,76,27,14,200>>, <<63,229,13,213,131,213,215,37>>,
            <<63,230,133,187,246,69,235,63>>, <<63,231,230,251,148,160,158,126>>, <<63,233,48,49,24,56,27,13>>, <<63,234,96,17,103,204,39,160>>,
            <<63,235,117,106,228,137,200,72>>, <<63,236,111,38,157,107,70,250>>, <<63,237,76,73,103,195,8,250>>, <<63,238,11,244,219,215,68,3>>,
            <<63,238,173,104,52,144,155,226>>, <<63,239,48,1,17,90,100,241>>, <<63,239,147,60,25,113,220,98>>, <<63,239,214,181,127,255,237,113>>,
            <<63,239,250,41,104,120,164,34>>, <<63,239,253,116,42,219,120,220>>, <<63,239,224,146,119,143,176,42>>, <<63,239,163,161,90,184,212,127>>,
            <<63,239,70,222,30,255,225,101>>, <<63,238,202,166,15,238,137,224>>, <<63,238,47,118,28,26,157,215>>, <<63,237,117,234,87,127,223,225>>,
            <<63,236,158,189,94,134,167,171>>, <<63,235,170,199,154,85,90,159>>, <<63,234,154,254,103,41,44,202>>, <<63,233,112,115,29,145,122,42>>,
            <<63,232,44,81,255,133,115,218>>, <<63,230,207,225,10,105,1,140>>, <<63,229,92,126,175,48,109,255>>, <<63,227,211,160,113,236,92,97>>,
            <<63,226,54,209,114,33,7,239>>, <<63,224,135,176,221,98,24,145>>, <<63,221,143,224,155,133,227,82>>, <<63,217,242,164,43,127,18,162>>,
            <<63,214,59,78,246,168,160,7>>, <<63,210,109,157,200,24,187,126>>, <<63,205,26,199,207,116,32,16>>, <<63,197,61,14,130,202,13,54>>,
            <<63,186,147,241,228,229,166,219>>, <<63,165,38,23,137,83,105,172>>, <<191,149,225,243,196,51,75,238>>, <<191,181,126,133,31,245,3,71>>,
            <<191,194,183,119,154,48,213,113>>, <<191,202,156,217,172,66,75,231>>, <<191,209,51,187,228,244,113,218>>, <<191,213,7,189,241,19,110,240>>,
            <<191,216,198,153,88,110,34,245>>, <<191,220,108,137,190,173,101,92>>, <<191,223,245,227,215,24,107,255>>, <<191,225,175,140,138,162,233,4>>,
            <<191,227,82,93,160,112,235,52>>, <<191,228,225,191,244,120,126,221>>, <<191,230,92,33,217,139,158,41>>, <<191,231,192,6,193,199,76,120>>,
            <<191,233,12,8,189,80,158,24>>, <<191,234,62,217,226,82,151,203>>, <<191,235,87,69,156,210,159,219>>, <<191,236,84,49,229,9,242,6>>,
            <<191,237,52,160,91,11,197,38>>, <<191,237,247,175,70,154,246,22>>, <<191,238,156,154,122,46,5,120>>, <<191,239,34,188,24,60,215,193>>,
            <<191,239,137,141,58,17,241,198>>, <<191,239,208,166,119,119,116,159>>, <<191,239,247,192,78,183,57,43>>, <<191,239,254,179,108,133,159,127>>,
            <<191,239,229,120,211,142,162,18>>, <<191,239,172,41,227,125,108,62>>, <<191,239,83,0,63,119,107,85>>, <<191,238,218,85,148,36,112,165>>,
            <<191,238,66,163,61,126,80,104>>, <<191,237,140,129,204,194,133,234>>, <<191,236,184,168,111,0,218,137>>, <<191,235,199,236,52,225,23,2>>,
            <<191,234,187,63,60,89,98,134>>, <<191,233,147,175,189,44,106,227>>, <<191,232,82,102,249,36,180,241>>, <<191,230,248,168,17,29,233,113>>,
            <<191,229,135,206,192,9,56,37>>, <<191,228,1,77,253,51,133,222>>, <<191,226,102,174,135,44,222,107>>, <<191,224,185,141,88,200,245,217>>,
            <<191,221,247,52,19,138,223,44>>, <<191,218,93,42,57,111,185,216>>, <<191,214,168,156,119,240,158,66>>, <<191,210,221,68,206,154,254,218>>,
            <<191,205,253,232,80,192,219,207>>, <<191,198,35,29,10,32,196,122>>, <<191,188,100,28,62,129,224,22>>, <<191,168,202,225,41,161,86,196>>,
            <<63,141,45,149,227,225,151,176>>, <<63,179,173,42,255,20,115,186>>, <<63,193,208,108,150,141,173,177>>, <<63,201,184,89,19,237,231,200>>,
            <<63,208,195,51,182,158,240,88>>, <<63,212,153,95,14,27,146,38>>, <<63,216,90,210,193,228,66,213>>, <<63,220,3,199,217,133,123,217>>,
            <<63,223,144,143,255,37,172,90>>, <<63,225,126,204,153,161,245,59>>, <<63,227,35,184,177,251,80,69>>, <<63,228,181,100,242,6,153,234>>,
            <<63,230,50,61,95,76,213,196>>, <<63,231,152,194,241,196,84,133>>, <<63,232,231,141,21,11,129,21>>, <<63,234,29,75,19,15,61,115>>,
            <<63,235,56,197,102,175,142,245>>, <<63,236,56,222,245,14,163,113>>, <<63,237,28,150,44,78,122,30>>, <<63,237,227,6,6,157,89,246>>,
            <<63,238,139,102,240,140,13,76>>, <<63,239,21,15,145,198,169,25>>, <<63,239,127,117,119,101,171,3>>, <<63,239,202,45,159,44,77,150>>,
            <<63,239,244,236,227,40,12,62>>, <<63,239,255,136,69,68,248,134>>, <<63,239,233,245,26,138,255,248>>, <<63,239,180,73,21,216,141,214>>,
            <<63,239,94,186,50,15,205,246>>, <<63,238,233,158,123,204,116,170>>, <<63,238,85,107,186,216,178,170>>, <<63,237,162,182,251,184,99,64>>,
            <<63,236,210,51,249,193,119,181>>, <<63,235,228,180,106,88,141,135>>, <<63,234,219,39,42,7,109,192>>, <<63,233,182,151,76,65,130,209>>,
            <<63,232,120,43,14,199,229,24>>, <<63,231,33,34,177,187,95,156>>, <<63,229,178,215,53,133,148,235>>, <<63,228,46,184,255,221,206,207>>,
            <<63,226,150,78,105,69,206,29>>, <<63,224,235,50,52,115,198,135>>, <<63,222,94,35,226,104,74,137>>, <<63,218,199,88,152,197,13,200>>,
            <<63,215,21,158,157,88,219,155>>, <<63,211,76,173,23,195,189,81>>, <<63,206,224,165,18,154,56,170>>, <<63,199,8,225,241,149,111,40>>,
            <<63,190,51,232,43,149,130,173>>, <<63,172,111,88,85,67,44,191>>, <<191,125,45,198,105,126,142,214>>, <<191,177,219,143,109,106,106,197>>,
            <<191,192,233,38,83,178,219,27>>, <<191,200,211,130,241,37,144,38>>, <<191,208,82,115,200,117,98,250>>, <<191,212,42,187,168,199,55,147>>,
            <<191,215,238,187,43,92,152,97>>, <<191,219,154,168,200,53,97,0>>, <<191,223,42,211,44,149,101,176>>, <<191,225,77,210,120,226,16,108>>,
            <<191,226,244,212,27,219,199,255>>, <<191,228,136,197,16,5,10,208>>, <<191,230,8,15,18,221,99,74>>, <<191,231,113,48,167,46,86,159>>,
            <<191,232,194,190,152,190,246,12>>, <<191,233,251,101,105,157,185,251>>, <<191,235,25,234,167,145,107,202>>, <<191,236,29,46,40,89,88,216>>,
            <<191,237,4,43,43,126,249,186>>, <<191,237,205,249,96,149,155,111>>, <<191,238,121,205,208,224,33,73>>, <<191,239,6,251,171,114,6,4>>,
            <<191,239,116,244,242,254,47,204>>, <<191,239,195,75,12,164,221,186>>, <<191,239,241,175,47,49,23,124>>, <<191,239,255,242,178,85,159,100>>,
            <<191,239,238,7,61,153,208,23>>, <<191,239,187,254,214,199,41,202>>, <<191,239,106,11,207,201,13,254>>, <<191,238,248,128,148,16,228,244>>,
            <<191,238,103,207,85,177,139,222>>, <<191,237,184,137,154,133,118,210>>, <<191,236,235,95,169,211,12,54>>, <<191,236,1,31,219,2,68,113>>,
            <<191,234,250,181,198,22,41,46>>, <<191,233,217,41,86,186,135,66>>, <<191,232,157,157,194,212,144,219>>, <<191,231,73,80,101,161,6,227>>,
            <<191,229,221,151,128,134,158,70>>, <<191,228,91,224,226,221,185,184>>, <<191,226,197,176,122,7,160,93>>, <<191,225,28,158,203,70,244,22>>,
            <<191,222,196,174,177,196,113,119>>, <<191,219,49,45,232,90,236,3>>, <<191,215,130,83,252,86,44,72>>, <<191,211,187,213,49,13,53,81>>,
            <<191,207,194,251,34,232,179,231>>, <<191,199,238,90,60,251,177,151>>, <<191,192,1,167,210,206,198,74>>, <<191,176,9,184,119,127,67,116>>,
            <<61,51,221,197,188,226,0,187>>, <<63,176,9,184,119,127,43,59>>, <<63,192,1,167,210,206,217,255>>, <<63,199,238,90,60,251,197,27>>,
            <<63,207,194,251,34,232,199,38>>, <<63,211,187,213,49,13,62,196>>, <<63,215,130,83,252,86,53,133>>, <<63,219,49,45,232,90,230,133>>,
            <<63,222,196,174,177,196,108,37>>, <<63,225,28,158,203,70,241,133>>, <<63,226,197,176,122,7,157,232>>, <<63,228,91,224,226,221,189,141>>,
            <<63,229,221,151,128,134,161,230>>, <<63,231,73,80,101,161,10,76>>, <<63,232,157,157,194,212,153,36>>, <<63,233,217,41,86,186,138,47>>,
            <<63,234,250,181,198,22,39,140>>, <<63,236,1,31,219,2,70,216>>, <<63,236,235,95,169,211,10,233>>, <<63,237,184,137,154,133,120,169>>,
            <<63,238,103,207,85,177,138,236>>, <<63,238,248,128,148,16,230,52>>, <<63,239,106,11,207,201,14,240>>, <<63,239,187,254,214,199,42,109>>,
            <<63,239,238,7,61,153,207,228>>, <<63,239,255,242,178,85,159,97>>, <<63,239,241,175,47,49,23,169>>, <<63,239,195,75,12,164,222,24>>,
            <<63,239,116,244,242,254,46,226>>, <<63,239,6,251,171,114,4,205>>, <<63,238,121,205,208,224,31,198>>, <<63,237,205,249,96,149,150,183>>,
            <<63,237,4,43,43,126,247,161>>, <<63,236,29,46,40,89,90,75>>, <<63,235,25,234,167,145,109,103>>, <<63,233,251,101,105,157,187,193>>,
            <<63,232,194,190,152,190,242,231>>, <<63,231,113,48,167,46,88,175>>, <<63,230,8,15,18,221,95,176>>, <<63,228,136,197,16,5,7,1>>,
            <<63,226,244,212,27,219,195,255>>, <<63,225,77,210,120,226,12,63>>, <<63,223,42,211,44,149,106,253>>, <<63,219,154,168,200,53,102,121>>,
            <<63,215,238,187,43,92,158,1>>, <<63,212,42,187,168,199,46,38>>, <<63,208,82,115,200,117,89,95>>, <<63,200,211,130,241,37,124,169>>,
            <<63,192,233,38,83,178,199,106>>, <<63,177,219,143,109,106,67,35>>, <<63,125,45,198,105,128,19,27>>, <<191,172,111,88,85,66,252,73>>,
            <<191,190,51,232,43,149,106,148>>, <<191,199,8,225,241,149,99,57>>, <<191,206,224,165,18,154,44,227>>, <<191,211,76,173,23,195,198,202>>,
            <<191,215,21,158,157,88,228,222>>, <<191,218,199,88,152,197,22,206>>, <<191,222,94,35,226,104,83,71>>, <<191,224,235,50,52,115,202,190>>,
            <<191,226,150,78,105,69,203,165>>, <<191,228,46,184,255,221,204,116>>, <<191,229,178,215,53,133,152,145>>, <<191,231,33,34,177,187,99,10>>,
            <<191,232,120,43,14,199,232,75>>, <<191,233,182,151,76,65,133,198>>, <<191,234,219,39,42,7,112,115>>, <<191,235,228,180,106,88,140,10>>,
            <<191,236,210,51,249,193,118,100>>, <<191,237,162,182,251,184,98,27>>, <<191,238,85,107,186,216,177,178>>, <<191,238,233,158,123,204,115,225>>,
            <<191,239,94,186,50,15,206,241>>, <<191,239,180,73,21,216,142,131>>, <<191,239,233,245,26,139,0,86>>, <<191,239,255,136,69,68,248,147>>,
            <<191,239,244,236,227,40,11,252>>, <<191,239,202,45,159,44,77,239>>, <<191,239,127,117,119,101,171,140>>, <<191,239,21,15,145,198,169,209>>,
            <<191,238,139,102,240,140,11,209>>, <<191,237,227,6,6,157,88,47>>, <<191,237,28,150,44,78,120,14>>, <<191,236,56,222,245,14,161,26>>,
            <<191,235,56,197,102,175,144,142>>, <<191,234,29,75,19,15,58,148>>, <<191,232,231,141,21,11,130,252>>, <<191,231,152,194,241,196,86,145>>,
            <<191,230,50,61,95,76,215,244>>, <<191,228,181,100,242,6,150,33>>, <<191,227,35,184,177,251,69,225>>, <<191,225,126,204,153,161,241,18>>,
            <<191,223,144,143,255,37,163,182>>, <<191,220,3,199,217,133,114,235>>, <<191,216,90,210,193,228,72,113>>, <<191,212,153,95,14,27,151,229>>,
            <<191,208,195,51,182,158,246,51>>, <<191,201,184,89,19,237,243,170>>, <<191,193,208,108,150,141,154,4>>, <<191,179,173,42,255,20,76,29>>,
            <<191,141,45,149,227,224,89,220>>, <<63,168,202,225,41,161,38,74>>, <<63,188,100,28,62,130,7,147>>, <<63,198,35,29,10,32,184,135>>,
            <<63,205,253,232,80,192,239,31>>, <<63,210,221,68,206,154,249,14>>, <<63,214,168,156,119,240,167,140>>, <<63,218,93,42,57,111,209,121>>,
            <<63,221,247,52,19,138,231,243>>, <<63,224,185,141,88,200,250,21>>, <<63,226,102,174,135,44,226,123>>, <<63,228,1,77,253,51,131,128>>,
            <<63,229,135,206,192,9,53,231>>, <<63,230,248,168,17,29,231,85>>, <<63,232,82,102,249,36,178,248>>, <<63,233,147,175,189,44,109,223>>,
            <<63,234,187,63,60,89,101,65>>, <<63,235,199,236,52,225,25,121>>, <<63,236,184,168,111,0,217,51>>, <<63,237,140,129,204,194,135,210>>,
            <<63,238,66,163,61,126,79,107>>, <<63,238,218,85,148,36,113,246>>, <<63,239,83,0,63,119,106,182>>, <<63,239,172,41,227,125,108,243>>,
            <<63,239,229,120,211,142,162,121>>, <<63,239,254,179,108,133,159,150>>, <<63,239,247,192,78,183,56,242>>, <<63,239,208,166,119,119,116,22>>,
            <<63,239,137,141,58,17,242,73>>, <<63,239,34,188,24,60,216,116>>, <<63,238,156,154,122,46,6,90>>, <<63,237,247,175,70,154,247,38>>,
            <<63,237,52,160,91,11,195,31>>, <<63,236,84,49,229,9,239,183>>, <<63,235,87,69,156,210,157,70>>, <<63,234,62,217,226,82,144,96>>,
            <<63,233,12,8,189,80,155,0>>, <<63,231,192,6,193,199,78,129>>, <<63,230,92,33,217,139,160,85>>, <<63,228,225,191,244,120,129,41>>,
            <<63,227,82,93,160,112,231,62>>, <<63,225,175,140,138,162,235,139>>, <<63,223,245,227,215,24,99,100>>, <<63,220,108,137,190,173,92,118>>,
            <<63,216,198,153,88,110,25,204>>, <<63,213,7,189,241,19,116,171>>, <<63,209,51,187,228,244,119,178>>, <<63,202,156,217,172,66,87,197>>,
            <<63,194,183,119,154,48,225,114>>, <<63,181,126,133,31,244,219,175>>, <<63,149,225,243,196,50,173,9>>, <<191,165,38,23,137,83,185,17>>,
            <<191,186,147,241,228,230,14,7>>, <<191,197,61,14,130,202,32,205>>, <<191,205,26,199,207,116,20,64>>, <<191,210,109,157,200,24,181,175>>,
            <<191,214,59,78,246,168,154,86>>, <<191,217,242,164,43,127,27,182>>, <<191,221,143,224,155,133,221,241>>, <<191,224,135,176,221,98,28,209>>,
            <<191,226,54,209,114,33,12,4>>, <<191,227,211,160,113,236,96,71>>, <<191,229,92,126,175,48,107,189>>, <<191,230,207,225,10,104,255,108>>,
            <<191,232,44,81,255,133,113,221>>, <<191,233,112,115,29,145,120,83>>, <<191,234,154,254,103,41,47,141>>, <<191,235,170,199,154,85,93,30>>,
            <<191,236,158,189,94,134,169,227>>, <<191,237,117,234,87,127,225,209>>, <<191,238,47,118,28,26,159,125>>, <<191,238,202,166,15,238,137,12>>,
            <<191,239,70,222,30,255,224,193>>, <<191,239,163,161,90,184,212,11>>, <<191,239,224,146,119,143,175,230>>, <<191,239,253,116,42,219,120,200>>,
            <<191,239,250,41,104,120,163,242>>, <<191,239,214,181,127,255,236,242>>, <<191,239,147,60,25,113,219,147>>, <<191,239,48,1,17,90,99,212>>,
            <<191,238,173,104,52,144,154,121>>, <<191,238,11,244,219,215,69,15>>, <<191,237,76,73,103,195,10,50>>, <<191,236,111,38,157,107,72,94>>,
            <<191,235,117,106,228,137,197,187>>, <<191,234,96,17,103,204,36,208>>, <<191,233,48,49,24,56,23,252>>, <<191,231,230,251,148,160,155,48>>,
            <<191,230,133,187,246,69,237,102>>, <<191,229,13,213,131,213,217,110>>, <<191,227,128,194,76,27,17,48>>, <<191,225,224,17,169,194,188,9>>,
            <<191,224,45,102,177,183,11,11>>, <<191,220,212,237,27,69,35,125>>, <<191,217,50,13,136,136,85,224>>, <<191,213,117,214,226,155,190,150>>,
            <<191,209,164,10,221,50,142,249>>, <<191,203,129,1,194,44,198,232>>, <<191,195,158,68,94,51,76,212>>, <<191,183,79,151,196,92,148,134>>,
            <<191,157,44,211,207,75,104,62>>, <<63,161,129,7,146,166,85,183>>, <<63,184,195,111,38,126,10,163>>, <<63,196,86,185,88,179,19,165>>,
            <<63,204,55,70,130,22,221,203>>, <<63,209,253,185,119,147,73,8>>, <<63,213,205,183,133,6,183,117>>, <<63,217,135,199,209,58,181,146>>,
            <<63,221,40,42,209,254,121,219>>, <<63,224,85,157,104,19,179,244>>, <<63,226,6,183,201,82,15,61>>, <<63,227,165,176,245,243,46,54>>,
            <<63,229,48,231,147,8,71,37>>, <<63,230,166,206,37,59,42,182>>, <<63,232,5,236,160,145,154,156>>, <<63,233,76,225,226,161,196,72>>,
            <<63,234,122,101,21,187,176,23>>, <<63,235,141,70,251,162,14,249>>, <<63,236,132,115,30,134,1,241>>, <<63,237,94,240,231,19,64,61>>,
            <<63,238,27,228,150,116,150,186>>, <<63,238,186,144,35,85,175,21>>, <<63,239,58,83,249,3,164,160>>, <<63,239,154,175,151,236,44,124>>,
            <<63,239,219,66,22,217,246,5>>, <<63,239,251,202,132,108,79,220>>, <<63,239,252,40,40,103,237,191>>, <<63,239,220,90,164,159,59,215>>,
            <<63,239,156,129,245,81,21,103>>, <<63,239,60,222,80,253,136,116>>, <<63,238,189,207,231,208,246,164>>, <<63,238,31,214,130,230,146,213>>,
            <<63,237,99,145,3,195,139,37>>, <<63,236,137,188,196,139,255,165>>, <<63,235,147,52,217,146,168,16>>, <<63,234,128,241,53,2,164,203>>,
            <<63,233,84,5,173,128,227,113>>, <<63,232,13,160,232,192,70,31>>, <<63,230,175,11,43,31,48,122>>, <<63,229,57,165,13,128,188,207>>,
            <<63,227,174,230,26,173,229,144>>, <<63,226,16,91,85,162,195,16>>, <<63,224,95,165,170,68,65,218>>, <<63,221,60,240,148,31,104,208>>,
            <<63,217,157,45,236,211,91,191>>, <<63,213,227,168,116,137,255,21>>, <<63,210,20,31,41,212,82,119>>, <<63,204,100,206,94,221,188,244>>,
            <<63,196,132,207,226,250,209,225>>, <<63,185,32,92,225,137,217,206>>, <<63,162,59,169,105,39,38,251>>, <<191,155,183,122,201,157,22,206>>,
            <<191,182,242,154,12,45,5,13>>, <<191,195,112,32,137,231,213,67>>, <<191,203,83,103,93,78,30,74>>, <<191,209,141,153,81,45,19,32>>,
            <<191,213,95,215,143,134,180,194>>, <<191,217,28,150,142,9,98,181>>, <<191,220,192,20,15,224,254,31>>, <<191,224,35,83,159,105,51,94>>,
            <<191,225,214,98,44,185,17,18>>, <<191,227,119,128,34,14,0,196>>, <<191,229,5,9,252,138,29,10>>, <<191,230,125,111,234,47,49,81>>,
            <<191,231,223,55,91,252,4,199>>, <<191,233,40,252,130,167,202,138>>, <<191,234,89,115,180,124,17,108>>, <<191,235,111,106,186,229,246,247>>,
            <<191,236,105,202,6,110,155,134>>, <<191,237,71,149,199,229,87,239>>, <<191,238,7,238,237,161,10,2>>, <<191,238,170,20,3,217,106,247>>,
            <<191,239,45,97,247,55,38,6>>, <<191,239,145,84,184,214,210,235>>, <<191,239,213,135,195,25,215,206>>, <<191,239,249,182,126,191,200,182>>,
            <<191,239,253,188,135,226,106,123>>, <<191,239,225,149,210,143,19,191>>, <<191,239,165,94,174,216,145,5>>, <<191,239,73,83,172,93,123,26>>,
            <<191,238,205,209,93,95,148,36>>, <<191,238,51,83,249,169,139,70>>, <<191,237,122,118,225,160,156,66>>, <<191,236,163,244,1,255,238,83>>,
            <<191,235,176,163,24,218,143,213>>, <<191,234,161,120,220,160,123,60>>, <<191,233,119,134,6,0,121,150>>, <<191,232,51,246,61,158,193,47>>,
            <<191,230,216,14,238,180,11,210>>, <<191,229,101,45,255,196,42,237>>, <<191,227,220,200,114,181,76,181>>, <<191,226,64,104,237,170,39,32>>,
            <<191,224,145,174,46,23,198,118>>, <<191,221,164,146,207,77,125,209>>, <<191,218,7,249,33,6,30,62>>, <<191,214,81,49,57,161,46,238>>,
            <<191,210,131,247,86,23,249,52>>, <<191,205,72,60,140,181,145,244>>, <<191,197,107,23,41,198,102,88>>, <<191,186,240,206,109,189,102,197>>,
            <<191,165,224,172,70,201,1,235>>, <<63,148,108,138,63,138,13,46>>, <<63,181,33,120,159,231,238,176>>, <<63,194,137,71,21,85,225,141>>,
            <<63,202,111,45,86,246,194,2>>, <<63,209,29,62,201,207,70,186>>, <<63,212,241,176,131,149,116,75>>, <<63,216,177,17,198,108,46,220>>,
            <<63,220,87,157,175,92,19,41>>, <<63,223,225,168,85,69,66,3>>, <<63,225,165,209,61,22,181,25>>, <<63,227,73,14,143,220,74,89>>,
            <<63,228,216,230,125,153,180,36>>, <<63,230,83,198,226,218,104,203>>, <<63,231,184,50,178,129,81,67>>, <<63,233,4,195,117,5,226,161>>,
            <<63,234,56,42,176,250,86,32>>, <<63,235,81,51,59,112,158,193>>, <<63,236,78,194,110,235,149,145>>, <<63,237,47,217,71,163,190,76>>,
            <<63,237,243,149,100,1,221,251>>, <<63,238,153,49,232,77,40,208>>, <<63,239,32,8,68,168,58,46>>, <<63,239,135,144,220,149,184,72>>,
            <<63,239,207,99,143,92,24,64>>, <<63,239,247,56,32,191,78,219>>, <<63,239,254,230,129,167,57,232>>, <<63,239,230,102,248,105,143,137>>,
            <<63,239,173,210,40,142,229,220>>, <<63,239,85,96,250,10,242,58>>, <<63,238,221,108,96,0,254,135>>, <<63,238,70,108,255,78,7,47>>,
            <<63,237,144,250,181,50,164,13>>, <<63,236,189,203,254,150,158,117>>, <<63,235,205,181,64,127,219,241>>, <<63,234,193,167,242,117,69,116>>,
            <<63,233,154,177,171,164,127,188>>, <<63,232,89,251,19,190,130,81>>, <<63,231,0,198,184,156,10,63>>, <<63,229,144,111,201,213,216,6>>,
            <<63,228,10,104,187,150,230,244>>, <<63,226,112,57,210,7,214,224>>, <<63,224,195,127,150,202,138,67>>, <<63,222,11,210,116,36,85,17>>,
            <<63,218,114,109,193,242,226,125>>, <<63,214,190,111,197,150,71,224>>, <<63,210,243,145,238,3,132,185>>, <<63,206,43,73,87,79,44,78>>,
            <<63,198,81,23,52,183,151,148>>, <<63,188,192,230,96,77,164,101>>, <<63,169,133,102,97,129,69,110>>, <<191,138,66,171,144,102,248,121>>,
            <<191,179,80,16,236,161,13,125>>, <<191,193,162,47,250,193,182,93>>, <<191,201,138,155,102,28,53,32>>, <<191,208,172,171,87,37,62,249>>,
            <<191,212,131,67,207,140,99,74>>, <<191,216,69,58,223,249,233,87>>, <<191,219,238,201,11,220,114,181>>, <<191,223,124,63,99,101,63,142>>,
            <<191,225,117,5,155,240,216,154>>, <<191,227,26,92,217,212,208,224>>, <<191,228,172,125,169,3,83,242>>, <<191,230,41,211,153,202,251,225>>,
            <<191,231,144,223,37,230,24,232>>, <<191,232,224,55,50,52,171,245>>, <<191,234,22,138,121,233,249,220>>, <<191,235,50,160,225,192,255,4>>,
            <<191,236,51,92,177,226,87,121>>, <<191,237,23,187,181,63,224,65>>, <<191,237,222,216,61,69,37,27>>, <<191,238,135,234,8,215,136,107>>,
            <<191,239,18,71,13,189,145,155>>, <<191,239,125,100,35,162,253,38>>, <<191,239,200,213,144,13,152,212>>, <<191,239,244,79,114,181,252,155>>,
            <<191,239,255,166,17,215,87,38>>, <<191,239,234,206,6,41,112,251>>, <<191,239,181,220,70,88,182,64>>, <<191,239,97,6,17,240,187,147>>,
            <<191,238,236,160,187,206,115,27>>, <<191,238,89,33,84,79,247,137>>, <<191,237,167,28,51,152,28,212>>, <<191,236,215,68,100,92,98,117>>,
            <<191,235,234,106,239,211,35,241>>, <<191,234,225,126,11,119,49,217>>, <<191,233,189,136,41,116,86,124>>, <<191,232,127,174,236,173,182,68>>,
            <<191,231,41,50,1,107,89,202>>, <<191,229,187,105,219,216,56,50>>, <<191,228,55,198,93,147,251,199>>, <<191,226,159,205,99,180,169,210>>,
            <<191,224,245,25,62,172,217,52>>, <<191,222,114,174,43,64,138,244>>, <<191,218,220,138,109,139,250,60>>, <<191,215,43,98,173,21,30,114>>,
            <<191,211,98,237,126,106,1,108>>, <<191,207,13,241,203,136,218,254>>, <<191,199,54,205,6,221,90,140>>, <<191,190,144,158,177,187,57,251>>,
            <<191,173,41,203,155,55,239,231>>, <<63,119,87,214,150,124,236,236>>, <<63,177,126,104,254,52,98,91>>, <<63,192,186,222,58,188,154,147>>,
            <<63,200,165,180,130,238,72,247>>, <<63,208,59,224,111,151,211,5>>, <<63,212,20,146,226,172,153,184>>, <<63,215,217,19,65,90,157,112>>,
            <<63,219,133,151,130,8,71,179>>, <<63,223,22,109,186,120,33,56>>, <<63,225,67,255,235,144,141,31>>, <<63,226,235,107,155,67,159,42>>,
            <<63,228,127,208,18,121,208,53>>, <<63,229,255,150,154,133,245,157>>, <<63,231,105,61,56,245,103,173>>, <<63,232,187,88,51,193,140,27>>,
            <<63,233,244,147,127,32,120,17>>, <<63,235,19,180,19,132,57,66>>, <<63,236,23,153,42,113,113,157>>, <<63,236,255,61,96,238,5,86>>,
            <<63,237,201,183,190,100,56,177>>, <<63,238,118,60,158,241,158,37>>, <<63,239,4,30,128,54,42,72>>, <<63,239,114,206,175,213,131,87>>,
            <<63,239,193,221,218,251,24,51>>, <<63,239,240,252,126,80,128,17>>, <<63,239,255,251,53,245,166,216>>, <<63,239,238,202,237,42,83,166>>,
            <<63,239,189,124,237,121,14,243>>, <<63,239,108,66,205,84,52,71>>, <<63,238,251,110,62,54,158,171>>, <<63,238,107,112,186,122,35,194>>,
            <<63,237,188,219,19,54,132,150>>, <<63,236,240,92,222,155,125,118>>, <<63,236,6,195,199,88,153,111>>, <<63,235,0,250,189,196,86,254>>,
            <<63,233,224,9,11,146,144,47>>, <<63,232,165,17,75,7,239,79>>, <<63,231,81,80,66,180,153,110>>, <<63,229,230,27,166,220,46,107>>,
            <<63,228,100,224,193,203,127,41>>, <<63,226,207,35,4,117,93,166>>, <<63,225,38,122,128,200,108,39>>, <<63,222,217,36,158,139,62,246>>,
            <<63,219,70,77,194,232,63,242>>, <<63,215,152,8,133,197,56,23>>, <<63,211,210,8,148,239,222,161>>, <<63,207,240,50,247,143,30,8>>,
            <<63,200,28,53,164,60,255,178>>, <<63,192,47,248,173,226,45,237>>, <<63,176,102,231,235,118,229,175>>, <<63,87,87,222,89,250,34,105>>,
            <<191,175,89,13,194,168,153,206>>, <<191,191,166,169,173,54,1,214>>, <<191,199,192,123,166,183,20,205>>, <<191,207,149,191,20,144,25,131>>,
            <<191,211,165,159,45,25,246,103>>, <<191,215,108,156,82,66,204,65>>, <<191,219,28,10,111,186,209,247>>, <<191,222,176,52,173,31,236,113>>,
            <<191,225,18,192,207,0,17,4>>, <<191,226,188,59,112,72,13,12>>, <<191,228,82,222,78,148,175,228>>, <<191,229,213,16,113,133,159,77>>,
            <<191,231,65,77,111,126,228,11>>, <<191,232,150,38,244,77,16,206>>, <<191,233,210,70,49,147,229,251>>, <<191,234,244,109,55,148,82,152>>,
            <<191,235,251,120,52,239,83,228>>, <<191,236,230,94,156,36,62,89>>, <<191,237,180,52,45,162,219,237>>, <<191,238,100,41,229,102,46,196>>,
            <<191,238,245,142,203,40,170,59>>, <<191,239,103,208,164,96,122,77>>, <<191,239,186,124,135,80,232,57>>, <<191,239,237,63,78,156,252,17>>,
            <<191,239,255,229,236,230,254,169>>, <<191,239,242,93,160,40,220,173>>, <<191,239,196,180,4,145,189,146>>, <<191,239,119,23,6,213,212,253>>,
            <<191,239,9,212,181,254,52,254>>, <<191,238,125,90,244,231,10,188>>, <<191,237,210,55,11,187,88,36>>, <<191,237,9,21,25,221,33,161>>,
            <<191,236,34,191,104,201,38,43>>, <<191,235,32,29,160,164,50,60>>, <<191,234,2,51,223,62,123,205>>, <<191,232,202,33,178,119,182,179>>,
            <<191,231,121,32,247,10,163,16>>, <<191,230,16,132,156,227,23,13>>, <<191,228,145,183,82,60,19,165>>, <<191,226,254,58,22,220,177,173>>,
            <<191,225,87,162,184,226,128,13>>, <<191,223,63,52,121,62,90,177>>, <<191,219,175,182,98,71,143,171>>, <<191,216,4,95,230,78,98,47>>,
            <<191,212,64,225,192,16,41,83>>, <<191,208,105,4,245,114,188,129>>, <<191,201,1,78,17,220,252,82>>, <<191,193,23,108,44,188,170,6>>,
            <<191,178,56,179,124,116,26,190>>, <<191,129,129,217,45,98,246,160>>, <<63,171,180,225,70,231,91,170>>, <<63,189,215,45,160,212,147,204>>,
            <<63,198,218,243,203,209,111,255>>, <<63,206,179,84,62,21,137,182>>, <<63,211,54,106,31,214,116,210>>, <<63,214,255,215,123,110,162,132>>,
            <<63,218,178,35,51,255,190,17>>, <<63,222,73,149,143,86,174,81>>, <<63,224,225,72,234,8,130,23>>, <<63,226,140,204,245,210,197,51>>,
            <<63,228,37,168,242,206,50,186>>, <<63,229,170,65,172,55,132,231>>, <<63,231,25,16,78,85,40,152>>, <<63,232,112,163,239,137,77,190>>,
            <<63,233,175,163,3,89,113,216>>, <<63,234,212,204,181,246,191,223>>, <<63,235,222,250,46,233,57,13>>, <<63,236,205,31,185,153,96,156>>,
            <<63,237,158,77,210,142,76,93>>, <<63,238,81,178,24,80,240,133>>, <<63,238,230,152,31,2,210,98>>, <<63,239,92,106,37,210,236,165>>,
            <<63,239,178,177,173,154,158,173>>, <<63,239,233,23,240,10,226,191>>, <<63,239,255,102,54,242,41,72>>, <<63,239,245,134,19,66,232,63>>,
            <<63,239,203,129,115,163,163,39>>, <<63,239,129,130,154,113,169,30>>, <<63,239,23,211,243,64,162,240>>, <<63,238,142,223,200,1,165,92>>,
            <<63,237,231,47,214,29,9,91>>, <<63,237,33,108,195,234,175,7>>, <<63,236,62,93,119,19,196,175>>, <<63,235,62,230,76,136,225,109>>,
            <<63,234,36,8,50,213,148,134>>, <<63,232,238,223,167,184,52,104>>, <<63,231,160,163,154,2,60,14>>, <<63,230,58,164,48,224,113,69>>,
            <<63,228,190,73,121,197,234,150>>, <<63,227,45,17,254,77,127,64>>, <<63,225,136,145,67,126,5,212>>, <<63,223,164,220,103,232,213,125>>,
            <<63,220,24,194,237,23,118,37>>, <<63,216,112,103,102,93,70,60>>, <<63,212,175,119,143,33,43,29>>, <<63,208,217,185,219,56,137,122>>,
            <<63,201,230,19,85,206,117,114>>, <<63,193,254,166,211,168,130,254>>, <<63,180,10,66,115,106,179,88>>, <<63,144,12,62,42,210,210,229>>,
            <<191,168,16,88,165,103,137,64>>, <<191,188,7,78,85,206,68,16>>, <<191,197,245,31,237,158,203,173>>, <<191,205,208,131,76,198,137,208>>,
            <<191,210,198,245,44,189,143,188>>, <<191,214,146,198,38,157,117,78>>, <<191,218,71,227,47,14,120,150>>, <<191,221,226,145,182,105,174,168>>,
            <<191,224,175,152,225,47,242,227>>, <<191,226,93,32,201,163,174,100>>, <<191,227,248,48,149,129,114,164>>, <<191,229,127,42,216,250,175,214>>,
            <<191,230,240,134,91,76,27,3>>, <<191,232,74,207,162,56,75,41>>, <<191,233,140,170,103,163,221,218>>, <<191,234,180,210,247,219,46,6>>,
            <<191,235,194,31,119,33,208,187>>, <<191,236,179,129,13,67,236,83>>, <<191,237,136,4,245,252,92,245>>, <<191,238,62,213,117,29,203,5>>,
            <<191,238,215,58,173,136,205,151>>, <<191,239,80,155,90,23,75,135>>, <<191,239,170,125,103,194,198,133>>, <<191,239,228,134,112,106,202,228>>,
            <<191,239,254,124,21,191,229,69>>, <<191,239,248,68,59,247,177,206>>, <<191,239,209,229,36,15,6,58>>, <<191,239,139,133,101,127,195,240>>,
            <<191,239,37,107,199,112,167,94>>, <<191,238,159,254,249,134,37,202>>, <<191,237,251,197,44,155,229,73>>, <<191,237,57,99,139,206,169,110>>,
            <<191,236,89,157,150,94,151,34>>, <<191,235,93,84,91,16,153,89>>, <<191,234,69,133,149,213,5,70>>, <<191,233,19,74,176,150,185,247>>,
            <<191,231,199,215,168,51,189,147>>, <<191,230,100,121,214,187,226,176>>, <<191,228,234,150,164,44,192,105>>, <<191,227,91,170,30,252,175,38>>,
            <<191,225,185,69,125,221,207,115>>, <<191,224,5,13,140,57,191,150>>, <<191,220,129,114,5,247,219,102>>, <<191,216,220,29,158,168,54,45>>,
            <<191,213,29,200,146,89,22,37>>, <<191,209,74,54,182,65,13,142>>, <<191,202,202,130,119,54,231,75>>, <<191,194,229,165,161,158,55,191>>,
            <<191,181,219,142,195,252,24,89>>, <<191,151,87,90,95,156,254,218>>, <<63,164,107,127,251,156,153,203>>, <<63,186,55,17,210,230,126,41>>,
            <<63,197,15,3,8,125,166,91>>, <<63,204,237,79,50,253,190,176>>, <<63,210,87,65,198,127,8,78>>, <<63,214,37,105,190,140,241,41>>,
            <<63,217,221,75,194,69,198,40>>, <<63,221,123,42,120,245,113,108>>, <<63,224,125,177,89,183,17,67>>, <<63,226,45,55,138,71,209,175>>,
            <<63,227,202,117,205,232,99,130>>, <<63,229,83,204,135,29,217,109>>, <<63,230,199,176,29,55,8,69>>, <<63,232,36,170,138,42,113,112>>,
            <<63,233,105,92,210,194,10,78>>, <<63,234,148,128,103,154,6,1>>, <<63,235,164,232,109,144,35,134>>, <<63,236,153,130,236,88,238,40>>,
            <<63,237,113,89,226,10,126,18>>, <<63,238,43,148,58,135,249,35>>, <<63,238,199,118,169,212,155,124>>, <<63,239,68,100,104,114,229,113>>,
            <<63,239,161,223,209,18,135,143>>, <<63,239,223,138,222,238,67,144>>, <<63,239,253,39,140,90,224,21>>, <<63,239,250,152,17,39,245,220>>,
            <<63,239,215,223,0,147,223,163>>, <<63,239,149,31,70,180,182,249>>, <<63,239,50,156,5,88,232,166>>, <<63,238,176,184,80,130,201,216>>,
            <<63,238,15,246,202,194,246,169>>, <<63,237,80,249,33,213,207,179>>, <<63,236,116,127,108,8,51,102>>, <<63,235,123,103,103,6,237,45>>,
            <<63,234,102,171,152,219,39,245>>, <<63,233,55,98,83,244,99,46>>, <<63,231,238,188,159,60,239,113>>, <<63,230,142,5,3,82,219,19>>,
            <<63,229,22,158,62,25,183,98>>, <<63,227,138,1,221,243,76,152>>, <<63,225,233,190,198,6,159,153>>, <<63,224,55,119,157,18,122,125>>,
            <<63,220,233,194,80,191,97,101>>, <<63,217,71,129,40,243,244,181>>, <<63,213,139,211,90,210,234,207>>, <<63,209,186,122,16,110,148,254>>,
            <<63,203,174,152,126,90,70,181>>, <<63,195,204,101,150,93,18,205>>, <<63,183,172,146,98,167,93,49>>, <<63,158,162,40,243,93,215,28>>,
            <<191,160,198,99,104,4,49,5>>, <<191,184,102,126,32,22,53,183>>, <<191,196,40,160,25,191,94,247>>, <<191,204,9,186,228,95,25,74>>,
            <<191,209,231,81,96,154,143,126>>, <<191,213,183,195,174,244,144,156>>, <<191,217,114,94,80,39,15,21>>, <<191,221,19,97,46,224,210,66>>,
            <<191,224,75,146,249,151,55,68>>, <<191,225,253,17,215,23,94,160>>, <<191,227,156,121,52,25,207,131>>, <<191,229,40,39,70,221,130,167>>,
            <<191,230,158,142,27,231,16,177>>, <<191,231,254,53,38,60,220,124>>, <<191,233,69,186,186,29,124,152>>, <<191,234,115,213,112,179,23,231>>,
            <<191,235,135,85,115,94,56,67>>, <<191,236,127,37,173,74,234,151>>, <<191,237,90,76,226,28,192,158>>, <<191,238,23,238,168,153,77,10>>,
            <<191,238,183,76,72,85,85,175>>, <<191,239,55,197,121,133,112,146>>, <<191,239,152,217,6,49,79,61>>, <<191,239,218,37,76,39,160,76>>,
            <<191,239,251,104,159,47,170,245>>, <<191,239,252,129,139,22,15,154>>, <<191,239,221,110,245,82,30,115>>, <<191,239,158,80,30,34,3,51>>,
            <<191,239,63,100,129,28,151,232>>, <<191,238,193,11,149,88,133,169>>, <<191,238,35,196,109,104,239,120>>, <<191,237,104,45,55,144,27,38>>,
            <<191,236,143,2,158,168,196,236>>, <<191,235,153,31,12,102,18,239>>, <<191,234,135,121,205,168,238,120>>, <<191,233,91,38,25,199,178,182>>,
            <<191,232,21,81,253,194,142,192>>, <<191,230,183,69,44,122,139,95>>, <<191,229,66,95,181,29,77,246>>, <<191,227,184,24,161,16,117,138>>,
            <<191,226,25,252,122,193,48,150>>, <<191,224,105,171,190,211,56,63>>, <<191,221,81,178,114,128,6,162>>, <<191,217,178,144,160,24,48,77>>,
            <<191,213,249,150,122,147,90,7>>, <<191,210,42,130,116,98,232,206>>, <<191,204,146,82,116,165,30,74>>, <<191,196,178,227,178,117,100,229>>,
            <<191,185,125,71,68,220,219,54>>, <<191,162,246,72,210,178,176,237>>, <<63,154,66,30,19,254,161,118>>, <<63,182,149,153,70,120,86,125>>,
            <<63,195,65,250,31,158,4,57>>, <<63,203,37,201,85,206,254,179>>, <<63,209,119,37,111,90,135,101>>, <<63,213,73,213,100,128,196,180>>,
            <<63,217,7,28,60,81,240,67>>, <<63,220,171,55,49,88,254,44>>, <<63,224,25,62,103,128,12,105>>, <<63,225,204,176,80,51,140,45>>,
            <<63,227,110,59,97,7,112,21>>, <<63,228,252,59,169,98,8,93>>, <<63,230,117,32,224,41,55,115>>, <<63,231,215,111,246,87,171,40>>,
            <<63,233,33,196,148,56,207,64>>, <<63,234,82,210,127,204,62,128>>, <<63,235,105,102,234,231,220,132>>, <<63,236,100,105,167,200,197,211>>,
            <<63,237,66,222,66,220,225,68>>, <<63,238,3,229,0,169,72,225>>, <<63,238,166,187,190,206,146,181>>, <<63,239,42,190,183,72,120,27>>,
            <<63,239,143,105,37,36,111,58>>, <<63,239,212,85,202,9,196,51>>, <<63,239,249,63,84,12,173,170>>, <<63,239,254,0,163,102,20,191>>,
            <<63,239,226,148,239,201,235,179>>, <<63,239,167,23,205,54,127,43>>, <<63,239,75,197,16,55,244,115>>, <<63,238,208,248,145,187,206,255>>,
            <<63,238,55,45,210,177,13,155>>, <<63,237,126,255,127,209,203,35>>, <<63,236,169,38,214,19,43,99>>, <<63,235,182,122,232,88,76,223>>,
            <<63,234,167,239,199,35,72,129>>, <<63,233,126,149,139,30,23,49>>, <<63,232,59,151,67,114,33,138>>, <<63,230,224,57,201,1,159,203>>,
            <<63,229,109,218,119,177,81,181>>, <<63,227,229,237,207,11,104,40>>, <<63,226,73,253,251,156,122,254>>, <<63,224,155,169,74,131,218,46>>,
            <<63,221,185,65,17,139,125,63>>, <<63,218,29,74,160,4,68,126>>, <<63,214,103,16,132,141,89,27>>, <<63,210,154,78,109,131,173,99>>,
            <<63,205,117,173,100,182,42,140>>, <<63,197,153,28,247,82,188,108>>, <<63,187,77,167,97,18,200,251>>, <<63,166,155,62,27,41,190,159>>,
            <<191,146,247,30,3,77,15,255>>, <<191,180,196,105,80,54,49,57>>, <<191,194,91,20,25,50,159,79>>, <<191,202,65,125,125,103,152,145>>,
            <<191,209,6,191,103,207,90,223>>, <<191,212,219,160,76,206,25,238>>, <<191,216,155,134,235,127,127,89>>, <<191,220,66,173,218,204,133,172>>,
            <<191,223,205,104,149,171,36,139>>, <<191,225,156,19,150,132,152,2>>, <<191,227,63,188,238,123,228,149>>, <<191,228,208,10,64,189,204,73>>,
            <<191,230,75,104,243,196,200,182>>, <<191,231,176,91,123,108,101,141>>, <<191,232,253,122,216,174,29,206>>, <<191,234,49,120,2,175,237,56>>,
            <<191,235,75,29,55,185,105,251>>, <<191,236,73,79,52,188,153,45>>, <<191,237,43,14,82,57,80,16>>, <<191,237,239,119,133,92,77,37>>,
            <<191,238,149,197,68,87,163,199>>, <<191,239,29,80,77,14,213,102>>, <<191,239,133,144,77,78,182,215>>, <<191,239,206,28,107,231,229,12>>,
            <<191,239,246,171,178,34,17,68>>, <<191,239,255,21,85,29,232,147>>, <<191,239,231,80,222,219,229,193>>, <<191,239,175,118,54,190,191,40>>,
            <<191,239,87,189,137,128,231,42>>, <<191,238,224,127,16,181,63,233>>, <<191,238,74,50,186,11,237,161>>, <<191,237,149,111,174,180,107,208>>,
            <<191,236,194,235,187,86,57,73>>, <<191,235,211,122,153,57,17,156>>, <<191,234,200,13,25,84,151,172>>, <<191,233,161,176,50,29,109,57>>,
            <<191,232,97,139,241,3,145,93>>, <<191,231,8,226,80,177,247,120>>, <<191,229,153,13,245,58,183,25>>, <<191,228,19,128,207,117,141,28>>,
            <<191,226,121,194,168,239,150,86>>, <<191,224,205,111,153,225,232,125>>, <<191,222,32,108,213,119,197,103>>, <<191,218,135,173,197,195,174,46>>,
            <<191,214,212,64,12,166,253,232>>, <<191,211,9,220,135,255,180,161>>, <<191,206,88,166,90,103,211,130>>, <<191,198,127,14,103,69,124,18>>,
            <<191,189,29,172,174,217,205,175>>, <<191,170,63,232,52,55,193,114>>, <<63,135,87,189,190,150,123,229>>, <<63,178,242,244,72,114,230,27>>,
            <<63,193,115,241,6,107,124,4>>, <<63,201,92,218,82,111,89,42>>, <<63,208,150,32,191,202,211,42>>, <<63,212,109,37,214,100,150,51>>,
            <<63,216,47,159,195,125,138,184>>, <<63,219,217,198,134,231,78,219>>, <<63,223,103,234,151,91,143,19>>, <<63,225,107,60,75,183,162,69>>,
            <<63,227,16,254,119,24,197,247>>, <<63,228,163,147,159,235,97,144>>, <<63,230,33,102,225,121,97,248>>, <<63,231,136,248,55,116,69,141>>,
            <<63,232,216,222,0,45,133,180>>, <<63,234,15,198,104,75,185,175>>, <<63,235,44,120,190,142,94,147>>, <<63,236,45,214,174,74,131,195>>,
            <<63,237,18,221,95,100,39,20>>, <<63,237,218,166,122,162,192,201>>, <<63,238,132,105,17,90,227,254>>, <<63,239,15,122,103,132,37,170>>,
            <<63,239,123,78,159,112,12,246>>, <<63,239,199,121,70,117,73,36>>, <<63,239,243,173,194,1,170,152>>, <<63,239,255,191,156,165,78,23>>,
            <<63,239,235,162,178,201,90,250>>, <<63,239,183,107,62,229,114,215>>, <<63,239,99,77,197,39,125,224>>, <<63,238,239,158,222,162,88,99>>,
            <<63,238,92,210,228,56,102,207>>, <<63,237,171,125,121,151,201,12>>, <<63,236,220,80,248,189,184,106>>, <<63,235,240,29,190,150,113,14>>,
            <<63,234,231,209,89,110,31,48>>, <<63,233,196,117,154,5,145,77>>, <<63,232,135,47,136,58,200,91>>, <<63,231,49,62,60,82,144,165>>,
            <<63,229,195,249,158,11,104,215>>, <<63,228,64,209,10,188,101,198>>, <<63,226,169,73,227,219,250,64>>, <<63,224,254,254,7,98,132,107>>,
            <<63,222,135,52,103,35,194,236>>, <<63,218,241,184,175,130,197,161>>, <<63,215,65,35,167,190,12,229>>, <<63,211,121,43,80,211,87,225>>,
            <<63,207,59,58,98,218,217,149>>, <<63,199,100,181,5,141,12,128>>, <<63,190,237,81,38,240,82,150>>, <<63,173,228,58,255,248,116,113>>,
            <<191,113,129,227,168,122,12,144>>, <<191,177,33,64,59,54,203,130>>, <<191,192,140,147,232,1,239,155>>, <<191,200,119,226,205,79,124,102>>,
            <<191,208,37,74,237,218,208,176>>, <<191,211,254,103,112,179,20,58>>, <<191,215,195,104,43,42,16,195>>, <<191,219,112,130,146,141,172,235>>,
            <<191,223,2,4,37,157,27,33>>, <<191,225,58,43,18,60,134,95>>, <<191,226,226,0,150,84,151,226>>, <<191,228,118,216,90,203,121,108>>,
            <<191,229,247,27,52,253,82,85>>, <<191,231,97,70,173,110,150,184>>, <<191,232,179,238,132,123,138,244>>, <<191,233,237,190,32,174,248,103>>,
            <<191,235,13,121,229,80,46,158>>, <<191,236,18,0,111,207,137,194>>, <<191,236,250,75,186,210,28,57>>, <<191,237,197,114,37,184,41,236>>,
            <<191,238,114,167,95,149,4,25>>, <<191,239,1,61,52,172,40,98>>, <<191,239,112,164,61,165,6,25>>, <<191,239,192,108,111,197,3,225>>,
            <<191,239,240,69,141,158,219,106>>, <<191,239,255,255,119,197,243,19>>, <<191,239,239,138,93,52,127,21>>, <<191,239,190,246,203,51,196,110>>,
            <<191,239,110,117,156,182,124,219>>, <<191,238,254,87,201,54,25,7>>, <<191,238,111,14,19,68,85,204>>, <<191,237,193,40,151,34,236,195>>,
            <<191,236,245,86,57,211,159,191>>, <<191,236,12,99,249,50,53,95>>, <<191,235,7,60,29,201,89,204>>, <<191,233,230,229,79,49,237,123>>,
            <<191,232,172,129,139,233,95,167>>, <<191,231,89,77,5,169,29,214>>, <<191,229,238,156,227,100,79,28>>, <<191,228,109,221,234,43,120,0>>,
            <<191,226,216,147,14,79,122,238>>, <<191,225,48,83,238,52,190,159>>, <<191,222,237,150,112,187,149,229>>, <<191,219,91,105,252,147,116,48>>,
            <<191,215,173,185,235,172,206,245>>, <<191,211,232,57,85,205,196,60>>, <<191,208,14,179,70,63,149,160>>, <<191,200,74,13,214,97,109,75>>,
            <<191,192,94,71,97,171,135,107>>, <<191,176,196,21,48,213,246,4>>, <<191,103,87,220,204,117,122,179>>, <<63,174,158,166,106,184,33,154>>,
            <<63,191,73,255,126,224,57,60>>, <<63,199,146,153,231,137,75,82>>, <<63,207,104,126,210,137,209,181>>, <<63,211,143,102,140,10,95,99>>,
            <<63,215,86,225,138,110,180,36>>, <<63,219,6,227,91,216,2,141>>, <<63,222,155,182,147,87,24,74>>, <<63,225,8,224,141,67,203,254>>,
            <<63,226,178,195,232,120,182,174>>, <<63,228,73,217,6,35,40,27>>, <<63,229,204,134,122,251,155,210>>, <<63,231,57,71,97,94,248,10>>,
            <<63,232,142,172,224,111,146,82>>, <<63,233,203,95,157,9,62,208>>, <<63,234,238,33,19,20,208,75>>, <<63,235,245,204,213,224,92,251>>,
            <<63,236,225,89,182,57,127,126>>, <<63,237,175,218,205,34,65,160>>, <<63,238,96,128,106,20,57,170>>, <<63,238,242,152,227,226,53,111>>,
            <<63,239,101,145,75,102,112,99>>, <<63,239,184,245,255,73,174,113>>, <<63,239,236,115,32,78,114,34>>, <<63,239,255,212,229,171,119,158>>,
            <<63,239,243,7,209,32,153,120>>, <<63,239,198,24,194,145,178,151>>, <<63,239,121,52,235,19,210,18>>, <<63,239,12,169,159,121,185,3>>,
            <<63,238,128,228,10,141,112,13>>, <<63,237,214,112,191,69,9,245>>, <<63,237,13,251,43,97,33,135>>, <<63,236,40,76,235,3,63,37>>,
            <<63,235,38,76,253,233,97,214>>, <<63,234,8,254,223,26,235,151>>, <<63,232,209,129,127,240,73,220>>, <<63,231,129,14,39,123,240,126>>,
            <<63,230,24,247,55,118,251,56>>, <<63,228,154,166,215,238,79,248>>, <<63,227,7,157,139,6,74,7>>, <<63,225,97,112,170,67,166,188>>,
            <<63,223,83,145,157,188,225,181>>, <<63,219,196,192,77,113,171,238>>, <<63,216,26,1,111,78,227,138>>, <<63,212,87,5,37,149,79,171>>,
            <<63,208,127,147,243,143,68,104>>, <<63,201,47,21,222,253,96,89>>, <<63,193,69,175,191,178,40,171>>, <<63,178,149,213,30,237,112,25>>,
            <<63,132,108,204,209,202,253,60>>, <<191,170,250,102,136,244,62,253>>, <<191,189,122,111,29,206,165,155>>, <<191,198,173,2,155,173,50,140>>,
            <<191,206,133,255,84,2,20,111>>, <<191,211,32,36,153,152,76,60>>, <<191,214,234,13,74,59,241,82>>, <<191,218,156,234,66,14,82,182>>,
            <<191,222,53,3,52,199,153,244>>, <<191,224,215,93,96,188,156,192>>, <<191,226,131,73,10,159,92,83>>, <<191,228,28,150,55,153,203,74>>,
            <<191,229,161,169,65,18,77,226>>, <<191,231,16,250,216,75,153,194>>, <<191,232,105,25,143,242,62,222>>, <<191,233,168,171,79,168,248,255>>,
            <<191,234,206,110,176,29,134,201>>, <<191,235,217,60,62,72,52,144>>, <<191,236,200,7,164,145,36,116>>, <<191,237,153,224,184,176,17,240>>,
            <<191,238,77,244,109,55,142,38>>, <<191,238,227,141,165,216,143,249>>, <<191,239,90,21,237,136,218,113>>, <<191,239,177,22,13,213,24,44>>,
            <<191,239,232,54,134,198,133,241>>, <<191,239,255,63,230,227,112,247>>, <<191,239,246,27,2,242,47,158>>, <<191,239,204,209,13,70,97,138>>,
            <<191,239,131,139,140,129,27,104>>, <<191,239,26,148,49,205,66,119>>, <<191,238,146,84,142,194,18,51>>, <<191,237,235,85,171,54,114,144>>,
            <<191,237,38,63,123,111,185,109>>, <<191,236,67,216,55,54,159,34>>, <<191,235,69,3,146,124,63,245>>, <<191,234,42,193,216,87,123,145>>,
            <<191,232,246,46,233,65,96,98>>, <<191,231,168,129,29,147,136,43>>, <<191,230,67,8,13,103,168,69>>, <<191,228,199,43,63,18,126,166>>,
            <<191,227,54,104,189,141,14,200>>, <<191,225,146,83,152,56,89,2>>, <<191,223,185,36,154,251,155,152>>, <<191,220,45,186,67,199,219,255>>,
            <<191,216,133,248,202,133,211,187>>, <<191,212,197,141,79,172,176,19>>, <<191,208,240,61,193,242,246,93>>, <<191,202,19,202,37,168,145,99>>,
            <<191,194,44,222,171,236,66,10>>, <<191,180,103,87,61,65,119,100>>, <<191,145,129,175,65,43,86,95>>, <<63,167,85,204,237,164,114,107>>,
            <<63,187,170,124,178,139,156,51>>, <<63,197,199,31,229,79,254,59>>, <<63,205,163,26,81,106,44,23>>, <<63,210,176,163,11,99,26,59>>,
            <<63,214,124,236,212,132,80,47>>, <<63,218,50,152,165,163,147,150>>, <<63,221,205,235,95,127,123,237>>, <<63,224,165,162,49,82,115,154>>,
            <<63,226,83,144,154,177,163,5>>, <<63,227,239,16,133,183,42,141>>, <<63,229,118,132,21,208,133,168>>, <<63,230,232,97,152,59,141,191>>,
            <<63,232,67,53,15,251,203,111>>, <<63,233,133,161,171,249,228,70>>, <<63,234,174,99,37,213,101,46>>, <<63,235,188,79,8,7,141,134>>,
            <<63,236,174,85,218,15,88,186>>, <<63,237,131,132,49,121,1,40>>, <<63,238,59,3,166,174,2,49>>, <<63,238,212,27,172,151,212,142>>,
            <<63,239,78,50,74,60,29,68>>, <<63,239,168,204,181,151,241,176>>, <<63,239,227,143,207,30,72,187>>, <<63,239,254,64,125,93,103,221>>,
            <<63,239,248,195,232,111,44,238>>, <<63,239,211,31,148,248,104,70>>, <<63,239,141,121,94,156,24,180>>, <<63,239,40,23,81,232,43,94>>,
            <<63,238,163,95,101,226,0,44>>, <<63,237,255,215,21,121,136,112>>, <<63,237,62,34,217,74,68,33>>, <<63,236,95,5,130,48,229,221>>,
            <<63,235,99,95,117,92,75,133>>, <<63,234,76,45,202,158,126,190>>, <<63,233,26,137,77,225,6,216>>, <<63,231,207,165,100,188,117,214>>,
            <<63,230,108,206,217,78,253,227>>, <<63,228,243,106,139,137,118,171>>, <<63,227,100,244,10,66,251,26>>, <<63,225,194,252,21,124,76,157>>,
            <<63,224,15,39,11,83,1,110>>, <<63,220,150,86,130,115,154,224>>, <<63,216,241,158,150,61,162,128>>, <<63,213,51,208,100,119,150,247>>,
            <<63,209,96,175,58,183,120,36>>, <<63,202,248,39,177,193,60,81>>, <<63,195,19,209,37,121,84,253>>, <<63,182,56,149,127,157,110,185>>,
            <<63,152,204,189,224,25,152,154>>, <<191,163,176,229,182,117,168,64>>, <<191,185,218,46,68,26,36,121>>, <<191,196,224,244,193,1,76,151>>,
            <<191,204,191,210,189,94,254,233>>, <<191,210,64,227,84,68,134,152>>, <<191,214,15,129,148,55,220,231>>, <<191,217,199,239,232,48,253,30>>,
            <<191,221,102,112,106,93,129,207>>, <<191,224,115,175,164,107,47,124>>, <<191,226,35,155,55,101,107,43>>, <<191,227,193,72,135,225,143,92>>,
            <<191,229,75,23,136,180,165,44>>, <<191,230,191,124,40,53,26,156>>, <<191,232,28,255,222,146,117,18>>, <<191,233,98,67,38,131,133,161>>,
            <<191,234,141,254,222,208,18,156>>, <<191,235,159,5,147,82,230,189>>, <<191,236,148,68,172,40,197,54>>, <<191,237,108,197,129,219,231,230>>,
            <<191,238,39,174,85,117,212,213>>, <<191,238,196,67,43,126,66,53>>, <<191,239,65,230,137,10,218,22>>, <<191,239,160,26,18,33,120,226>>,
            <<191,239,222,127,8,205,220,223>>, <<191,239,252,214,172,106,209,122>>, <<191,239,251,2,120,191,5,80>>, <<191,239,217,4,68,174,29,8>>,
            <<191,239,150,254,64,95,26,78>>, <<191,239,53,50,210,217,252,184>>, <<191,238,180,4,87,63,31,86>>, <<191,238,19,244,185,219,158,122>>,
            <<191,237,85,164,245,126,18,45>>, <<191,236,121,212,113,143,72,161>>, <<191,235,129,96,65,145,134,118>>, <<191,234,109,66,70,200,70,196>>,
            <<191,233,62,144,52,231,177,204>>, <<191,231,246,122,122,200,228,253>>, <<191,230,150,75,16,59,214,52>>, <<191,229,31,100,42,42,132,239>>,
            <<191,227,147,62,214,91,189,210>>, <<191,225,243,105,128,59,58,191>>, <<191,224,65,134,96,36,185,227>>, <<191,220,254,147,173,138,76,25>>,
            <<191,217,92,241,108,113,148,190>>, <<191,213,161,204,245,63,74,233>>, <<191,209,208,230,231,229,48,6>>, <<191,203,220,43,139,197,208,119>>,
            <<191,195,250,132,44,65,237,17>>, <<191,184,9,137,218,175,40,173>>, <<191,160,11,189,2,21,165,244>>, <<63,160,11,189,2,21,234,90>>,
            <<63,184,9,137,218,175,74,189>>, <<63,195,250,132,44,65,222,91>>, <<63,203,220,43,139,197,193,238>>, <<63,209,208,230,231,229,40,223>>,
            <<63,213,161,204,245,63,82,246>>, <<63,217,92,241,108,113,156,153>>, <<63,220,254,147,173,138,83,185>>, <<63,224,65,134,96,36,189,146>>,
            <<63,225,243,105,128,59,62,74>>, <<63,227,147,62,214,91,193,52>>, <<63,229,31,100,42,42,136,37>>, <<63,230,150,75,16,59,211,145>>,
            <<63,231,246,122,122,200,226,134>>, <<63,233,62,144,52,231,175,130>>, <<63,234,109,66,70,200,73,46>>, <<63,235,129,96,65,145,136,166>>,
            <<63,236,121,212,113,143,74,149>>, <<63,237,85,164,245,126,19,226>>, <<63,238,19,244,185,219,157,53>>, <<63,238,180,4,87,63,32,139>>,
            <<63,239,53,50,210,217,251,229>>, <<63,239,150,254,64,95,26,252>>, <<63,239,217,4,68,174,29,114>>, <<63,239,251,2,120,191,5,119>>,
            <<63,239,252,214,172,106,209,92>>, <<63,239,222,127,8,205,220,124>>, <<63,239,160,26,18,33,120,59>>, <<63,239,65,230,137,10,217,44>>,
            <<63,238,196,67,43,126,67,59>>, <<63,238,39,174,85,117,214,20>>, <<63,237,108,197,129,219,233,92>>, <<63,236,148,68,172,40,195,73>>,
            <<63,235,159,5,147,82,228,148>>, <<63,234,141,254,222,208,16,57>>, <<63,233,98,67,38,131,131,6>>, <<63,232,28,255,222,146,119,132>>,
            <<63,230,191,124,40,53,23,154>>, <<63,229,75,23,136,180,167,243>>, <<63,227,193,72,135,225,146,73>>, <<63,226,35,155,55,101,110,60>>,
            <<63,224,115,175,164,107,43,208>>, <<63,221,102,112,106,93,122,54>>, <<63,217,199,239,232,48,245,74>>, <<63,214,15,129,148,55,212,224>>,
            <<63,210,64,227,84,68,126,101>>, <<63,204,191,210,189,95,13,108>>, <<63,196,224,244,193,1,91,72>>, <<63,185,218,46,68,26,66,27>>,
            <<63,163,176,229,182,117,99,222>>, <<191,152,204,189,224,26,33,109>>, <<191,182,56,149,127,157,144,207>>, <<191,195,19,209,37,121,101,232>>,
            <<191,202,248,39,177,193,77,11>>, <<191,209,96,175,58,183,128,95>>, <<191,213,51,208,100,119,143,241>>, <<191,216,241,158,150,61,155,165>>,
            <<191,220,150,86,130,115,148,54>>, <<191,224,15,39,11,83,5,33>>, <<191,225,194,252,21,124,80,43>>, <<191,227,100,244,10,66,254,129>>,
            <<191,228,243,106,139,137,121,230>>, <<191,230,108,206,217,79,0,240>>, <<191,231,207,165,100,188,115,89>>, <<191,233,26,137,77,225,4,137>>,
            <<191,234,76,45,202,158,124,159>>, <<191,235,99,95,117,92,77,187>>, <<191,236,95,5,130,48,235,139>>, <<191,237,62,34,217,74,69,222>>,
            <<191,237,255,215,21,121,137,237>>, <<191,238,163,95,101,226,1,104>>, <<191,239,40,23,81,232,44,88>>, <<191,239,141,121,94,156,24,22>>,
            <<191,239,211,31,148,248,103,226>>, <<191,239,248,195,232,111,44,198>>, <<191,239,254,64,125,93,103,198>>, <<191,239,227,143,207,30,72,95>>,
            <<191,239,168,204,181,151,241,17>>, <<191,239,78,50,74,60,28,97>>, <<191,238,212,27,172,151,211,105>>, <<191,238,59,3,166,174,3,105>>,
            <<191,237,131,132,49,121,2,153>>, <<191,236,174,85,218,15,90,96>>, <<191,235,188,79,8,7,139,100>>, <<191,234,174,99,37,213,103,60>>,
            <<191,233,133,161,171,249,225,177>>, <<191,232,67,53,15,251,200,165>>, <<191,230,232,97,152,59,138,195>>, <<191,229,118,132,21,208,130,124>>,
            <<191,227,239,16,133,183,45,119>>, <<191,226,83,144,154,177,166,18>>, <<191,224,165,162,49,82,118,200>>, <<191,221,205,235,95,127,116,92>>,
            <<191,218,50,152,165,163,139,200>>, <<191,214,124,236,212,132,72,45>>, <<191,210,176,163,11,99,18,12>>, <<191,205,163,26,81,106,27,115>>,
            <<191,197,199,31,229,79,237,95>>, <<191,187,170,124,178,139,122,47>>, <<191,167,85,204,237,164,173,237>>, <<63,145,129,175,65,43,223,55>>,
            <<63,180,103,87,61,65,89,179>>, <<63,194,44,222,171,236,82,250>>, <<63,202,19,202,37,168,162,35>>, <<63,208,240,61,193,242,254,157>>,
            <<63,212,197,141,79,172,184,42>>, <<63,216,133,248,202,133,204,219>>, <<63,220,45,186,67,199,213,80>>, <<63,223,185,36,154,251,149,33>>,
            <<63,225,146,83,152,56,92,149>>, <<63,227,54,104,189,141,18,52>>, <<63,228,199,43,63,18,129,230>>, <<63,230,67,8,13,103,177,23>>,
            <<63,231,168,129,29,147,139,12>>, <<63,232,246,46,233,65,99,15>>, <<63,234,42,193,216,87,126,7>>, <<63,235,69,3,146,124,62,3>>,
            <<63,236,67,216,55,54,161,35>>, <<63,237,38,63,123,111,183,228>>, <<63,237,235,85,171,54,116,21>>, <<63,238,146,84,142,194,19,118>>,
            <<63,239,26,148,49,205,67,120>>, <<63,239,131,139,140,129,28,38>>, <<63,239,204,209,13,70,97,32>>, <<63,239,246,27,2,242,47,111>>,
            <<63,239,255,63,230,227,113,4>>, <<63,239,232,54,134,198,133,157>>, <<63,239,177,22,13,213,23,148>>, <<63,239,90,21,237,136,217,150>>,
            <<63,238,227,141,165,216,142,219>>, <<63,238,77,244,109,55,140,198>>, <<63,237,153,224,184,176,16,80>>, <<63,236,200,7,164,145,34,149>>,
            <<63,235,217,60,62,72,54,101>>, <<63,234,206,110,176,29,136,209>>, <<63,233,168,171,79,168,251,56>>, <<63,232,105,25,143,242,60,26>>,
            <<63,231,16,250,216,75,150,203>>, <<63,229,161,169,65,18,74,187>>, <<63,228,28,150,55,153,199,246>>, <<63,226,131,73,10,159,95,93>>,
            <<63,224,215,93,96,188,153,29>>, <<63,222,53,3,52,199,160,133>>, <<63,218,156,234,66,14,89,123>>, <<63,214,234,13,74,59,233,86>>,
            <<63,211,32,36,153,152,68,18>>, <<63,206,133,255,84,2,3,210>>, <<63,198,173,2,155,173,33,182>>, <<63,189,122,111,29,206,131,158>>,
            <<63,170,250,102,136,243,250,167>>, <<191,132,108,204,209,202,14,249>>, <<191,178,149,213,30,237,82,100>>, <<191,193,69,175,191,178,25,234>>,
            <<191,201,47,21,222,253,113,31>>, <<191,208,127,147,243,143,76,172>>, <<191,212,87,5,37,149,87,200>>, <<191,216,26,1,111,78,235,119>>,
            <<191,219,196,192,77,113,179,163>>, <<191,223,83,145,157,188,233,43>>, <<191,225,97,112,170,67,163,155>>, <<191,227,7,157,139,6,71,9>>,
            <<191,228,154,166,215,238,83,62>>, <<191,230,24,247,55,118,254,80>>, <<191,231,129,14,39,123,243,101>>, <<191,232,209,129,127,240,76,143>>,
            <<191,234,8,254,223,26,238,19>>, <<191,235,38,76,253,233,100,25>>, <<191,236,40,76,235,3,61,96>>, <<191,237,13,251,43,97,31,248>>,
            <<191,237,214,112,191,69,8,157>>, <<191,238,128,228,10,141,113,88>>, <<191,239,12,169,159,121,186,12>>, <<191,239,121,52,235,19,210,216>>,
            <<191,239,198,24,194,145,179,25>>, <<191,239,243,7,209,32,153,181>>, <<191,239,255,212,229,171,119,151>>, <<191,239,236,115,32,78,114,100>>,
            <<191,239,184,245,255,73,174,238>>, <<191,239,101,145,75,102,113,27>>, <<191,238,242,152,227,226,52,88>>, <<191,238,96,128,106,20,56,82>>,
            <<191,237,175,218,205,34,64,7>>, <<191,236,225,89,182,57,125,166>>, <<191,235,245,204,213,224,90,231>>, <<191,234,238,33,19,20,210,77>>,
            <<191,233,203,95,157,9,65,4>>, <<191,232,142,172,224,111,148,181>>, <<191,231,57,71,97,94,245,24>>, <<191,229,204,134,122,251,152,176>>,
            <<191,228,73,217,6,35,36,205>>, <<191,226,178,195,232,120,179,54>>, <<191,225,8,224,141,67,200,95>>, <<191,222,155,182,147,87,16,199>>,
            <<191,219,6,227,91,216,9,77>>, <<191,215,86,225,138,110,187,19>>, <<191,211,143,102,140,10,102,122>>, <<191,207,104,126,210,137,193,32>>,
            <<191,199,146,153,231,137,58,129>>, <<191,191,73,255,126,224,23,70>>, <<191,174,158,166,106,183,221,75>>, <<63,103,87,220,204,121,193,155>>,
            <<63,176,196,21,48,213,216,75>>, <<63,192,94,71,97,171,152,98>>, <<63,200,74,13,214,97,94,172>>, <<63,208,14,179,70,63,157,231>>,
            <<63,211,232,57,85,205,204,93>>, <<63,215,173,185,235,172,214,232>>, <<63,219,91,105,252,147,123,236>>, <<63,222,237,150,112,187,157,99>>,
            <<63,225,48,83,238,52,194,58>>, <<63,226,216,147,14,79,119,236>>, <<63,228,109,221,234,43,117,35>>, <<63,229,238,156,227,100,76,102>>,
            <<63,231,89,77,5,169,32,195>>, <<63,232,172,129,139,233,98,96>>, <<63,233,230,229,79,49,239,254>>, <<63,235,7,60,29,201,92,22>>,
            <<63,236,12,99,249,50,55,110>>, <<63,236,245,86,57,211,161,145>>, <<63,237,193,40,151,34,238,86>>, <<63,238,111,14,19,68,84,166>>,
            <<63,238,254,87,201,54,26,23>>, <<63,239,110,117,156,182,124,40>>, <<63,239,190,246,203,51,196,248>>, <<63,239,239,138,93,52,127,90>>,
            <<63,239,255,255,119,197,243,20>>, <<63,239,240,69,141,158,219,38>>, <<63,239,192,108,111,197,4,87>>, <<63,239,112,164,61,165,6,202>>,
            <<63,239,1,61,52,172,41,78>>, <<63,238,114,167,95,149,2,200>>, <<63,237,197,114,37,184,40,91>>, <<63,236,250,75,186,210,26,105>>,
            <<63,236,18,0,111,207,131,221>>, <<63,235,13,121,229,80,44,85>>, <<63,233,237,190,32,174,245,229>>, <<63,232,179,238,132,123,136,60>>,
            <<63,231,97,70,173,110,153,67>>, <<63,229,247,27,52,253,79,57>>, <<63,228,118,216,90,203,124,72>>, <<63,226,226,0,150,84,148,110>>,
            <<63,225,58,43,18,60,130,196>>, <<63,223,2,4,37,157,19,165>>, <<63,219,112,130,146,141,165,48>>, <<63,215,195,104,43,42,23,173>>,
            <<63,211,254,103,112,179,27,76>>, <<63,208,37,74,237,218,215,229>>, <<63,200,119,226,205,79,107,155>>, <<63,192,140,147,232,1,222,164>>,
            <<63,177,33,64,59,54,169,94>>, <<63,113,129,227,168,119,233,29>>, <<191,173,228,58,255,248,184,193>>, <<191,190,237,81,38,240,116,141>>,
            <<191,199,100,181,5,141,29,82>>, <<191,207,59,58,98,218,203,36>>, <<191,211,121,43,80,211,80,201>>, <<191,215,65,35,167,190,5,245>>,
            <<191,218,241,184,175,130,205,99>>, <<191,222,135,52,103,35,202,112>>, <<191,224,254,254,7,98,136,10>>, <<191,226,169,73,227,219,253,185>>,
            <<191,228,64,209,10,188,98,228>>, <<191,229,195,249,158,11,107,249>>, <<191,231,49,62,60,82,142,21>>, <<191,232,135,47,136,58,197,247>>,
            <<191,233,196,117,154,5,147,214>>, <<191,234,231,209,89,110,33,129>>, <<191,235,240,29,190,150,115,36>>, <<191,236,220,80,248,189,186,67>>,
            <<191,237,171,125,121,151,202,166>>, <<191,238,92,210,228,56,104,41>>, <<191,238,239,158,222,162,87,111>>, <<191,239,99,77,197,39,125,39>>,
            <<191,239,183,107,62,229,114,88>>, <<191,239,235,162,178,201,91,71>>, <<191,239,255,191,156,165,78,31>>, <<191,239,243,173,194,1,170,92>>,
            <<191,239,199,121,70,117,72,164>>, <<191,239,123,78,159,112,12,50>>, <<191,239,15,122,103,132,36,163>>, <<191,238,132,105,17,90,229,28>>,
            <<191,237,218,166,122,162,194,32>>, <<191,237,18,221,95,100,37,75>>, <<191,236,45,214,174,74,129,188>>, <<191,235,44,120,190,142,92,81>>,
            <<191,234,15,198,104,75,183,52>>, <<191,232,216,222,0,45,131,2>>, <<191,231,136,248,55,116,66,167>>, <<191,230,33,102,225,121,100,168>>,
            <<191,228,163,147,159,235,100,105>>, <<191,227,16,254,119,24,200,244>>, <<191,225,107,60,75,183,158,175>>, <<191,223,103,234,151,91,121,174>>,
            <<191,219,217,198,134,231,71,40>>, <<191,216,47,159,195,125,130,204>>, <<191,212,109,37,214,100,142,24>>, <<191,208,150,32,191,202,202,231>>,
            <<191,201,92,218,82,111,103,195>>, <<191,193,115,241,6,107,138,197>>, <<191,178,242,244,72,115,3,207>>, <<191,135,87,189,190,149,106,48>>,
            <<63,170,63,232,52,56,5,202>>, <<63,189,29,172,174,217,239,173>>, <<63,198,127,14,103,69,140,234>>, <<63,206,88,166,90,103,228,32>>,
            <<63,211,9,220,135,255,173,133>>, <<63,214,212,64,12,166,246,244>>, <<63,218,135,173,197,195,167,103>>, <<63,222,32,108,213,119,204,243>>,
            <<63,224,205,111,153,225,236,33>>, <<63,226,121,194,168,239,153,212>>, <<63,228,19,128,207,117,144,113>>, <<63,229,153,13,245,58,186,65>>,
            <<63,231,8,226,80,177,250,112>>, <<63,232,97,139,241,3,142,244>>, <<63,233,161,176,50,29,106,255>>, <<63,234,200,13,25,84,149,162>>,
            <<63,235,211,122,153,57,19,185>>, <<63,236,194,235,187,86,59,41>>, <<63,237,149,111,174,180,109,113>>, <<63,238,74,50,186,11,239,3>>,
            <<63,238,224,127,16,181,65,9>>, <<63,239,87,189,137,128,230,106>>, <<63,239,175,118,54,190,191,193>>, <<63,239,231,80,222,219,229,119>>,
            <<63,239,255,21,85,29,232,163>>, <<63,239,246,171,178,34,17,15>>, <<63,239,206,28,107,231,228,148>>, <<63,239,133,144,77,78,182,27>>,
            <<63,239,29,80,77,14,212,102>>, <<63,238,149,197,68,87,162,133>>, <<63,237,239,119,133,92,78,118>>, <<63,237,43,14,82,57,81,152>>,
            <<63,236,73,79,52,188,154,234>>, <<63,235,75,29,55,185,103,192>>, <<63,234,49,120,2,175,234,195>>, <<63,232,253,122,216,174,27,34>>,
            <<63,231,176,91,123,108,93,76>>, <<63,230,75,104,243,196,197,165>>, <<63,228,208,10,64,189,207,29>>, <<63,227,63,188,238,123,225,43>>,
            <<63,225,156,19,150,132,155,30>>, <<63,223,205,104,149,171,29,31>>, <<63,220,66,173,218,204,140,90>>, <<63,216,155,134,235,127,119,115>>,
            <<63,212,219,160,76,206,17,216>>, <<63,209,6,191,103,207,82,160>>, <<63,202,65,125,125,103,135,211>>, <<63,194,91,20,25,50,174,12>>,
            <<63,180,196,105,80,54,78,233>>, <<63,146,247,30,3,77,135,28>>, <<191,166,155,62,27,42,2,252>>, <<191,187,77,167,97,18,235,0>>,
            <<191,197,153,28,247,82,205,72>>, <<191,205,117,173,100,182,59,50>>, <<191,210,154,78,109,131,181,147>>, <<191,214,103,16,132,141,97,30>>,
            <<191,218,29,74,160,4,76,77>>, <<191,221,185,65,17,139,118,167>>, <<191,224,155,169,74,131,221,213>>, <<191,226,73,253,251,156,119,240>>,
            <<191,227,229,237,207,11,107,129>>, <<191,229,109,218,119,177,84,226>>, <<191,230,224,57,201,1,162,201>>, <<191,232,59,151,67,114,36,85>>,
            <<191,233,126,149,139,30,20,241>>, <<191,234,167,239,199,35,70,114>>, <<191,235,182,122,232,88,75,3>>, <<191,236,169,38,214,19,45,74>>,
            <<191,237,126,255,127,209,204,203>>, <<191,238,55,45,210,177,15,4>>, <<191,238,208,248,145,187,208,38>>, <<191,239,75,197,16,55,245,87>>,
            <<191,239,167,23,205,54,127,204>>, <<191,239,226,148,239,201,236,16>>, <<191,239,254,0,163,102,20,169>>, <<191,239,249,63,84,12,173,208>>,
            <<191,239,212,85,202,9,196,149>>, <<191,239,143,105,37,36,110,133>>, <<191,239,42,190,183,72,119,35>>, <<191,238,166,187,190,206,145,123>>,
            <<191,238,3,229,0,169,71,102>>, <<191,237,66,222,66,220,223,137>>, <<191,236,100,105,167,200,199,139>>, <<191,235,105,102,234,231,222,112>>,
            <<191,234,82,210,127,204,64,158>>, <<191,233,33,196,148,56,204,154>>, <<191,231,215,111,246,87,168,77>>, <<191,230,117,32,224,41,52,103>>,
            <<191,228,252,59,169,98,5,34>>, <<191,227,110,59,97,7,108,175>>, <<191,225,204,176,80,51,136,159>>, <<191,224,25,62,103,128,15,161>>,
            <<191,220,171,55,49,89,4,212>>, <<191,217,7,28,60,81,247,29>>, <<191,213,73,213,100,128,188,162>>, <<191,209,119,37,111,90,127,42>>,
            <<191,203,37,201,85,206,237,251>>, <<191,195,65,250,31,157,243,79>>, <<191,182,149,153,70,120,52,104>>, <<191,154,66,30,19,254,24,165>>,
            <<63,162,246,72,210,178,117,102>>, <<63,185,125,71,68,220,189,147>>, <<63,196,178,227,178,117,117,199>>, <<63,204,146,82,116,165,46,248>>,
            <<63,210,42,130,116,98,241,1>>, <<63,213,249,150,122,147,98,16>>, <<63,217,178,144,160,24,56,34>>, <<63,221,81,178,114,128,14,61>>,
            <<63,224,105,171,190,211,53,13>>, <<63,226,25,252,122,193,45,132>>, <<63,227,184,24,161,16,114,155>>, <<63,229,66,95,181,29,81,40>>,
            <<63,230,183,69,44,122,148,5>>, <<63,232,21,81,253,194,145,145>>, <<63,233,91,38,25,199,181,82>>, <<63,234,135,121,205,168,240,220>>,
            <<63,235,153,31,12,102,21,25>>, <<63,236,143,2,158,168,195,62>>, <<63,237,104,45,55,144,25,175>>, <<63,238,35,196,109,104,238,56>>,
            <<63,238,193,11,149,88,134,216>>, <<63,239,63,100,129,28,152,212>>, <<63,239,158,80,30,34,3,220>>, <<63,239,221,110,245,82,30,216>>,
            <<63,239,252,129,139,22,15,186>>, <<63,239,251,104,159,47,171,21>>, <<63,239,218,37,76,39,159,226>>, <<63,239,152,217,6,49,79,211>>,
            <<63,239,55,197,121,133,111,162>>, <<63,238,183,76,72,85,84,124>>, <<63,238,23,238,168,153,75,150>>, <<63,237,90,76,226,28,190,234>>,
            <<63,236,127,37,173,74,232,165>>, <<63,235,135,85,115,94,54,21>>, <<63,234,115,213,112,179,25,255>>, <<63,233,69,186,186,29,126,225>>,
            <<63,231,254,53,38,60,222,243>>, <<63,230,158,142,27,231,13,170>>, <<63,229,40,39,70,221,127,113>>, <<63,227,156,121,52,25,204,34>>,
            <<63,225,253,17,215,23,91,23>>, <<63,224,75,146,249,151,51,150>>, <<63,221,19,97,46,224,216,229>>, <<63,217,114,94,80,39,7,60>>,
            <<63,213,183,195,174,244,151,157>>, <<63,209,231,81,96,154,135,72>>, <<63,204,9,186,228,95,8,153>>, <<63,196,40,160,25,191,78,18>>,
            <<63,184,102,126,32,22,19,168>>, <<63,160,198,99,104,3,236,160>>, <<191,158,162,40,243,94,95,234>>, <<191,183,172,146,98,167,63,137>>,
            <<191,195,204,101,150,93,4,23>>, <<191,203,174,152,126,90,56,43>>, <<191,209,186,122,16,110,157,54>>, <<191,213,139,211,90,210,242,221>>,
            <<191,217,71,129,40,243,252,144>>, <<191,220,233,194,80,191,119,76>>, <<191,224,55,119,157,18,126,45>>, <<191,225,233,190,198,6,156,131>>,
            <<191,227,138,1,221,243,79,251>>, <<191,229,22,158,62,25,180,149>>, <<191,230,142,5,3,82,222,28>>, <<191,231,238,188,159,60,236,248>>,
            <<191,233,55,98,83,244,101,208>>, <<191,234,102,171,152,219,42,96>>, <<191,235,123,103,103,6,239,94>>, <<191,236,116,127,108,8,53,91>>,
            <<191,237,80,249,33,213,206,53>>, <<191,238,15,246,202,194,245,98>>, <<191,238,176,184,80,130,200,202>>, <<191,239,50,156,5,88,233,153>>,
            <<191,239,149,31,70,180,183,169>>, <<191,239,215,223,0,147,224,15>>, <<191,239,250,152,17,39,246,4>>, <<191,239,253,39,140,90,223,248>>,
            <<191,239,223,138,222,238,67,46>>, <<191,239,161,223,209,18,134,234>>, <<191,239,68,100,104,114,230,60>>, <<191,238,199,118,169,212,154,80>>,
            <<191,238,43,148,58,135,250,97>>, <<191,237,113,89,226,10,124,101>>, <<191,236,153,130,236,88,236,61>>, <<191,235,164,232,109,144,33,94>>,
            <<191,234,148,128,103,154,3,160>>, <<191,233,105,92,210,194,12,146>>, <<191,232,36,170,138,42,115,225>>, <<191,230,199,176,29,55,10,226>>,
            <<191,229,83,204,135,29,220,52>>, <<191,227,202,117,205,232,96,37>>, <<191,226,45,55,138,71,206,42>>, <<191,224,125,177,89,183,13,153>>,
            <<191,221,123,42,120,245,105,212>>, <<191,217,221,75,194,69,190,85>>, <<191,214,37,105,190,140,233,35>>, <<191,210,87,65,198,127,15,112>>,
            <<191,204,237,79,50,253,174,5>>, <<191,197,15,3,8,125,181,12>>, <<191,186,55,17,210,230,92,32>>, <<191,164,107,127,251,156,85,106>>,
            <<63,151,87,90,95,157,135,174>>, <<63,181,219,142,195,252,58,112>>, <<63,194,229,165,161,158,72,170>>, <<63,202,202,130,119,54,216,188>>,
            <<63,209,74,54,182,65,6,98>>, <<63,213,29,200,146,89,15,30>>, <<63,216,220,29,158,168,62,15>>, <<63,220,129,114,5,247,227,15>>,
            <<63,224,5,13,140,57,195,74>>, <<63,225,185,69,125,221,211,3>>, <<63,227,91,170,30,252,178,142>>, <<63,228,234,150,164,44,195,166>>,
            <<63,230,100,121,214,187,224,7>>, <<63,231,199,215,168,51,187,22>>, <<63,233,19,74,176,150,183,167>>, <<63,234,69,133,149,213,7,184>>,
            <<63,235,93,84,91,16,159,182>>, <<63,236,89,157,150,94,153,30>>, <<63,237,57,99,139,206,171,44>>, <<63,237,251,197,44,155,230,199>>,
            <<63,238,159,254,249,134,39,7>>, <<63,239,37,107,199,112,166,131>>, <<63,239,139,133,101,127,195,80>>, <<63,239,209,229,36,15,6,174>>,
            <<63,239,248,68,59,247,177,254>>, <<63,239,254,124,21,191,229,48>>, <<63,239,228,134,112,106,202,139>>, <<63,239,170,125,103,194,197,231>>,
            <<63,239,80,155,90,23,74,166>>, <<63,238,215,58,173,136,206,150>>, <<63,238,62,213,117,29,204,60>>, <<63,237,136,4,245,252,94,100>>,
            <<63,236,179,129,13,67,234,111>>, <<63,235,194,31,119,33,206,154>>, <<63,234,180,210,247,219,43,171>>, <<63,233,140,170,103,163,219,71>>,
            <<63,232,74,207,162,56,72,96>>, <<63,230,240,134,91,76,24,7>>, <<63,229,127,42,216,250,178,152>>, <<63,227,248,48,149,129,117,141>>,
            <<63,226,93,32,201,163,170,228>>, <<63,224,175,152,225,47,239,60>>, <<63,221,226,145,182,105,167,24>>, <<63,218,71,227,47,14,112,201>>,
            <<63,214,146,198,38,157,109,77>>, <<63,210,198,245,44,189,135,142>>, <<63,205,208,131,76,198,152,76>>, <<63,197,245,31,237,158,186,211>>,
            <<63,188,7,78,85,206,97,171>>, <<63,168,16,88,165,103,68,229>>, <<191,144,12,62,42,211,91,190>>, <<191,180,10,66,115,106,213,116>>,
            <<191,193,254,166,211,168,147,239>>, <<191,201,230,19,85,206,134,51>>, <<191,208,217,185,219,56,145,186>>, <<191,212,175,119,143,33,36,17>>,
            <<191,216,112,103,102,93,63,90>>, <<191,220,24,194,237,23,111,116>>, <<191,223,164,220,103,232,220,236>>, <<191,225,136,145,67,126,9,104>>,
            <<191,227,45,17,254,77,130,172>>, <<191,228,190,73,121,197,243,240>>, <<191,230,58,164,48,224,116,89>>, <<191,231,160,163,154,2,57,139>>,
            <<191,232,238,223,167,184,55,22>>, <<191,234,36,8,50,213,146,96>>, <<191,235,62,230,76,136,227,171>>, <<191,236,62,93,119,19,198,178>>,
            <<191,237,33,108,195,234,176,205>>, <<191,237,231,47,214,29,10,225>>, <<191,238,142,223,200,1,166,161>>, <<191,239,23,211,243,64,163,243>>,
            <<191,239,129,130,154,113,168,120>>, <<191,239,203,129,115,163,162,187>>, <<191,239,245,134,19,66,232,14>>, <<191,239,255,102,54,242,41,59>>,
            <<191,239,233,23,240,10,226,109>>, <<191,239,178,177,173,154,158,23>>, <<191,239,92,106,37,210,235,204>>, <<191,238,230,152,31,2,209,70>>,
            <<191,238,81,178,24,80,241,182>>, <<191,237,158,77,210,142,74,191>>, <<191,236,205,31,185,153,98,59>>, <<191,235,222,250,46,233,54,243>>,
            <<191,234,212,204,181,246,189,138>>, <<191,233,175,163,3,89,111,75>>, <<191,232,112,163,239,137,74,251>>, <<191,231,25,16,78,85,37,162>>,
            <<191,229,170,65,172,55,129,193>>, <<191,228,37,168,242,206,53,158>>, <<191,226,140,204,245,210,200,59>>, <<191,224,225,72,234,8,133,64>>,
            <<191,222,73,149,143,86,166,200>>, <<191,218,178,35,51,255,182,74>>, <<191,214,255,215,123,110,154,136>>, <<191,211,54,106,31,214,108,170>>,
            <<191,206,179,84,62,21,121,26>>, <<191,198,218,243,203,209,95,42>>, <<191,189,215,45,160,212,113,209>>, <<191,171,180,225,70,231,151,37>>,
            <<63,129,129,217,45,100,8,88>>, <<63,178,56,179,124,115,253,9>>, <<63,193,23,108,44,188,186,251>>, <<63,201,1,78,17,221,13,25>>,
            <<63,208,105,4,245,114,196,197>>, <<63,212,64,225,192,16,49,112>>, <<63,216,4,95,230,78,106,28>>, <<63,219,175,182,98,71,136,245>>,
            <<63,223,63,52,121,62,84,49>>, <<63,225,87,162,184,226,124,236>>, <<63,226,254,58,22,220,181,30>>, <<63,228,145,183,82,60,22,236>>,
            <<63,230,16,132,156,227,26,38>>, <<63,231,121,32,247,10,165,248>>, <<63,232,202,33,178,119,185,103>>, <<63,234,2,51,223,62,126,75>>,
            <<63,235,32,29,160,164,48,66>>, <<63,236,34,191,104,201,40,53>>, <<63,237,9,21,25,221,32,16>>, <<63,237,210,55,11,187,89,177>>,
            <<63,238,125,90,244,231,12,8>>, <<63,239,9,212,181,254,54,9>>, <<63,239,119,23,6,213,213,197>>, <<63,239,196,180,4,145,190,21>>,
            <<63,239,242,93,160,40,220,118>>, <<63,239,255,229,236,230,254,173>>, <<63,239,237,63,78,156,252,82>>, <<63,239,186,124,135,80,231,171>>,
            <<63,239,103,208,164,96,121,123>>, <<63,238,245,142,203,40,169,38>>, <<63,238,100,41,229,102,45,109>>, <<63,237,180,52,45,162,218,86>>,
            <<63,236,230,94,156,36,60,131>>, <<63,235,251,120,52,239,85,178>>, <<63,234,244,109,55,148,84,154>>, <<63,233,210,70,49,147,232,46>>,
            <<63,232,150,38,244,77,14,17>>, <<63,231,65,77,111,126,219,156>>, <<63,229,213,16,113,133,156,45>>, <<63,228,82,222,78,148,172,151>>,
            <<63,226,188,59,112,72,9,148>>, <<63,225,18,192,207,0,13,102>>, <<63,222,176,52,173,31,242,249>>, <<63,219,28,10,111,186,216,182>>,
            <<63,215,108,156,82,66,196,76>>, <<63,211,165,159,45,25,238,67>>, <<63,207,149,191,20,144,8,238>>, <<63,199,192,123,166,183,3,254>>,
            <<63,191,166,169,173,53,223,226>>, <<63,175,89,13,194,168,85,129>>, <<191,87,87,222,89,242,176,58>>, <<191,176,102,231,235,119,7,212>>,
            <<191,192,47,248,173,226,31,39>>, <<191,200,28,53,164,61,16,127>>, <<191,207,240,50,247,143,46,153>>, <<191,211,210,8,148,239,230,195>>,
            <<191,215,152,8,133,197,64,10>>, <<191,219,70,77,194,232,71,175>>, <<191,222,217,36,158,139,70,117>>, <<191,225,38,122,128,200,105,2>>,
            <<191,226,207,35,4,117,90,163>>, <<191,228,100,224,193,203,130,117>>, <<191,229,230,27,166,220,49,138>>, <<191,231,81,80,66,180,156,91>>,
            <<191,232,165,17,75,7,242,9>>, <<191,233,224,9,11,146,146,179>>, <<191,235,0,250,189,196,89,74>>, <<191,236,6,195,199,88,151,163>>,
            <<191,236,240,92,222,155,123,223>>, <<191,237,188,219,19,54,131,54>>, <<191,238,107,112,186,122,37,22>>, <<191,238,251,110,62,54,159,189>>,
            <<191,239,108,66,205,84,53,22>>, <<191,239,189,124,237,121,15,126>>, <<191,239,238,202,237,42,83,237>>, <<191,239,255,251,53,245,166,218>>,
            <<191,239,240,252,126,80,128,75>>, <<191,239,193,221,218,251,24,168>>, <<191,239,114,206,175,213,132,7>>, <<191,239,4,30,128,54,41,59>>,
            <<191,238,118,60,158,241,156,213>>, <<191,237,201,183,190,100,55,33>>, <<191,236,255,61,96,238,0,37>>, <<191,236,23,153,42,113,111,145>>,
            <<191,235,19,180,19,132,59,62>>, <<191,233,244,147,127,32,117,145>>, <<191,232,187,88,51,193,142,120>>, <<191,231,105,61,56,245,100,194>>,
            <<191,229,255,150,154,133,242,129>>, <<191,228,127,208,18,121,204,237>>, <<191,226,235,107,155,67,155,183>>, <<191,225,67,255,235,144,137,133>>,
            <<191,223,22,109,186,120,25,190>>, <<191,219,133,151,130,8,78,108>>, <<191,215,217,19,65,90,164,89>>, <<191,212,20,146,226,172,160,202>>,
            <<191,208,59,224,111,151,202,191>>, <<191,200,165,180,130,238,56,45>>, <<191,192,186,222,58,188,137,157>>, <<191,177,126,104,254,52,64,56>>,
            <<191,119,87,214,150,122,201,122>>, <<63,173,41,203,155,55,180,110>>, <<63,190,144,158,177,187,91,243>>, <<63,199,54,205,6,221,75,231>>,
            <<63,207,13,241,203,136,235,151>>, <<63,211,98,237,126,106,9,147>>, <<63,215,43,98,173,21,38,107>>, <<63,218,220,138,109,140,2,0>>,
            <<63,222,114,174,43,64,146,122>>, <<63,224,245,25,62,172,220,213>>, <<63,226,159,205,99,180,166,203>>, <<63,228,55,198,93,147,248,228>>,
            <<63,229,187,105,219,216,53,119>>, <<63,231,41,50,1,107,87,57>>, <<63,232,127,174,236,173,185,4>>, <<63,233,189,136,41,116,89,7>>,
            <<63,234,225,126,11,119,52,43>>, <<63,235,234,106,239,211,38,8>>, <<63,236,215,68,100,92,100,79>>, <<63,237,167,28,51,152,30,112>>,
            <<63,238,89,33,84,79,246,90>>, <<63,238,236,160,187,206,116,53>>, <<63,239,97,6,17,240,186,216>>, <<63,239,181,220,70,88,182,211>>,
            <<63,239,234,206,6,41,113,73>>, <<63,239,255,166,17,215,87,49>>, <<63,239,244,79,114,181,252,96>>, <<63,239,200,213,144,13,152,85>>,
            <<63,239,125,100,35,162,253,207>>, <<63,239,18,71,13,189,146,126>>, <<63,238,135,234,8,215,137,136>>, <<63,237,222,216,61,69,35,146>>,
            <<63,237,23,187,181,63,222,121>>, <<63,236,51,92,177,226,85,115>>, <<63,235,50,160,225,192,252,195>>, <<63,234,22,138,121,233,247,98>>,
            <<63,232,224,55,50,52,169,68>>, <<63,231,144,223,37,230,27,109>>, <<63,230,41,211,153,202,248,203>>, <<63,228,172,125,169,3,86,201>>,
            <<63,227,26,92,217,212,205,114>>, <<63,225,117,5,155,240,213,4>>, <<63,223,124,63,99,101,56,28>>, <<63,219,238,201,11,220,107,3>>,
            <<63,216,69,58,223,249,225,108>>, <<63,212,131,67,207,140,106,87>>, <<63,208,172,171,87,37,70,41>>, <<63,201,138,155,102,28,67,184>>,
            <<63,193,162,47,250,193,165,107>>, <<63,179,80,16,236,160,235,95>>, <<63,138,66,171,144,101,230,196>>, <<191,169,133,102,97,129,137,199>>,
            <<191,188,192,230,96,77,198,101>>, <<191,198,81,23,52,183,168,108>>, <<191,206,43,73,87,79,29,213>>, <<191,210,243,145,238,3,125,157>>,
            <<191,214,190,111,197,150,64,234>>, <<191,218,114,109,193,242,234,71>>, <<191,222,11,210,116,36,92,158>>, <<191,224,195,127,150,202,141,231>>,
            <<191,226,112,57,210,7,218,94>>, <<191,228,10,104,187,150,234,73>>, <<191,229,144,111,201,213,219,47>>, <<191,231,0,198,184,156,7,169>>,
            <<191,232,89,251,19,190,127,231>>, <<191,233,154,177,171,164,130,76>>, <<191,234,193,167,242,117,71,205>>, <<191,235,205,181,64,127,222,15>>,
            <<191,236,189,203,254,150,160,86>>, <<191,237,144,250,181,50,165,176>>, <<191,238,70,108,255,78,8,145>>, <<191,238,221,108,96,0,253,139>>,
            <<191,239,85,96,250,10,243,24>>, <<191,239,173,210,40,142,229,85>>, <<191,239,230,102,248,105,143,223>>, <<191,239,254,230,129,167,57,250>>,
            <<191,239,247,56,32,191,78,169>>, <<191,239,207,99,143,92,23,201>>, <<191,239,135,144,220,149,183,141>>, <<191,239,32,8,68,168,57,48>>,
            <<191,238,153,49,232,77,41,231>>, <<191,237,243,149,100,1,223,75>>, <<191,237,47,217,71,163,188,139>>, <<191,236,78,194,110,235,147,146>>,
            <<191,235,81,51,59,112,156,134>>, <<191,234,56,42,176,250,83,172>>, <<191,233,4,195,117,5,223,247>>, <<191,231,184,50,178,129,78,100>>,
            <<191,230,83,198,226,218,107,118>>, <<191,228,216,230,125,153,182,247>>, <<191,227,73,14,143,220,77,81>>, <<191,225,165,209,61,22,177,135>>,
            <<191,223,225,168,85,69,58,152>>, <<191,220,87,157,175,92,11,126>>, <<191,216,177,17,198,108,38,248>>, <<191,212,241,176,131,149,108,53>>,
            <<191,209,29,62,201,207,62,124>>, <<191,202,111,45,86,246,208,148>>, <<191,194,137,71,21,85,240,73>>, <<191,181,33,120,159,232,12,95>>,
            <<191,148,108,138,63,137,132,88>>, <<63,165,224,172,70,201,70,73>>, <<63,186,240,206,109,189,136,204>>, <<63,197,107,23,41,198,119,54>>,
            <<63,205,72,60,140,181,162,156>>, <<63,210,131,247,86,23,242,20>>, <<63,214,81,49,57,161,54,243>>, <<63,218,7,249,33,6,23,113>>,
            <<63,221,164,146,207,77,133,101>>, <<63,224,145,174,46,23,202,31>>, <<63,226,64,104,237,170,42,163>>, <<63,227,220,200,114,181,80,15>>,
            <<63,229,101,45,255,196,46,27>>, <<63,230,216,14,238,180,14,208>>, <<63,232,51,246,61,158,190,192>>, <<63,233,119,134,6,0,119,85>>,
            <<63,234,161,120,220,160,121,43>>, <<63,235,176,163,24,218,145,249>>, <<63,236,163,244,1,255,240,59>>, <<63,237,122,118,225,160,157,236>>,
            <<63,238,51,83,249,169,140,176>>, <<63,238,205,209,93,95,149,77>>, <<63,239,73,83,172,93,122,82>>, <<63,239,165,94,174,216,145,167>>,
            <<63,239,225,149,210,143,19,109>>, <<63,239,253,188,135,226,106,148>>, <<63,239,249,182,126,191,200,139>>, <<63,239,213,135,195,25,215,95>>,
            <<63,239,145,84,184,214,210,56>>, <<63,239,45,97,247,55,37,15>>, <<63,238,170,20,3,217,105,190>>, <<63,238,7,238,237,161,11,75>>,
            <<63,237,71,149,199,229,89,112>>, <<63,236,105,202,6,110,157,60>>, <<63,235,111,106,186,229,248,226>>, <<63,234,89,115,180,124,14,255>>,
            <<63,233,40,252,130,167,199,229>>, <<63,231,223,55,91,252,1,237>>, <<63,230,125,111,234,47,46,70>>, <<63,229,5,9,252,138,31,217>>,
            <<63,227,119,128,34,13,253,95>>, <<63,225,214,98,44,185,20,42>>, <<63,224,35,83,159,105,47,172>>, <<63,220,192,20,15,225,4,198>>,
            <<63,217,28,150,142,9,90,214>>, <<63,213,95,215,143,134,172,178>>, <<63,209,141,153,81,45,10,230>>, <<63,203,83,103,93,78,13,148>>,
            <<63,195,112,32,137,231,196,90>>, <<63,182,242,154,12,45,34,183>>, <<63,155,183,122,201,157,141,230>>, <<191,162,59,169,105,38,235,115>>,
            <<191,185,32,92,225,137,251,219>>, <<191,196,132,207,226,250,226,196>>, <<191,204,100,206,94,221,205,163>>, <<191,210,20,31,41,212,90,171>>,
            <<191,213,227,168,116,138,7,31>>, <<191,217,157,45,236,211,99,150>>, <<191,221,60,240,148,31,98,48>>, <<191,224,95,165,170,68,69,135>>,
            <<191,226,16,91,85,162,191,254>>, <<191,227,174,230,26,173,232,240>>, <<191,229,57,165,13,128,197,255>>, <<191,230,175,11,43,31,51,127>>,
            <<191,232,13,160,232,192,72,241>>, <<191,233,84,5,173,128,230,14>>, <<191,234,128,241,53,2,162,181>>, <<191,235,147,52,217,146,166,45>>,
            <<191,236,137,188,196,139,253,246>>, <<191,237,99,145,3,195,140,214>>, <<191,238,31,214,130,230,148,71>>, <<191,238,189,207,231,208,247,212>>,
            <<191,239,60,222,80,253,137,97>>, <<191,239,156,129,245,81,22,17>>, <<191,239,220,90,164,159,60,61>>, <<191,239,252,40,40,103,237,162>>,
            <<191,239,251,202,132,108,79,185>>, <<191,239,219,66,22,217,246,95>>, <<191,239,154,175,151,236,43,208>>, <<191,239,58,83,249,3,163,177>>,
            <<191,238,186,144,35,85,173,228>>, <<191,238,27,228,150,116,149,72>>, <<191,237,94,240,231,19,62,139>>, <<191,236,132,115,30,134,3,162>>,
            <<191,235,141,70,251,162,16,222>>, <<191,234,122,101,21,187,178,46>>, <<191,233,76,225,226,161,193,170>>, <<191,232,5,236,160,145,151,201>>,
            <<191,230,166,206,37,59,39,177>>, <<191,229,48,231,147,8,67,241>>, <<191,227,165,176,245,243,42,213>>, <<191,226,6,183,201,82,11,180>>,
            <<191,224,85,157,104,19,183,39>>, <<191,221,40,42,209,254,128,123>>, <<191,217,135,199,209,58,188,102>>, <<191,213,205,183,133,6,175,106>>,
            <<191,209,253,185,119,147,64,210>>, <<191,204,55,70,130,22,205,27>>, <<191,196,86,185,88,179,2,193>>, <<191,184,195,111,38,125,232,149>>,
            <<191,161,129,7,146,166,17,83>>, <<63,157,44,211,207,74,241,39>>, <<63,183,79,151,196,92,118,221>>, <<63,195,158,68,94,51,93,188>>,
            <<63,203,129,1,194,44,215,157>>, <<63,209,164,10,221,50,151,50>>, <<63,213,117,214,226,155,198,165>>, <<63,217,50,13,136,136,108,114>>,
            <<63,220,212,237,27,69,43,32>>, <<63,224,45,102,177,183,7,212>>, <<63,225,224,17,169,194,184,242>>, <<63,227,128,194,76,27,14,60>>,
            <<63,229,13,213,131,213,220,167>>, <<63,230,133,187,246,69,240,112>>, <<63,231,230,251,148,160,158,8>>, <<63,233,48,49,24,56,26,160>>,
            <<63,234,96,17,103,204,39,60>>, <<63,235,117,106,228,137,199,237>>, <<63,236,111,38,157,107,70,169>>, <<63,237,76,73,103,195,8,179>>,
            <<63,238,11,244,219,215,70,135>>, <<63,238,173,104,52,144,155,176>>, <<63,239,48,1,17,90,100,201>>, <<63,239,147,60,25,113,220,69>>,
            <<63,239,214,181,127,255,237,95>>, <<63,239,250,41,104,120,164,27>>, <<63,239,253,116,42,219,120,224>>, <<63,239,224,146,119,143,176,57>>,
            <<63,239,163,161,90,184,212,154>>, <<63,239,70,222,30,255,223,218>>, <<63,238,202,166,15,238,135,226>>, <<63,238,47,118,28,26,158,18>>,
            <<63,237,117,234,87,127,224,38>>, <<63,236,158,189,94,134,167,250>>, <<63,235,170,199,154,85,90,248>>, <<63,234,154,254,103,41,49,158>>,
            <<63,233,112,115,29,145,122,150>>, <<63,232,44,81,255,133,116,78>>, <<63,230,207,225,10,105,2,8>>, <<63,229,92,126,175,48,104,141>>,
            <<63,227,211,160,113,236,92,236>>, <<63,226,54,209,114,33,8,128>>, <<63,224,135,176,221,98,25,40>>, <<63,221,143,224,155,133,228,140>>,
            <<63,217,242,164,43,127,19,229>>, <<63,214,59,78,246,168,161,82>>, <<63,210,109,157,200,24,173,126>>, <<63,205,26,199,207,116,3,151>>,
            <<63,197,61,14,130,202,15,238>>, <<63,186,147,241,228,229,235,255>>, <<63,165,38,23,137,83,116,178>>, <<191,149,225,243,196,51,53,222>>,
            <<191,181,126,133,31,244,253,199>>, <<191,194,183,119,154,48,210,183>>, <<191,202,156,217,172,66,73,52>>, <<191,209,51,187,228,244,112,134>>,
            <<191,213,7,189,241,19,124,192>>, <<191,216,198,153,88,110,33,175>>, <<191,220,108,137,190,173,100,32>>, <<191,223,245,227,215,24,106,205>>,
            <<191,225,175,140,138,162,232,113>>, <<191,227,82,93,160,112,234,167>>, <<191,228,225,191,244,120,126,87>>, <<191,230,92,33,217,139,163,100>>,
            <<191,231,192,6,193,199,81,95>>, <<191,233,12,8,189,80,157,170>>, <<191,234,62,217,226,82,146,211>>, <<191,235,87,69,156,210,159,127>>,
            <<191,236,84,49,229,9,241,180>>, <<191,237,52,160,91,11,196,222>>, <<191,237,247,175,70,154,245,216>>, <<191,238,156,154,122,46,5,69>>,
            <<191,239,34,188,24,60,215,152>>, <<191,239,137,141,58,17,243,3>>, <<191,239,208,166,119,119,116,140>>, <<191,239,247,192,78,183,57,35>>,
            <<191,239,254,179,108,133,159,131>>, <<191,239,229,120,211,142,162,33>>, <<191,239,172,41,227,125,108,87>>, <<191,239,83,0,63,119,107,121>>,
            <<191,238,218,85,148,36,112,212>>, <<191,238,66,163,61,126,80,161>>, <<191,237,140,129,204,194,134,46>>, <<191,236,184,168,111,0,215,80>>,
            <<191,235,199,236,52,225,23,90>>, <<191,234,187,63,60,89,98,231>>, <<191,233,147,175,189,44,107,77>>, <<191,232,82,102,249,36,181,100>>,
            <<191,230,248,168,17,29,233,236>>, <<191,229,135,206,192,9,56,168>>, <<191,228,1,77,253,51,128,41>>, <<191,226,102,174,135,44,222,251>>,
            <<191,224,185,141,88,200,246,111>>, <<191,221,247,52,19,138,224,100>>, <<191,218,93,42,57,111,201,174>>, <<191,214,168,156,119,240,159,140>>,
            <<191,210,221,68,206,155,0,44>>, <<191,205,253,232,80,192,222,125>>, <<191,198,35,29,10,32,199,50>>, <<191,188,100,28,62,129,229,146>>,
            <<191,168,202,225,41,160,225,240>>, <<63,141,45,149,227,225,107,143>>, <<63,179,173,42,255,20,110,58>>, <<63,193,208,108,150,141,170,245>>,
            <<63,201,184,89,19,237,229,20>>, <<63,208,195,51,182,158,239,4>>, <<63,212,153,95,14,27,144,216>>, <<63,216,90,210,193,228,80,90>>,
            <<63,220,3,199,217,133,122,156>>, <<63,223,144,143,255,37,171,39>>, <<63,225,126,204,153,161,244,167>>, <<63,227,35,184,177,251,73,78>>,
            <<63,228,181,100,242,6,153,99>>, <<63,230,50,61,95,76,213,69>>, <<63,231,152,194,241,196,84,14>>, <<63,232,231,141,21,11,128,166>>,
            <<63,234,29,75,19,15,61,13>>, <<63,235,56,197,102,175,146,205>>, <<63,236,56,222,245,14,163,30>>, <<63,237,28,150,44,78,121,213>>,
            <<63,237,227,6,6,157,89,183>>, <<63,238,139,102,240,140,13,24>>, <<63,239,21,15,145,198,168,239>>, <<63,239,127,117,119,101,170,228>>,
            <<63,239,202,45,159,44,78,108>>, <<63,239,244,236,227,40,12,53>>, <<63,239,255,136,69,68,248,135>>, <<63,239,233,245,26,139,0,5>>,
            <<63,239,180,73,21,216,141,238>>, <<63,239,94,186,50,15,206,25>>, <<63,238,233,158,123,204,116,215>>, <<63,238,85,107,186,216,178,226>>,
            <<63,237,162,182,251,184,99,131>>, <<63,236,210,51,249,193,116,136>>, <<63,235,228,180,106,88,137,242>>, <<63,234,219,39,42,7,110,32>>,
            <<63,233,182,151,76,65,131,58>>, <<63,232,120,43,14,199,229,138>>, <<63,231,33,34,177,187,96,22>>, <<63,229,178,215,53,133,155,78>>,
            <<63,228,46,184,255,221,207,88>>, <<63,226,150,78,105,69,200,41>>, <<63,224,235,50,52,115,199,29>>, <<63,222,94,35,226,104,75,192>>,
            <<63,218,199,88,152,197,15,9>>, <<63,215,21,158,157,88,220,228>>, <<63,211,76,173,23,195,190,162>>, <<63,206,224,165,18,154,59,87>>,
            <<63,199,8,225,241,149,113,223>>, <<63,190,51,232,43,149,136,40>>, <<63,172,111,88,85,66,183,246>>, <<191,125,45,198,105,130,54,140>>,
            <<191,177,219,143,109,106,101,69>>, <<191,192,233,38,83,178,216,95>>, <<191,200,211,130,241,37,141,113>>, <<191,208,82,115,200,117,97,165>>,
            <<191,212,42,187,168,199,39,21>>, <<191,215,238,187,43,92,151,25>>, <<191,219,154,168,200,53,95,193>>, <<191,223,42,211,44,149,100,124>>,
            <<191,225,77,210,120,226,15,216>>, <<191,226,244,212,27,219,199,113>>, <<191,228,136,197,16,5,10,73>>, <<191,230,8,15,18,221,98,202>>,
            <<191,231,113,48,167,46,86,38>>, <<191,232,194,190,152,190,245,157>>, <<191,233,251,101,105,157,185,148>>, <<191,235,25,234,167,145,111,173>>,
            <<191,236,29,46,40,89,92,86>>, <<191,237,4,43,43,126,249,111>>, <<191,237,205,249,96,149,152,70>>, <<191,238,121,205,208,224,33,20>>,
            <<191,239,6,251,171,114,5,216>>, <<191,239,116,244,242,254,47,171>>, <<191,239,195,75,12,164,221,164>>, <<191,239,241,175,47,49,23,113>>,
            <<191,239,255,242,178,85,159,101>>, <<191,239,238,7,61,153,207,155>>, <<191,239,187,254,214,199,41,224>>, <<191,239,106,11,207,201,14,32>>,
            <<191,238,248,128,148,16,229,33>>, <<191,238,103,207,85,177,140,21>>, <<191,237,184,137,154,133,119,20>>, <<191,236,235,95,169,211,12,129>>,
            <<191,236,1,31,219,2,68,198>>, <<191,234,250,181,198,22,37,64>>, <<191,233,217,41,86,186,135,170>>, <<191,232,157,157,194,212,145,75>>,
            <<191,231,73,80,101,161,7,93>>, <<191,229,221,151,128,134,158,199>>, <<191,228,91,224,226,221,186,64>>, <<191,226,197,176,122,7,160,236>>,
            <<191,225,28,158,203,70,244,171>>, <<191,222,196,174,177,196,114,173>>, <<191,219,49,45,232,90,222,198>>, <<191,215,130,83,252,86,45,144>>,
            <<191,211,187,213,49,13,54,160>>, <<191,207,194,251,34,232,182,147>>, <<191,199,238,90,60,251,180,76>>, <<191,192,1,167,210,206,201,6>>,
            <<191,176,9,184,119,127,72,245>>, <<61,44,178,252,232,252,129,165>>, <<63,176,9,184,119,127,37,186>>, <<63,192,1,167,210,206,215,67>>,
            <<63,199,238,90,60,251,194,101>>, <<63,207,194,251,34,232,196,122>>, <<63,211,187,213,49,13,61,116>>, <<63,215,130,83,252,86,52,61>>,
            <<63,219,49,45,232,90,229,69>>, <<63,222,196,174,177,196,106,240>>, <<63,225,28,158,203,70,240,240>>, <<63,226,197,176,122,7,163,211>>,
            <<63,228,91,224,226,221,189,5>>, <<63,229,221,151,128,134,161,102>>, <<63,231,73,80,101,161,9,210>>, <<63,232,157,157,194,212,147,150>>,
            <<63,233,217,41,86,186,137,199>>, <<63,234,250,181,198,22,39,45>>, <<63,236,1,31,219,2,70,130>>, <<63,236,235,95,169,211,10,158>>,
            <<63,237,184,137,154,133,120,104>>, <<63,238,103,207,85,177,141,51>>, <<63,238,248,128,148,16,230,8>>, <<63,239,106,11,207,201,14,207>>,
            <<63,239,187,254,214,199,42,86>>, <<63,239,238,7,61,153,207,216>>, <<63,239,255,242,178,85,159,97>>, <<63,239,241,175,47,49,23,180>>,
            <<63,239,195,75,12,164,221,53>>, <<63,239,116,244,242,254,47,3>>, <<63,239,6,251,171,114,4,248>>, <<63,238,121,205,208,224,31,252>>,
            <<63,237,205,249,96,149,150,247>>, <<63,237,4,43,43,126,247,236>>, <<63,236,29,46,40,89,90,160>>, <<63,235,25,234,167,145,109,197>>,
            <<63,233,251,101,105,157,188,40>>, <<63,232,194,190,152,190,243,87>>, <<63,231,113,48,167,46,83,181>>, <<63,230,8,15,18,221,96,48>>,
            <<63,228,136,197,16,5,7,136>>, <<63,226,244,212,27,219,196,141>>, <<63,225,77,210,120,226,12,211>>, <<63,223,42,211,44,149,108,49>>,
            <<63,219,154,168,200,53,103,184>>, <<63,215,238,187,43,92,144,114>>, <<63,212,42,187,168,199,47,117>>, <<63,208,82,115,200,117,90,181>>,
            <<63,200,211,130,241,37,127,93>>, <<63,192,233,38,83,178,202,38>>, <<63,177,219,143,109,106,72,163>>, <<63,125,45,198,105,128,107,95>>,
            <<191,172,111,88,85,66,241,69>>, <<191,190,51,232,43,149,101,26>>, <<191,199,8,225,241,149,127,253>>, <<191,206,224,165,18,154,73,68>>,
            <<191,211,76,173,23,195,197,121>>, <<191,215,21,158,157,88,227,149>>, <<191,218,199,88,152,197,21,141>>, <<191,222,94,35,226,104,82,16>>,
            <<191,224,235,50,52,115,195,94>>, <<191,226,150,78,105,69,203,21>>, <<191,228,46,184,255,221,210,32>>, <<191,229,178,215,53,133,152,16>>,
            <<191,231,33,34,177,187,98,144>>, <<191,232,120,43,14,199,231,218>>, <<191,233,182,151,76,65,133,93>>, <<191,234,219,39,42,7,112,19>>,
            <<191,235,228,180,106,88,139,180>>, <<191,236,210,51,249,193,118,23>>, <<191,237,162,182,251,184,97,217>>, <<191,238,85,107,186,216,180,6>>,
            <<191,238,233,158,123,204,117,197>>, <<191,239,94,186,50,15,206,207>>, <<191,239,180,73,21,216,142,107>>, <<191,239,233,245,26,139,0,73>>,
            <<191,239,255,136,69,68,248,145>>, <<191,239,244,236,227,40,12,6>>, <<191,239,202,45,159,44,78,3>>, <<191,239,127,117,119,101,171,171>>,
            <<191,239,21,15,145,198,169,251>>, <<191,238,139,102,240,140,12,6>>, <<191,237,227,6,6,157,88,110>>, <<191,237,28,150,44,78,120,87>>,
            <<191,236,56,222,245,14,161,109>>, <<191,235,56,197,102,175,144,234>>, <<191,234,29,75,19,15,58,250>>, <<191,232,231,141,21,11,131,107>>,
            <<191,231,152,194,241,196,81,161>>, <<191,230,50,61,95,76,210,176>>, <<191,228,181,100,242,6,150,167>>, <<191,227,35,184,177,251,76,215>>,
            <<191,225,126,204,153,161,241,166>>, <<191,223,144,143,255,37,164,233>>, <<191,220,3,199,217,133,116,40>>, <<191,216,90,210,193,228,73,183>>,
            <<191,212,153,95,14,27,153,51>>, <<191,208,195,51,182,158,247,136>>, <<191,201,184,89,19,237,215,5>>, <<191,193,208,108,150,141,156,192>>,
            <<191,179,173,42,255,20,81,157>>, <<191,141,45,149,227,224,133,253>>, <<63,168,202,225,41,161,27,68>>, <<63,188,100,28,62,130,2,23>>,
            <<63,198,35,29,10,32,181,207>>, <<63,205,253,232,80,192,236,113>>, <<63,210,221,68,206,155,7,7>>, <<63,214,168,156,119,240,166,66>>,
            <<63,218,93,42,57,111,208,55>>, <<63,221,247,52,19,138,230,187>>, <<63,224,185,141,88,200,249,126>>, <<63,226,102,174,135,44,225,234>>,
            <<63,228,1,77,253,51,130,246>>, <<63,229,135,206,192,9,53,100>>, <<63,230,248,168,17,29,230,218>>, <<63,232,82,102,249,36,183,184>>,
            <<63,233,147,175,189,44,109,117>>, <<63,234,187,63,60,89,100,224>>, <<63,235,199,236,52,225,25,34>>, <<63,236,184,168,111,0,216,229>>,
            <<63,237,140,129,204,194,135,143>>, <<63,238,66,163,61,126,79,50>>, <<63,238,218,85,148,36,113,200>>, <<63,239,83,0,63,119,106,146>>,
            <<63,239,172,41,227,125,108,218>>, <<63,239,229,120,211,142,162,106>>, <<63,239,254,179,108,133,159,147>>, <<63,239,247,192,78,183,56,250>>,
            <<63,239,208,166,119,119,116,41>>, <<63,239,137,141,58,17,242,103>>, <<63,239,34,188,24,60,216,157>>, <<63,238,156,154,122,46,6,142>>,
            <<63,237,247,175,70,154,244,150>>, <<63,237,52,160,91,11,195,103>>, <<63,236,84,49,229,9,240,9>>, <<63,235,87,69,156,210,157,162>>,
            <<63,234,62,217,226,82,149,89>>, <<63,233,12,8,189,80,155,110>>, <<63,231,192,6,193,199,78,247>>, <<63,230,92,33,217,139,160,211>>,
            <<63,228,225,191,244,120,129,175>>, <<63,227,82,93,160,112,231,203>>, <<63,225,175,140,138,162,229,115>>, <<63,223,245,227,215,24,100,150>>,
            <<63,220,108,137,190,173,93,178>>, <<63,216,198,153,88,110,27,18>>, <<63,213,7,189,241,19,117,249>>, <<63,209,51,187,228,244,121,6>>,
            <<63,202,156,217,172,66,90,120>>, <<63,194,183,119,154,48,196,133>>, <<63,181,126,133,31,244,225,46>>, <<63,149,225,243,196,50,195,25>>,
            <<191,165,38,23,137,83,174,11>>, <<191,186,147,241,228,230,8,139>>, <<191,197,61,14,130,202,30,21>>, <<191,205,26,199,207,116,17,144>>,
            <<191,210,109,157,200,24,180,93>>, <<191,214,59,78,246,168,153,11>>, <<191,217,242,164,43,127,26,116>>, <<191,221,143,224,155,133,234,233>>,
            <<191,224,135,176,221,98,28,58>>, <<191,226,54,209,114,33,11,115>>, <<191,227,211,160,113,236,95,189>>, <<191,229,92,126,175,48,107,57>>,
            <<191,230,207,225,10,104,254,240>>, <<191,232,44,81,255,133,113,105>>, <<191,233,112,115,29,145,124,195>>, <<191,234,154,254,103,41,47,42>>,
            <<191,235,170,199,154,85,92,197>>, <<191,236,158,189,94,134,169,148>>, <<191,237,117,234,87,127,225,140>>, <<191,238,47,118,28,26,159,67>>,
            <<191,238,202,166,15,238,136,220>>, <<191,239,70,222,30,255,224,156>>, <<191,239,163,161,90,184,211,241>>, <<191,239,224,146,119,143,176,137>>,
            <<191,239,253,116,42,219,120,247>>, <<191,239,250,41,104,120,163,248>>, <<191,239,214,181,127,255,237,3>>, <<191,239,147,60,25,113,219,176>>,
            <<191,239,48,1,17,90,99,251>>, <<191,238,173,104,52,144,156,242>>, <<191,238,11,244,219,215,69,75>>, <<191,237,76,73,103,195,7,66>>,
            <<191,236,111,38,157,107,72,175>>, <<191,235,117,106,228,137,198,21>>, <<191,234,96,17,103,204,37,52>>, <<191,233,48,49,24,56,24,105>>,
            <<191,231,230,251,148,160,155,166>>, <<191,230,133,187,246,69,237,228>>, <<191,229,13,213,131,213,217,243>>, <<191,227,128,194,76,27,17,188>>,
            <<191,225,224,17,169,194,181,249>>, <<191,224,45,102,177,183,4,188>>, <<191,220,212,237,27,69,36,185>>, <<191,217,50,13,136,136,101,218>>,
            <<191,213,117,214,226,155,191,226>>, <<191,209,164,10,221,50,144,77>>, <<191,203,129,1,194,44,201,154>>, <<191,195,158,68,94,51,79,142>>,
            <<191,183,79,151,196,92,90,72>>, <<191,157,44,211,207,75,126,77>>, <<63,161,129,7,146,166,74,177>>, <<63,184,195,111,38,126,5,38>>,
            <<63,196,86,185,88,179,16,235>>, <<63,204,55,70,130,22,219,26>>, <<63,209,253,185,119,147,71,181>>, <<63,213,205,183,133,6,182,41>>,
            <<63,217,135,199,209,58,180,78>>, <<63,221,40,42,209,254,134,223>>, <<63,224,85,157,104,19,186,61>>, <<63,226,6,183,201,82,14,171>>,
            <<63,227,165,176,245,243,45,170>>, <<63,229,48,231,147,8,70,161>>, <<63,230,166,206,37,59,42,58>>, <<63,232,5,236,160,145,154,40>>,
            <<63,233,76,225,226,161,195,220>>, <<63,234,122,101,21,187,175,180>>, <<63,235,141,70,251,162,14,160>>, <<63,236,132,115,30,134,5,66>>,
            <<63,237,94,240,231,19,63,247>>, <<63,238,27,228,150,116,150,127>>, <<63,238,186,144,35,85,174,228>>, <<63,239,58,83,249,3,164,122>>,
            <<63,239,154,175,151,236,44,96>>, <<63,239,219,66,22,217,245,244>>, <<63,239,251,202,132,108,79,215>>, <<63,239,252,40,40,103,237,133>>,
            <<63,239,220,90,164,159,59,231>>, <<63,239,156,129,245,81,21,130>>, <<63,239,60,222,80,253,136,154>>, <<63,238,189,207,231,208,246,213>>,
            <<63,238,31,214,130,230,147,17>>, <<63,237,99,145,3,195,139,107>>, <<63,236,137,188,196,139,255,245>>, <<63,235,147,52,217,146,168,106>>,
            <<63,234,128,241,53,2,160,178>>, <<63,233,84,5,173,128,227,221>>, <<63,232,13,160,232,192,70,148>>, <<63,230,175,11,43,31,48,247>>,
            <<63,229,57,165,13,128,195,80>>, <<63,227,174,230,26,173,230,27>>, <<63,226,16,91,85,162,195,162>>, <<63,224,95,165,170,68,66,114>>,
            <<63,221,60,240,148,31,91,206>>, <<63,217,157,45,236,211,93,3>>, <<63,213,227,168,116,138,0,97>>, <<63,210,20,31,41,212,83,201>>,
            <<63,204,100,206,94,221,191,165>>, <<63,196,132,207,226,250,212,154>>, <<63,185,32,92,225,137,223,75>>, <<63,162,59,169,105,39,50,2>>,
            <<191,155,183,122,201,157,0,191>>, <<191,182,242,154,12,45,63,76>>, <<191,195,112,32,137,231,210,137>>, <<191,203,83,103,93,78,27,152>>,
            <<191,209,141,153,81,45,17,204>>, <<191,213,95,215,143,134,179,117>>, <<191,217,28,150,142,9,97,112>>, <<191,220,192,20,15,224,252,228>>,
            <<191,224,35,83,159,105,50,197>>, <<191,225,214,98,44,185,16,128>>, <<191,227,119,128,34,14,0,56>>, <<191,229,5,9,252,138,34,141>>,
            <<191,230,125,111,234,47,48,212>>, <<191,231,223,55,91,252,4,81>>, <<191,233,40,252,130,167,202,29>>, <<191,234,89,115,180,124,17,8>>,
            <<191,235,111,106,186,229,246,156>>, <<191,236,105,202,6,110,155,53>>, <<191,237,71,149,199,229,90,226>>, <<191,238,7,238,237,161,9,197>>,
            <<191,238,170,20,3,217,106,197>>, <<191,239,45,97,247,55,37,222>>, <<191,239,145,84,184,214,210,206>>, <<191,239,213,135,195,25,215,188>>,
            <<191,239,249,182,126,191,200,175>>, <<191,239,253,188,135,226,106,127>>, <<191,239,225,149,210,143,19,207>>, <<191,239,165,94,174,216,145,31>>,
            <<191,239,73,83,172,93,121,145>>, <<191,238,205,209,93,95,148,84>>, <<191,238,51,83,249,169,139,128>>, <<191,237,122,118,225,160,156,134>>,
            <<191,236,163,244,1,255,238,162>>, <<191,235,176,163,24,218,148,48>>, <<191,234,161,120,220,160,123,158>>, <<191,233,119,134,6,0,117,41>>,
            <<191,232,51,246,61,158,188,103>>, <<191,230,216,14,238,180,12,77>>, <<191,229,101,45,255,196,43,112>>, <<191,227,220,200,114,181,77,63>>,
            <<191,226,64,104,237,170,39,177>>, <<191,224,145,174,46,23,199,13>>, <<191,221,164,146,207,77,127,10>>, <<191,218,7,249,33,6,31,129>>,
            <<191,214,81,49,57,161,48,57>>, <<191,210,131,247,86,23,235,53>>, <<191,205,72,60,140,181,148,164>>, <<191,197,107,23,41,198,105,16>>,
            <<191,186,240,206,109,189,108,66>>, <<191,165,224,172,70,201,12,241>>, <<63,148,108,138,63,137,247,30>>, <<63,181,33,120,159,231,233,49>>,
            <<63,194,137,71,21,85,254,124>>, <<63,202,111,45,86,246,191,79>>, <<63,209,29,62,201,207,69,102>>, <<63,212,241,176,131,149,114,253>>,
            <<63,216,177,17,198,108,45,150>>, <<63,220,87,157,175,92,17,237>>, <<63,223,225,168,85,69,64,208>>, <<63,225,165,209,61,22,180,133>>,
            <<63,227,73,14,143,220,73,204>>, <<63,228,216,230,125,153,185,175>>, <<63,230,83,198,226,218,110,8>>, <<63,231,184,50,178,129,80,205>>,
            <<63,233,4,195,117,5,221,54>>, <<63,234,56,42,176,250,85,186>>, <<63,235,81,51,59,112,158,101>>, <<63,236,78,194,110,235,149,63>>,
            <<63,237,47,217,71,163,190,4>>, <<63,237,243,149,100,1,224,142>>, <<63,238,153,49,232,77,40,156>>, <<63,239,32,8,68,168,58,5>>,
            <<63,239,135,144,220,149,184,42>>, <<63,239,207,99,143,92,24,45>>, <<63,239,247,56,32,191,78,211>>, <<63,239,254,230,129,167,57,235>>,
            <<63,239,230,102,248,105,143,151>>, <<63,239,173,210,40,142,229,244>>, <<63,239,85,96,250,10,242,94>>, <<63,238,221,108,96,0,252,153>>,
            <<63,238,70,108,255,78,7,104>>, <<63,237,144,250,181,50,164,81>>, <<63,236,189,203,254,150,158,194>>, <<63,235,205,181,64,127,220,73>>,
            <<63,234,193,167,242,117,69,213>>, <<63,233,154,177,171,164,128,38>>, <<63,232,89,251,19,190,130,196>>, <<63,231,0,198,184,156,10,186>>,
            <<63,229,144,111,201,213,216,136>>, <<63,228,10,104,187,150,231,125>>, <<63,226,112,57,210,7,215,112>>, <<63,224,195,127,150,202,138,217>>,
            <<63,222,11,210,116,36,86,72>>, <<63,218,114,109,193,242,227,191>>, <<63,214,190,111,197,150,73,42>>, <<63,210,243,145,238,3,134,11>>,
            <<63,206,43,73,87,79,15,227>>, <<63,198,81,23,52,183,154,75>>, <<63,188,192,230,96,77,169,224>>, <<63,169,133,102,97,129,80,115>>,
            <<191,138,66,171,144,102,204,87>>, <<191,179,80,16,236,161,7,253>>, <<191,193,162,47,250,193,179,161>>, <<191,201,138,155,102,28,50,108>>,
            <<191,208,172,171,87,37,61,164>>, <<191,212,131,67,207,140,113,35>>, <<191,216,69,58,223,249,232,16>>, <<191,219,238,201,11,220,113,120>>,
            <<191,223,124,63,99,101,62,91>>, <<191,225,117,5,155,240,209,81>>, <<191,227,26,92,217,212,208,82>>, <<191,228,172,125,169,3,83,107>>,
            <<191,230,41,211,153,202,251,98>>, <<191,231,144,223,37,230,29,218>>, <<191,232,224,55,50,52,171,134>>, <<191,234,22,138,121,233,249,117>>,
            <<191,235,50,160,225,192,254,167>>, <<191,236,51,92,177,226,87,37>>, <<191,237,23,187,181,63,223,247>>, <<191,237,222,216,61,69,36,219>>,
            <<191,238,135,234,8,215,136,54>>, <<191,239,18,71,13,189,145,112>>, <<191,239,125,100,35,162,254,115>>, <<191,239,200,213,144,13,152,191>>,
            <<191,239,244,79,114,181,252,145>>, <<191,239,255,166,17,215,87,40>>, <<191,239,234,206,6,41,113,7>>, <<191,239,181,220,70,88,182,87>>,
            <<191,239,97,6,17,240,187,181>>, <<191,238,236,160,187,206,115,72>>, <<191,238,89,33,84,79,247,193>>, <<191,237,167,28,51,152,29,23>>,
            <<191,236,215,68,100,92,98,193>>, <<191,235,234,106,239,211,36,71>>, <<191,234,225,126,11,119,50,57>>, <<191,233,189,136,41,116,86,229>>,
            <<191,232,127,174,236,173,182,181>>, <<191,231,41,50,1,107,90,68>>, <<191,229,187,105,219,216,56,180>>, <<191,228,55,198,93,147,246,28>>,
            <<191,226,159,205,99,180,163,224>>, <<191,224,245,25,62,172,217,202>>, <<191,222,114,174,43,64,140,43>>, <<191,218,220,138,109,139,251,125>>,
            <<191,215,43,98,173,21,31,187>>, <<191,211,98,237,126,106,2,188>>, <<191,207,13,241,203,136,221,171>>, <<191,199,54,205,6,221,93,66>>,
            <<191,190,144,158,177,187,63,117>>, <<191,173,41,203,155,55,123,32>>, <<63,119,87,214,150,124,148,168>>, <<63,177,126,104,254,52,92,218>>,
            <<63,192,186,222,58,188,151,215>>, <<63,200,165,180,130,238,70,66>>, <<63,208,59,224,111,151,194,53>>, <<63,212,20,146,226,172,152,104>>,
            <<63,215,217,19,65,90,171,1>>, <<63,219,133,151,130,8,84,230>>, <<63,223,22,109,186,120,32,3>>, <<63,225,67,255,235,144,140,139>>,
            <<63,226,235,107,155,67,158,155>>, <<63,228,127,208,18,121,207,174>>, <<63,229,255,150,154,133,245,28>>, <<63,231,105,61,56,245,103,52>>,
            <<63,232,187,88,51,193,139,171>>, <<63,233,244,147,127,32,119,170>>, <<63,235,19,180,19,132,61,40>>, <<63,236,23,153,42,113,113,73>>,
            <<63,236,255,61,96,238,1,169>>, <<63,237,201,183,190,100,56,113>>, <<63,238,118,60,158,241,157,239>>, <<63,239,4,30,128,54,42,29>>,
            <<63,239,114,206,175,213,131,55>>, <<63,239,193,221,218,251,25,25>>, <<63,239,240,252,126,80,128,6>>, <<63,239,255,251,53,245,166,216>>,
            <<63,239,238,202,237,42,83,178>>, <<63,239,189,124,237,121,15,9>>, <<63,239,108,66,205,84,52,105>>, <<63,238,251,110,62,54,158,215>>,
            <<63,238,107,112,186,122,35,249>>, <<63,237,188,219,19,54,132,216>>, <<63,236,240,92,222,155,122,87>>, <<63,236,6,195,199,88,149,231>>,
            <<63,235,0,250,189,196,87,93>>, <<63,233,224,9,11,146,149,76>>, <<63,232,165,17,75,7,239,192>>, <<63,231,81,80,66,180,153,230>>,
            <<63,229,230,27,166,220,46,236>>, <<63,228,100,224,193,203,127,177>>, <<63,226,207,35,4,117,87,188>>, <<63,225,38,122,128,200,108,188>>,
            <<63,222,217,36,158,139,64,44>>, <<63,219,70,77,194,232,65,49>>, <<63,215,152,8,133,197,57,95>>, <<63,211,210,8,148,239,223,241>>,
            <<63,207,240,50,247,143,32,180>>, <<63,200,28,53,164,61,2,103>>, <<63,192,47,248,173,226,48,169>>, <<63,176,102,231,235,118,235,48>>,
            <<63,87,87,222,89,235,131,123>>, <<191,175,89,13,194,168,142,203>>, <<191,191,166,169,173,53,252,92>>, <<191,199,192,123,166,183,18,23>>,
            <<191,207,149,191,20,144,22,214>>, <<191,211,165,159,45,25,245,23>>, <<191,215,108,156,82,66,202,249>>, <<191,219,28,10,111,186,208,183>>,
            <<191,222,176,52,173,31,235,59>>, <<191,225,18,192,207,0,16,111>>, <<191,226,188,59,112,72,12,125>>, <<191,228,82,222,78,148,175,92>>,
            <<191,229,213,16,113,133,158,204>>, <<191,231,65,77,111,126,222,19>>, <<191,232,150,38,244,77,16,93>>, <<191,233,210,70,49,147,229,147>>,
            <<191,234,244,109,55,148,82,57>>, <<191,235,251,120,52,239,87,112>>, <<191,236,230,94,156,36,62,13>>, <<191,237,180,52,45,162,219,171>>,
            <<191,238,100,41,229,102,46,141>>, <<191,238,245,142,203,40,170,14>>, <<191,239,103,208,164,96,122,43>>, <<191,239,186,124,135,80,232,34>>,
            <<191,239,237,63,78,156,252,5>>, <<191,239,255,229,236,230,254,168>>, <<191,239,242,93,160,40,220,65>>, <<191,239,196,180,4,145,189,167>>,
            <<191,239,119,23,6,213,213,29>>, <<191,239,9,212,181,254,53,41>>, <<191,238,125,90,244,231,13,95>>, <<191,237,210,55,11,187,88,100>>,
            <<191,237,9,21,25,221,33,235>>, <<191,236,34,191,104,201,38,127>>, <<191,235,32,29,160,164,46,91>>, <<191,234,2,51,223,62,124,52>>,
            <<191,232,202,33,178,119,183,35>>, <<191,231,121,32,247,10,163,136>>, <<191,230,16,132,156,227,23,141>>, <<191,228,145,183,82,60,20,45>>,
            <<191,226,254,58,22,220,178,59>>, <<191,225,87,162,184,226,128,162>>, <<191,223,63,52,121,62,91,229>>, <<191,219,175,182,98,71,130,125>>,
            <<191,216,4,95,230,78,99,118>>, <<191,212,64,225,192,16,42,162>>, <<191,208,105,4,245,114,189,214>>, <<191,201,1,78,17,220,255,6>>,
            <<191,193,23,108,44,188,172,194>>, <<191,178,56,179,124,116,32,63>>, <<191,129,129,217,45,99,34,194>>, <<63,171,180,225,70,231,80,165>>,
            <<63,189,215,45,160,212,142,82>>, <<63,198,218,243,203,209,109,73>>, <<63,206,179,84,62,21,135,8>>, <<63,211,54,106,31,214,115,130>>,
            <<63,214,255,215,123,110,161,58>>, <<63,218,178,35,51,255,188,208>>, <<63,222,73,149,143,86,159,2>>, <<63,224,225,72,234,8,129,129>>,
            <<63,226,140,204,245,210,203,40>>, <<63,228,37,168,242,206,56,104>>, <<63,229,170,65,172,55,132,101>>, <<63,231,25,16,78,85,40,30>>,
            <<63,232,112,163,239,137,77,76>>, <<63,233,175,163,3,89,113,110>>, <<63,234,212,204,181,246,191,127>>, <<63,235,222,250,46,233,56,183>>,
            <<63,236,205,31,185,153,96,79>>, <<63,237,158,77,210,142,76,26>>, <<63,238,81,178,24,80,242,220>>, <<63,238,230,152,31,2,210,53>>,
            <<63,239,92,106,37,210,236,130>>, <<63,239,178,177,173,154,158,149>>, <<63,239,233,23,240,10,226,178>>, <<63,239,255,102,54,242,41,45>>,
            <<63,239,245,134,19,66,232,71>>, <<63,239,203,129,115,163,162,84>>, <<63,239,129,130,154,113,167,215>>, <<63,239,23,211,243,64,163,25>>,
            <<63,238,142,223,200,1,165,145>>, <<63,237,231,47,214,29,9,154>>, <<63,237,33,108,195,234,175,80>>, <<63,236,62,93,119,19,197,2>>,
            <<63,235,62,230,76,136,225,202>>, <<63,234,36,8,50,213,148,236>>, <<63,232,238,223,167,184,52,215>>, <<63,231,160,163,154,2,55,32>>,
            <<63,230,58,164,48,224,113,196>>, <<63,228,190,73,121,197,241,52>>, <<63,227,45,17,254,77,127,205>>, <<63,225,136,145,67,126,6,104>>,
            <<63,223,164,220,103,232,214,176>>, <<63,220,24,194,237,23,119,98>>, <<63,216,112,103,102,93,56,184>>, <<63,212,175,119,143,33,44,107>>,
            <<63,208,217,185,219,56,138,206>>, <<63,201,230,19,85,206,120,38>>, <<63,193,254,166,211,168,133,186>>, <<63,180,10,66,115,106,184,216>>,
            <<63,144,12,62,42,210,232,245>>, <<191,168,16,88,165,103,126,58>>, <<191,188,7,78,85,206,62,148>>, <<191,197,245,31,237,158,200,246>>,
            <<191,205,208,131,76,198,166,64>>, <<191,210,198,245,44,189,142,106>>, <<191,214,146,198,38,157,116,3>>, <<191,218,71,227,47,14,119,84>>,
            <<191,221,226,145,182,105,173,112>>, <<191,224,175,152,225,47,242,76>>, <<191,226,93,32,201,163,173,212>>, <<191,227,248,48,149,129,120,91>>,
            <<191,229,127,42,216,250,175,83>>, <<191,230,240,134,91,76,26,136>>, <<191,232,74,207,162,56,74,182>>, <<191,233,140,170,103,163,221,112>>,
            <<191,234,180,210,247,219,45,165>>, <<191,235,194,31,119,33,208,99>>, <<191,236,179,129,13,67,236,5>>, <<191,237,136,4,245,252,92,177>>,
            <<191,238,62,213,117,29,202,203>>, <<191,238,215,58,173,136,207,138>>, <<191,239,80,155,90,23,75,99>>, <<191,239,170,125,103,194,198,107>>,
            <<191,239,228,134,112,106,202,214>>, <<191,239,254,124,21,191,229,66>>, <<191,239,248,68,59,247,177,214>>, <<191,239,209,229,36,15,6,77>>,
            <<191,239,139,133,101,127,196,14>>, <<191,239,37,107,199,112,167,134>>, <<191,238,159,254,249,134,37,253>>, <<191,237,251,197,44,155,229,134>>,
            <<191,237,57,99,139,206,169,182>>, <<191,236,89,157,150,94,151,116>>, <<191,235,93,84,91,16,157,218>>, <<191,234,69,133,149,213,5,171>>,
            <<191,233,19,74,176,150,186,101>>, <<191,231,199,215,168,51,190,10>>, <<191,230,100,121,214,187,221,119>>, <<191,228,234,150,164,44,192,239>>,
            <<191,227,91,170,30,252,175,179>>, <<191,225,185,69,125,221,208,6>>, <<191,224,5,13,140,57,192,47>>, <<191,220,129,114,5,247,220,163>>,
            <<191,216,220,29,158,168,55,114>>, <<191,213,29,200,146,89,23,115>>, <<191,209,74,54,182,65,14,226>>, <<191,202,202,130,119,54,202,179>>,
            <<191,194,229,165,161,158,58,121>>, <<191,181,219,142,195,252,29,216>>, <<191,151,87,90,95,157,20,234>>, <<63,164,107,127,251,156,142,196>>,
            <<63,186,55,17,210,230,120,172>>, <<63,197,15,3,8,125,163,163>>, <<63,204,237,79,50,253,188,0>>, <<63,210,87,65,198,127,22,80>>,
            <<63,214,37,105,190,140,239,222>>, <<63,217,221,75,194,69,196,229>>, <<63,221,123,42,120,245,112,50>>, <<63,224,125,177,89,183,16,172>>,
            <<63,226,45,55,138,71,209,30>>, <<63,227,202,117,205,232,98,247>>, <<63,229,83,204,135,29,216,234>>, <<63,230,199,176,29,55,7,201>>,
            <<63,232,36,170,138,42,118,60>>, <<63,233,105,92,210,194,9,227>>, <<63,234,148,128,103,154,5,159>>, <<63,235,164,232,109,144,35,45>>,
            <<63,236,153,130,236,88,237,217>>, <<63,237,113,89,226,10,125,205>>, <<63,238,43,148,58,135,248,232>>, <<63,238,199,118,169,212,155,75>>,
            <<63,239,68,100,104,114,229,75>>, <<63,239,161,223,209,18,135,117>>, <<63,239,223,138,222,238,67,128>>, <<63,239,253,39,140,90,224,16>>,
            <<63,239,250,152,17,39,245,227>>, <<63,239,215,223,0,147,223,180>>, <<63,239,149,31,70,180,183,21>>, <<63,239,50,156,5,88,234,149>>,
            <<63,238,176,184,80,130,202,10>>, <<63,238,15,246,202,194,244,39>>, <<63,237,80,249,33,213,204,197>>, <<63,236,116,127,108,8,51,183>>,
            <<63,235,123,103,103,6,237,136>>, <<63,234,102,171,152,219,40,89>>, <<63,233,55,98,83,244,99,154>>, <<63,231,238,188,159,60,239,230>>,
            <<63,230,142,5,3,82,219,145>>, <<63,229,22,158,62,25,183,231>>, <<63,227,138,1,221,243,77,36>>, <<63,225,233,190,198,6,153,138>>,
            <<63,224,55,119,157,18,123,21>>, <<63,220,233,194,80,191,112,230>>, <<63,217,71,129,40,243,245,249>>, <<63,213,139,211,90,210,236,28>>,
            <<63,209,186,122,16,110,150,82>>, <<63,203,174,152,126,90,73,102>>, <<63,195,204,101,150,92,245,233>>, <<63,183,172,146,98,167,34,245>>,
            <<63,158,162,40,243,93,237,43>>, <<191,160,198,99,104,4,37,254>>, <<191,184,102,126,32,22,48,57>>, <<191,196,40,160,25,191,92,61>>,
            <<191,204,9,186,228,95,22,153>>, <<191,209,231,81,96,154,142,43>>, <<191,213,183,195,174,244,143,80>>, <<191,217,114,94,80,39,13,209>>,
            <<191,221,19,97,46,224,223,73>>, <<191,224,75,146,249,151,54,172>>, <<191,225,253,17,215,23,87,113>>, <<191,227,156,121,52,25,206,248>>,
            <<191,229,40,39,70,221,130,34>>, <<191,230,158,142,27,231,16,52>>, <<191,231,254,53,38,60,220,7>>, <<191,233,69,186,186,29,129,20>>,
            <<191,234,115,213,112,179,23,132>>, <<191,235,135,85,115,94,55,233>>, <<191,236,127,37,173,74,234,71>>, <<191,237,90,76,226,28,192,88>>,
            <<191,238,23,238,168,153,76,206>>, <<191,238,183,76,72,85,85,126>>, <<191,239,55,197,121,133,112,108>>, <<191,239,152,217,6,49,79,33>>,
            <<191,239,218,37,76,39,160,59>>, <<191,239,251,104,159,47,171,52>>, <<191,239,252,129,139,22,15,160>>, <<191,239,221,110,245,82,30,131>>,
            <<191,239,158,80,30,34,3,79>>, <<191,239,63,100,129,28,152,14>>, <<191,238,193,11,149,88,133,218>>, <<191,238,35,196,109,104,239,179>>,
            <<191,237,104,45,55,144,24,68>>, <<191,236,143,2,158,168,197,59>>, <<191,235,153,31,12,102,19,72>>, <<191,234,135,121,205,168,238,218>>,
            <<191,233,91,38,25,199,179,34>>, <<191,232,21,81,253,194,143,52>>, <<191,230,183,69,44,122,145,126>>, <<191,229,66,95,181,29,78,122>>,
            <<191,227,184,24,161,16,118,21>>, <<191,226,25,252,122,193,49,40>>, <<191,224,105,171,190,211,49,249>>, <<191,221,81,178,114,128,7,220>>,
            <<191,217,178,144,160,24,49,144>>, <<191,213,249,150,122,147,91,83>>, <<191,210,42,130,116,98,234,32>>, <<191,204,146,82,116,165,32,251>>,
            <<191,196,178,227,178,117,103,158>>, <<191,185,125,71,68,220,161,5>>, <<191,162,246,72,210,178,187,244>>, <<63,154,66,30,19,254,139,103>>,
            <<63,182,149,153,70,120,80,254>>, <<63,195,65,250,31,158,1,127>>, <<63,203,37,201,85,206,252,1>>, <<63,209,119,37,111,90,118,173>>,
            <<63,213,73,213,100,128,195,103>>, <<63,217,7,28,60,81,238,254>>, <<63,220,171,55,49,88,252,240>>, <<63,224,25,62,103,128,18,187>>,
            <<63,225,204,176,80,51,139,154>>, <<63,227,110,59,97,7,111,136>>, <<63,228,252,59,169,98,7,215>>, <<63,230,117,32,224,41,54,245>>,
            <<63,231,215,111,246,87,170,178>>, <<63,233,33,196,148,56,206,211>>, <<63,234,82,210,127,204,62,27>>, <<63,235,105,102,234,231,220,41>>,
            <<63,236,100,105,167,200,201,51>>, <<63,237,66,222,66,220,224,252>>, <<63,238,3,229,0,169,72,164>>, <<63,238,166,187,190,206,146,131>>,
            <<63,239,42,190,183,72,119,243>>, <<63,239,143,105,37,36,111,28>>, <<63,239,212,85,202,9,196,33>>, <<63,239,249,63,84,12,173,163>>,
            <<63,239,254,0,163,102,20,149>>, <<63,239,226,148,239,201,235,194>>, <<63,239,167,23,205,54,127,69>>, <<63,239,75,197,16,55,244,152>>,
            <<63,238,208,248,145,187,207,47>>, <<63,238,55,45,210,177,13,213>>, <<63,237,126,255,127,209,203,103>>, <<63,236,169,38,214,19,47,64>>,
            <<63,235,182,122,232,88,77,56>>, <<63,234,167,239,199,35,68,118>>, <<63,233,126,149,139,30,18,198>>, <<63,232,59,151,67,114,33,253>>,
            <<63,230,224,57,201,1,160,71>>, <<63,229,109,218,119,177,82,56>>, <<63,227,229,237,207,11,104,178>>, <<63,226,73,253,251,156,123,143>>,
            <<63,224,155,169,74,131,218,196>>, <<63,221,185,65,17,139,112,76>>, <<63,218,29,74,160,4,69,193>>, <<63,214,103,16,132,141,90,101>>,
            <<63,210,154,78,109,131,174,181>>, <<63,205,117,173,100,182,45,59>>, <<63,197,153,28,247,82,191,36>>, <<63,187,77,167,97,18,206,119>>,
            <<63,166,155,62,27,42,73,133>>, <<191,146,247,30,3,76,249,239>>, <<191,180,196,105,80,54,107,131>>, <<191,194,91,20,25,50,188,64>>,
            <<191,202,65,125,125,103,149,222>>, <<191,209,6,191,103,207,89,139>>, <<191,212,219,160,76,206,24,160>>, <<191,216,155,134,235,127,126,19>>,
            <<191,220,66,173,218,204,132,111>>, <<191,223,205,104,149,171,35,89>>, <<191,225,156,19,150,132,151,111>>, <<191,227,63,188,238,123,228,8>>,
            <<191,228,208,10,64,189,209,215>>, <<191,230,75,104,243,196,200,55>>, <<191,231,176,91,123,108,95,182>>, <<191,232,253,122,216,174,29,96>>,
            <<191,234,49,120,2,175,236,210>>, <<191,235,75,29,55,185,105,159>>, <<191,236,73,79,52,188,152,218>>, <<191,237,43,14,82,57,83,18>>,
            <<191,237,239,119,133,92,79,187>>, <<191,238,149,197,68,87,163,147>>, <<191,239,29,80,77,14,213,61>>, <<191,239,133,144,77,78,182,185>>,
            <<191,239,206,28,107,231,228,249>>, <<191,239,246,171,178,34,17,59>>, <<191,239,255,21,85,29,232,150>>, <<191,239,231,80,222,219,229,207>>,
            <<191,239,175,118,54,190,191,64>>, <<191,239,87,189,137,128,229,177>>, <<191,238,224,127,16,181,64,24>>, <<191,238,74,50,186,11,237,218>>,
            <<191,237,149,111,174,180,108,19>>, <<191,236,194,235,187,86,57,151>>, <<191,235,211,122,153,57,17,243>>, <<191,234,200,13,25,84,152,13>>,
            <<191,233,161,176,50,29,104,217>>, <<191,232,97,139,241,3,140,161>>, <<191,231,8,226,80,177,247,243>>, <<191,229,153,13,245,58,183,155>>,
            <<191,228,19,128,207,117,141,166>>, <<191,226,121,194,168,239,150,231>>, <<191,224,205,111,153,225,233,20>>, <<191,222,32,108,213,119,198,159>>,
            <<191,218,135,173,197,195,175,111>>, <<191,214,212,64,12,166,255,50>>, <<191,211,9,220,135,255,166,171>>, <<191,206,88,166,90,103,214,48>>,
            <<191,198,127,14,103,69,126,201>>, <<191,189,29,172,174,217,211,42>>, <<191,170,63,232,52,55,204,119>>, <<63,135,87,189,190,150,79,196>>,
            <<63,178,242,244,72,114,224,155>>, <<63,193,115,241,6,107,152,252>>, <<63,201,92,218,82,111,86,118>>, <<63,208,150,32,191,202,209,212>>,
            <<63,212,109,37,214,100,148,229>>, <<63,216,47,159,195,125,137,113>>, <<63,219,217,198,134,231,77,157>>, <<63,223,103,234,151,91,127,238>>,
            <<63,225,107,60,75,183,161,177>>, <<63,227,16,254,119,24,197,105>>, <<63,228,163,147,159,235,97,10>>, <<63,230,33,102,225,121,103,63>>,
            <<63,231,136,248,55,116,69,22>>, <<63,232,216,222,0,45,133,69>>, <<63,234,15,198,104,75,185,73>>, <<63,235,44,120,190,142,94,54>>,
            <<63,236,45,214,174,74,131,112>>, <<63,237,18,221,95,100,38,202>>, <<63,237,218,166,122,162,195,107>>, <<63,238,132,105,17,90,227,200>>,
            <<63,239,15,122,103,132,37,128>>, <<63,239,123,78,159,112,12,215>>, <<63,239,199,121,70,117,73,16>>, <<63,239,243,173,194,1,170,142>>,
            <<63,239,255,191,156,165,78,24>>, <<63,239,235,162,178,201,91,6>>, <<63,239,183,107,62,229,114,238>>, <<63,239,99,77,197,39,126,2>>,
            <<63,238,239,158,222,162,86,132>>, <<63,238,92,210,228,56,103,7>>, <<63,237,171,125,121,151,201,78>>, <<63,236,220,80,248,189,184,182>>,
            <<63,235,240,29,190,150,113,100>>, <<63,234,231,209,89,110,31,144>>, <<63,233,196,117,154,5,145,181>>, <<63,232,135,47,136,58,200,204>>,
            <<63,231,49,62,60,82,145,31>>, <<63,229,195,249,158,11,105,88>>, <<63,228,64,209,10,188,102,79>>, <<63,226,169,73,227,219,250,207>>,
            <<63,224,254,254,7,98,133,0>>, <<63,222,135,52,103,35,196,34>>, <<63,218,241,184,175,130,198,225>>, <<63,215,65,35,167,190,14,46>>,
            <<63,211,121,43,80,211,89,49>>, <<63,207,59,58,98,218,189,57>>, <<63,199,100,181,5,141,15,55>>, <<63,190,237,81,38,240,88,16>>,
            <<63,173,228,58,255,248,127,116>>, <<191,113,129,227,168,121,180,75>>, <<191,177,33,64,59,54,198,0>>, <<191,192,140,147,232,1,236,223>>,
            <<191,200,119,226,205,79,90,72>>, <<191,208,37,74,237,218,207,90>>, <<191,211,254,103,112,179,34,29>>, <<191,215,195,104,43,42,30,87>>,
            <<191,219,112,130,146,141,171,172>>, <<191,223,2,4,37,157,25,236>>, <<191,225,58,43,18,60,133,202>>, <<191,226,226,0,150,84,151,83>>,
            <<191,228,118,216,90,203,120,228>>, <<191,229,247,27,52,253,81,213>>, <<191,231,97,70,173,110,155,182>>, <<191,232,179,238,132,123,138,132>>,
            <<191,233,237,190,32,174,247,255>>, <<191,235,13,121,229,80,46,64>>, <<191,236,18,0,111,207,133,150>>, <<191,236,250,75,186,210,27,238>>,
            <<191,237,197,114,37,184,41,171>>, <<191,238,114,167,95,149,3,227>>, <<191,239,1,61,52,172,40,55>>, <<191,239,112,164,61,165,7,117>>,
            <<191,239,192,108,111,197,4,201>>, <<191,239,240,69,141,158,219,95>>, <<191,239,255,255,119,197,243,19>>, <<191,239,239,138,93,52,127,32>>,
            <<191,239,190,246,203,51,196,132>>, <<191,239,110,117,156,182,124,252>>, <<191,238,254,87,201,54,25,51>>, <<191,238,111,14,19,68,86,3>>,
            <<191,237,193,40,151,34,237,4>>, <<191,236,245,86,57,211,160,10>>, <<191,236,12,99,249,50,53,180>>, <<191,235,7,60,29,201,94,115>>,
            <<191,233,230,229,79,49,237,226>>, <<191,232,172,129,139,233,96,23>>, <<191,231,89,77,5,169,30,79>>, <<191,229,238,156,227,100,79,156>>,
            <<191,228,109,221,234,43,114,96>>, <<191,226,216,147,14,79,117,6>>, <<191,225,48,83,238,52,191,52>>, <<191,222,237,150,112,187,151,27>>,
            <<191,219,91,105,252,147,117,111>>, <<191,215,173,185,235,172,208,61>>, <<191,211,232,57,85,205,197,140>>, <<191,208,14,179,70,63,150,245>>,
            <<191,200,74,13,214,97,112,1>>, <<191,192,94,71,97,171,138,39>>, <<191,176,196,21,48,213,187,168>>, <<191,103,87,220,204,118,43,60>>,
            <<63,174,158,166,106,184,22,151>>, <<63,191,73,255,126,224,51,194>>, <<63,199,146,153,231,137,72,155>>, <<63,207,104,126,210,137,207,9>>,
            <<63,211,143,102,140,10,94,19>>, <<63,215,86,225,138,110,193,194>>, <<63,219,6,227,91,216,15,206>>, <<63,222,155,182,147,87,23,20>>,
            <<63,225,8,224,141,67,203,105>>, <<63,226,178,195,232,120,182,31>>, <<63,228,73,217,6,35,39,147>>, <<63,229,204,134,122,251,155,80>>,
            <<63,231,57,71,97,94,247,144>>, <<63,232,142,172,224,111,145,225>>, <<63,233,203,95,157,9,62,104>>, <<63,234,238,33,19,20,212,61>>,
            <<63,235,245,204,213,224,92,165>>, <<63,236,225,89,182,57,127,50>>, <<63,237,175,218,205,34,65,94>>, <<63,238,96,128,106,20,57,115>>,
            <<63,238,242,152,227,226,53,66>>, <<63,239,101,145,75,102,112,65>>, <<63,239,184,245,255,73,175,103>>, <<63,239,236,115,32,78,114,22>>,
            <<63,239,255,212,229,171,119,157>>, <<63,239,243,7,209,32,153,130>>, <<63,239,198,24,194,145,178,172>>, <<63,239,121,52,235,19,210,50>>,
            <<63,239,12,169,159,121,187,29>>, <<63,238,128,228,10,141,112,67>>, <<63,237,214,112,191,69,10,53>>, <<63,237,13,251,43,97,33,209>>,
            <<63,236,40,76,235,3,59,172>>, <<63,235,38,76,253,233,98,51>>, <<63,234,8,254,223,26,235,253>>, <<63,232,209,129,127,240,74,75>>,
            <<63,231,129,14,39,123,240,246>>, <<63,230,24,247,55,118,251,184>>, <<63,228,154,166,215,238,80,127>>, <<63,227,7,157,139,6,68,38>>,
            <<63,225,97,112,170,67,167,80>>, <<63,223,83,145,157,188,226,233>>, <<63,219,196,192,77,113,173,44>>, <<63,216,26,1,111,78,228,209>>,
            <<63,212,87,5,37,149,80,250>>, <<63,208,127,147,243,143,69,189>>, <<63,201,47,21,222,253,99,13>>, <<63,193,69,175,191,178,43,103>>,
            <<63,178,149,213,30,237,117,153>>, <<63,132,108,204,209,201,41,100>>, <<191,170,250,102,136,244,51,248>>, <<191,189,122,111,29,206,160,32>>,
            <<191,198,173,2,155,173,47,213>>, <<191,206,133,255,84,2,17,194>>, <<191,211,32,36,153,152,74,235>>, <<191,214,234,13,74,59,240,9>>,
            <<191,218,156,234,66,14,81,117>>, <<191,222,53,3,52,199,152,189>>, <<191,224,215,93,96,188,156,42>>, <<191,226,131,73,10,159,98,74>>,
            <<191,228,28,150,55,153,202,193>>, <<191,229,161,169,65,18,77,96>>, <<191,231,16,250,216,75,153,72>>, <<191,232,105,25,143,242,62,108>>,
            <<191,233,168,171,79,168,248,149>>, <<191,234,206,110,176,29,134,104>>, <<191,235,217,60,62,72,56,41>>, <<191,236,200,7,164,145,36,39>>,
            <<191,237,153,224,184,176,17,173>>, <<191,238,77,244,109,55,141,237>>, <<191,238,227,141,165,216,143,203>>, <<191,239,90,21,237,136,218,78>>,
            <<191,239,177,22,13,213,24,20>>, <<191,239,232,54,134,198,133,71>>, <<191,239,255,63,230,227,112,245>>, <<191,239,246,27,2,242,47,66>>,
            <<191,239,204,209,13,70,96,185>>, <<191,239,131,139,140,129,27,134>>, <<191,239,26,148,49,205,66,160>>, <<191,238,146,84,142,194,18,103>>,
            <<191,237,235,85,171,54,114,207>>, <<191,237,38,63,123,111,185,182>>, <<191,236,67,216,55,54,159,116>>, <<191,235,69,3,146,124,60,34>>,
            <<191,234,42,193,216,87,123,247>>, <<191,232,246,46,233,65,96,208>>, <<191,231,168,129,29,147,136,162>>, <<191,230,67,8,13,103,174,131>>,
            <<191,228,199,43,63,18,127,44>>, <<191,227,54,104,189,141,15,85>>, <<191,225,146,83,152,56,89,150>>, <<191,223,185,36,154,251,156,203>>,
            <<191,220,45,186,67,199,206,222>>, <<191,216,133,248,202,133,198,58>>, <<191,212,197,141,79,172,177,97>>, <<191,208,240,61,193,242,247,178>>,
            <<191,202,19,202,37,168,148,22>>, <<191,194,44,222,171,236,68,197>>, <<191,180,103,87,61,65,124,228>>, <<191,145,129,175,65,43,108,111>>,
            <<63,167,85,204,237,164,103,101>>, <<63,187,170,124,178,139,150,183>>, <<63,197,199,31,229,79,251,131>>, <<63,205,163,26,81,106,41,104>>,
            <<63,210,176,163,11,99,24,233>>, <<63,214,124,236,212,132,78,229>>, <<63,218,50,152,165,163,146,84>>, <<63,221,205,235,95,127,122,181>>,
            <<63,224,165,162,49,82,115,3>>, <<63,226,83,144,154,177,169,3>>, <<63,227,239,16,133,183,48,69>>, <<63,229,118,132,21,208,133,37>>,
            <<63,230,232,97,152,59,141,68>>, <<63,232,67,53,15,251,202,252>>, <<63,233,133,161,171,249,227,219>>, <<63,234,174,99,37,213,100,204>>,
            <<63,235,188,79,8,7,141,46>>, <<63,236,174,85,218,15,88,107>>, <<63,237,131,132,49,121,0,228>>, <<63,238,59,3,166,174,4,151>>,
            <<63,238,212,27,172,151,212,95>>, <<63,239,78,50,74,60,29,31>>, <<63,239,168,204,181,151,241,151>>, <<63,239,227,143,207,30,72,172>>,
            <<63,239,254,64,125,93,103,217>>, <<63,239,248,195,232,111,44,245>>, <<63,239,211,31,148,248,103,130>>, <<63,239,141,121,94,156,23,125>>,
            <<63,239,40,23,81,232,43,134>>, <<63,238,163,95,101,226,0,95>>, <<63,237,255,215,21,121,136,174>>, <<63,237,62,34,217,74,68,105>>,
            <<63,236,95,5,130,48,233,226>>, <<63,235,99,95,117,92,75,224>>, <<63,234,76,45,202,158,127,35>>, <<63,233,26,137,77,225,7,70>>,
            <<63,231,207,165,100,188,112,244>>, <<63,230,108,206,217,78,254,97>>, <<63,228,243,106,139,137,119,48>>, <<63,227,100,244,10,66,251,167>>,
            <<63,225,194,252,21,124,77,48>>, <<63,224,15,39,11,83,2,6>>, <<63,220,150,86,130,115,156,27>>, <<63,216,241,158,150,61,149,9>>,
            <<63,213,51,208,100,119,152,68>>, <<63,209,96,175,58,183,121,119>>, <<63,202,248,39,177,193,63,4>>, <<63,195,19,209,37,121,87,184>>,
            <<63,182,56,149,127,157,116,56>>, <<63,152,204,189,224,25,174,170>>, <<191,163,176,229,182,117,157,57>>, <<191,185,218,46,68,26,30,252>>,
            <<191,196,224,244,193,1,73,222>>, <<191,204,191,210,189,95,27,103>>, <<191,210,64,227,84,68,133,70>>, <<191,214,15,129,148,55,219,156>>,
            <<191,217,199,239,232,48,251,219>>, <<191,221,102,112,106,93,128,150>>, <<191,224,115,175,164,107,46,228>>, <<191,226,35,155,55,101,106,153>>,
            <<191,227,193,72,135,225,149,28>>, <<191,229,75,23,136,180,164,168>>, <<191,230,191,124,40,53,26,32>>, <<191,232,28,255,222,146,116,158>>,
            <<191,233,98,67,38,131,133,53>>, <<191,234,141,254,222,208,18,58>>, <<191,235,159,5,147,82,230,100>>, <<191,236,148,68,172,40,196,231>>,
            <<191,237,108,197,129,219,231,160>>, <<191,238,39,174,85,117,212,153>>, <<191,238,196,67,43,126,68,56>>, <<191,239,65,230,137,10,217,240>>,
            <<191,239,160,26,18,33,120,199>>, <<191,239,222,127,8,205,220,207>>, <<191,239,252,214,172,106,209,117>>, <<191,239,251,2,120,191,5,87>>,
            <<191,239,217,4,68,174,29,25>>, <<191,239,150,254,64,95,26,106>>, <<191,239,53,50,210,217,252,223>>, <<191,238,180,4,87,63,31,136>>,
            <<191,238,19,244,185,219,155,252>>, <<191,237,85,164,245,126,18,115>>, <<191,236,121,212,113,143,72,242>>, <<191,235,129,96,65,145,134,208>>,
            <<191,234,109,66,70,200,71,40>>, <<191,233,62,144,52,231,178,57>>, <<191,231,246,122,122,200,229,114>>, <<191,230,150,75,16,59,209,7>>,
            <<191,229,31,100,42,42,133,115>>, <<191,227,147,62,214,91,190,94>>, <<191,225,243,105,128,59,59,81>>, <<191,224,65,134,96,36,186,123>>,
            <<191,220,254,147,173,138,77,83>>, <<191,217,92,241,108,113,150,2>>, <<191,213,161,204,245,63,76,53>>, <<191,209,208,230,231,229,49,89>>,
            <<191,203,220,43,139,197,179,236>>, <<191,195,250,132,44,65,208,46>>, <<191,184,9,137,218,175,46,43>>, <<191,160,11,189,2,21,176,251>>,
            <<63,160,11,189,2,21,223,83>>, <<63,184,9,137,218,175,69,63>>, <<63,195,250,132,44,65,219,161>>, <<63,203,220,43,139,197,191,60>>,
            <<63,209,208,230,231,229,54,234>>, <<63,213,161,204,245,63,81,170>>, <<63,217,92,241,108,113,155,84>>, <<63,220,254,147,173,138,82,126>>,
            <<63,224,65,134,96,36,182,22>>, <<63,225,243,105,128,59,61,183>>, <<63,227,147,62,214,91,192,168>>, <<63,229,31,100,42,42,135,161>>,
            <<63,230,150,75,16,59,211,20>>, <<63,231,246,122,122,200,231,94>>, <<63,233,62,144,52,231,180,1>>, <<63,234,109,66,70,200,72,202>>,
            <<63,235,129,96,65,145,136,76>>, <<63,236,121,212,113,143,74,68>>, <<63,237,85,164,245,126,19,156>>, <<63,238,19,244,185,219,156,249>>,
            <<63,238,180,4,87,63,32,89>>, <<63,239,53,50,210,217,253,131>>, <<63,239,150,254,64,95,26,224>>, <<63,239,217,4,68,174,29,97>>,
            <<63,239,251,2,120,191,5,112>>, <<63,239,252,214,172,106,209,97>>, <<63,239,222,127,8,205,220,140>>, <<63,239,160,26,18,33,120,86>>,
            <<63,239,65,230,137,10,217,81>>, <<63,238,196,67,43,126,67,108>>, <<63,238,39,174,85,117,211,161>>, <<63,237,108,197,129,219,230,125>>,
            <<63,236,148,68,172,40,195,153>>, <<63,235,159,5,147,82,228,237>>, <<63,234,141,254,222,208,16,156>>, <<63,233,98,67,38,131,131,113>>,
            <<63,232,28,255,222,146,119,248>>, <<63,230,191,124,40,53,24,22>>, <<63,229,75,23,136,180,168,119>>, <<63,227,193,72,135,225,146,212>>,
            <<63,226,35,155,55,101,104,54>>, <<63,224,115,175,164,107,44,104>>, <<63,221,102,112,106,93,123,112>>, <<63,217,199,239,232,48,246,141>>,
            <<63,214,15,129,148,55,214,43>>, <<63,210,64,227,84,68,127,184>>, <<63,204,191,210,189,95,16,28>>, <<63,196,224,244,193,1,62,111>>,
            <<63,185,218,46,68,26,7,236>>, <<63,163,176,229,182,117,110,228>>, <<191,152,204,189,224,26,11,94>>, <<191,182,56,149,127,157,139,80>>,
            <<191,195,19,209,37,121,99,46>>, <<191,202,248,39,177,193,43,16>>, <<191,209,96,175,58,183,127,11>>, <<191,213,51,208,100,119,142,163>>,
            <<191,216,241,158,150,61,154,96>>, <<191,220,150,86,130,115,161,75>>, <<191,224,15,39,11,83,4,136>>, <<191,225,194,252,21,124,79,153>>,
            <<191,227,100,244,10,66,253,245>>, <<191,228,243,106,139,137,121,97>>, <<191,230,108,206,217,79,0,114>>, <<191,231,207,165,100,188,114,227>>,
            <<191,233,26,137,77,225,9,18>>, <<191,234,76,45,202,158,128,201>>, <<191,235,99,95,117,92,77,95>>, <<191,236,95,5,130,48,231,134>>,
            <<191,237,62,34,217,74,69,150>>, <<191,237,255,215,21,121,137,176>>, <<191,238,163,95,101,226,1,53>>, <<191,239,40,23,81,232,44,47>>,
            <<191,239,141,121,94,156,23,248>>, <<191,239,211,31,148,248,103,208>>, <<191,239,248,195,232,111,45,20>>, <<191,239,254,64,125,93,103,202>>,
            <<191,239,227,143,207,30,72,110>>, <<191,239,168,204,181,151,241,43>>, <<191,239,78,50,74,60,28,134>>, <<191,238,212,27,172,151,211,152>>,
            <<191,238,59,3,166,174,3,163>>, <<191,237,131,132,49,120,255,197>>, <<191,236,174,85,218,15,90,175>>, <<191,235,188,79,8,7,139,188>>,
            <<191,234,174,99,37,213,99,51>>, <<191,233,133,161,171,249,226,28>>, <<191,232,67,53,15,251,201,24>>, <<191,230,232,97,152,59,139,62>>,
            <<191,229,118,132,21,208,130,255>>, <<191,227,239,16,133,183,46,1>>, <<191,226,83,144,154,177,166,163>>, <<191,224,165,162,49,82,112,138>>,
            <<191,221,205,235,95,127,117,148>>, <<191,218,50,152,165,163,141,10>>, <<191,214,124,236,212,132,73,120>>, <<191,210,176,163,11,99,19,94>>,
            <<191,205,163,26,81,106,30,33>>, <<191,197,199,31,229,79,240,23>>, <<191,187,170,124,178,139,127,171>>, <<191,167,85,204,237,164,184,242>>,
            <<63,145,129,175,65,43,201,38>>, <<63,180,103,87,61,65,147,255>>, <<63,194,44,222,171,236,80,63>>, <<63,202,19,202,37,168,159,112>>,
            <<63,208,240,61,193,242,253,72>>, <<63,212,197,141,79,172,182,220>>, <<63,216,133,248,202,133,203,149>>, <<63,220,45,186,67,199,212,19>>,
            <<63,223,185,36,154,251,161,212>>, <<63,225,146,83,152,56,92,2>>, <<63,227,54,104,189,141,17,167>>, <<63,228,199,43,63,18,129,96>>,
            <<63,230,67,8,13,103,170,217>>, <<63,231,168,129,29,147,138,149>>, <<63,232,246,46,233,65,98,161>>, <<63,234,42,193,216,87,125,162>>,
            <<63,235,69,3,146,124,61,166>>, <<63,236,67,216,55,54,160,208>>, <<63,237,38,63,123,111,186,232>>, <<63,237,235,85,171,54,115,214>>,
            <<63,238,146,84,142,194,19,66>>, <<63,239,26,148,49,205,67,78>>, <<63,239,131,139,140,129,28,7>>, <<63,239,204,209,13,70,97,12>>,
            <<63,239,246,27,2,242,47,102>>, <<63,239,255,63,230,227,112,235>>, <<63,239,232,54,134,198,133,171>>, <<63,239,177,22,13,213,23,173>>,
            <<63,239,90,21,237,136,217,186>>, <<63,238,227,141,165,216,143,9>>, <<63,238,77,244,109,55,140,255>>, <<63,237,153,224,184,176,16,147>>,
            <<63,236,200,7,164,145,34,226>>, <<63,235,217,60,62,72,54,188>>, <<63,234,206,110,176,29,132,211>>, <<63,233,168,171,79,168,246,218>>,
            <<63,232,105,25,143,242,60,141>>, <<63,231,16,250,216,75,151,70>>, <<63,229,161,169,65,18,75,61>>, <<63,228,28,150,55,153,200,128>>,
            <<63,226,131,73,10,159,95,237>>, <<63,224,215,93,96,188,153,179>>, <<63,222,53,3,52,199,147,161>>, <<63,218,156,234,66,14,90,188>>,
            <<63,214,234,13,74,59,234,159>>, <<63,211,32,36,153,152,69,99>>, <<63,206,133,255,84,2,6,128>>, <<63,198,173,2,155,173,36,109>>,
            <<63,189,122,111,29,206,137,25>>, <<63,170,250,102,136,244,5,171>>, <<191,132,108,204,209,201,226,216>>, <<191,178,149,213,30,237,140,184>>,
            <<191,193,69,175,191,178,54,227>>, <<191,201,47,21,222,253,110,106>>, <<191,208,127,147,243,143,75,87>>, <<191,212,87,5,37,149,86,121>>,
            <<191,216,26,1,111,78,234,48>>, <<191,219,196,192,77,113,163,251>>, <<191,223,83,145,157,188,231,247>>, <<191,225,97,112,170,67,163,7>>,
            <<191,227,7,157,139,6,70,123>>, <<191,228,154,166,215,238,82,183>>, <<191,230,24,247,55,118,253,209>>, <<191,231,129,14,39,123,242,237>>,
            <<191,232,209,129,127,240,76,31>>, <<191,234,8,254,223,26,237,173>>, <<191,235,38,76,253,233,99,188>>, <<191,236,40,76,235,3,61,13>>,
            <<191,237,13,251,43,97,35,8>>, <<191,237,214,112,191,69,11,65>>, <<191,238,128,228,10,141,113,35>>, <<191,239,12,169,159,121,185,225>>,
            <<191,239,121,52,235,19,210,184>>, <<191,239,198,24,194,145,179,4>>, <<191,239,243,7,209,32,153,171>>, <<191,239,255,212,229,171,119,152>>,
            <<191,239,236,115,32,78,114,112>>, <<191,239,184,245,255,73,175,5>>, <<191,239,101,145,75,102,111,177>>, <<191,238,242,152,227,226,52,133>>,
            <<191,238,96,128,106,20,56,138>>, <<191,237,175,218,205,34,64,73>>, <<191,236,225,89,182,57,125,242>>, <<191,235,245,204,213,224,91,60>>,
            <<191,234,238,33,19,20,210,173>>, <<191,233,203,95,157,9,60,177>>, <<191,232,142,172,224,111,144,5>>, <<191,231,57,71,97,94,245,146>>,
            <<191,229,204,134,122,251,159,13>>, <<191,228,73,217,6,35,37,85>>, <<191,226,178,195,232,120,179,197>>, <<191,225,8,224,141,67,200,245>>,
            <<191,222,155,182,147,87,17,253>>, <<191,219,6,227,91,216,10,141>>, <<191,215,86,225,138,110,188,92>>, <<191,211,143,102,140,10,88,142>>,
            <<191,207,104,126,210,137,195,204>>, <<191,199,146,153,231,137,61,55>>, <<191,191,73,255,126,224,28,192>>, <<191,174,158,166,106,183,232,79>>,
            <<63,103,87,220,204,121,17,18>>, <<63,176,196,21,48,213,210,202>>, <<63,192,94,71,97,171,149,166>>, <<63,200,74,13,214,97,91,247>>,
            <<63,208,14,179,70,63,156,146>>, <<63,211,232,57,85,205,203,14>>, <<63,215,173,185,235,172,213,160>>, <<63,219,91,105,252,147,122,172>>,
            <<63,222,237,150,112,187,156,45>>, <<63,225,48,83,238,52,193,165>>, <<63,226,216,147,14,79,119,93>>, <<63,228,109,221,234,43,116,155>>,
            <<63,229,238,156,227,100,81,184>>, <<63,231,89,77,5,169,32,74>>, <<63,232,172,129,139,233,97,240>>, <<63,233,230,229,79,49,239,150>>,
            <<63,235,7,60,29,201,91,183>>, <<63,236,12,99,249,50,55,25>>, <<63,236,245,86,57,211,161,70>>, <<63,237,193,40,151,34,238,21>>,
            <<63,238,111,14,19,68,84,111>>, <<63,238,254,87,201,54,25,235>>, <<63,239,110,117,156,182,125,136>>, <<63,239,190,246,203,51,196,226>>,
            <<63,239,239,138,93,52,127,79>>, <<63,239,255,255,119,197,243,20>>, <<63,239,240,69,141,158,219,49>>, <<63,239,192,108,111,197,4,109>>,
            <<63,239,112,164,61,165,6,235>>, <<63,239,1,61,52,172,39,127>>, <<63,238,114,167,95,149,2,255>>, <<63,237,197,114,37,184,40,155>>,
            <<63,236,250,75,186,210,26,180>>, <<63,236,18,0,111,207,136,9>>, <<63,235,13,121,229,80,44,180>>, <<63,233,237,190,32,174,246,76>>,
            <<63,232,179,238,132,123,136,172>>, <<63,231,97,70,173,110,153,188>>, <<63,229,247,27,52,253,79,185>>, <<63,228,118,216,90,203,118,170>>,
            <<63,226,226,0,150,84,148,252>>, <<63,225,58,43,18,60,131,89>>, <<63,223,2,4,37,157,20,218>>, <<63,219,112,130,146,141,166,111>>,
            <<63,215,195,104,43,42,24,245>>, <<63,211,254,103,112,179,28,156>>, <<63,208,37,74,237,218,201,191>>, <<63,200,119,226,205,79,110,80>>,
            <<63,192,140,147,232,1,225,96>>, <<63,177,33,64,59,54,174,223>>, <<63,113,129,227,168,120,65,97>>, <<191,173,228,58,255,248,173,190>>,
            <<191,190,237,81,38,240,111,19>>, <<191,199,100,181,5,141,26,156>>, <<191,207,59,58,98,218,200,119>>, <<191,211,121,43,80,211,94,182>>,
            <<191,215,65,35,167,190,19,148>>, <<191,218,241,184,175,130,204,35>>, <<191,222,135,52,103,35,201,58>>, <<191,224,254,254,7,98,135,117>>,
            <<191,226,169,73,227,219,253,42>>, <<191,228,64,209,10,188,98,91>>, <<191,229,195,249,158,11,107,120>>, <<191,231,49,62,60,82,147,30>>,
            <<191,232,135,47,136,58,197,133>>, <<191,233,196,117,154,5,147,109>>, <<191,234,231,209,89,110,33,34>>, <<191,235,240,29,190,150,114,206>>,
            <<191,236,220,80,248,189,185,247>>, <<191,237,171,125,121,151,202,100>>, <<191,238,92,210,228,56,103,241>>, <<191,238,239,158,222,162,87,66>>,
            <<191,239,99,77,197,39,126,147>>, <<191,239,183,107,62,229,115,81>>, <<191,239,235,162,178,201,91,58>>, <<191,239,255,191,156,165,78,30>>,
            <<191,239,243,173,194,1,170,101>>, <<191,239,199,121,70,117,72,185>>, <<191,239,123,78,159,112,13,193>>, <<191,239,15,122,103,132,36,205>>,
            <<191,238,132,105,17,90,229,81>>, <<191,237,218,166,122,162,194,96>>, <<191,237,18,221,95,100,37,148>>, <<191,236,45,214,174,74,130,16>>,
            <<191,235,44,120,190,142,92,174>>, <<191,234,15,198,104,75,183,154>>, <<191,232,216,222,0,45,131,114>>, <<191,231,136,248,55,116,67,31>>,
            <<191,230,33,102,225,121,101,39>>, <<191,228,163,147,159,235,94,211>>, <<191,227,16,254,119,24,195,21>>, <<191,225,107,60,75,183,159,67>>,
            <<191,223,103,234,151,91,136,210>>, <<191,219,217,198,134,231,72,101>>, <<191,216,47,159,195,125,132,19>>, <<191,212,109,37,214,100,143,103>>,
            <<191,208,150,32,191,202,204,60>>, <<191,201,92,218,82,111,106,119>>, <<191,193,115,241,6,107,141,129>>, <<191,178,242,244,72,114,201,124>>,
            <<191,135,87,189,190,149,150,81>>, <<63,170,63,232,52,55,250,197>>, <<63,189,29,172,174,217,234,50>>, <<63,198,127,14,103,69,138,51>>,
            <<63,206,88,166,90,103,225,114>>, <<63,211,9,220,135,255,172,52>>, <<63,214,212,64,12,167,4,156>>, <<63,218,135,173,197,195,180,181>>,
            <<63,222,32,108,213,119,203,188>>, <<63,224,205,111,153,225,228,188>>, <<63,226,121,194,168,239,153,68>>, <<63,228,19,128,207,117,143,232>>,
            <<63,229,153,13,245,58,185,190>>, <<63,231,8,226,80,177,249,245>>, <<63,232,97,139,241,3,142,130>>, <<63,233,161,176,50,29,106,149>>,
            <<63,234,200,13,25,84,153,163>>, <<63,235,211,122,153,57,19,98>>, <<63,236,194,235,187,86,58,220>>, <<63,237,149,111,174,180,109,46>>,
            <<63,238,74,50,186,11,238,202>>, <<63,238,224,127,16,181,64,218>>, <<63,239,87,189,137,128,230,71>>, <<63,239,175,118,54,190,191,168>>,
            <<63,239,231,80,222,219,229,106>>, <<63,239,255,21,85,29,232,161>>, <<63,239,246,171,178,34,17,24>>, <<63,239,206,28,107,231,228,167>>,
            <<63,239,133,144,77,78,182,57>>, <<63,239,29,80,77,14,212,144>>, <<63,238,149,197,68,87,162,184>>, <<63,237,239,119,133,92,78,180>>,
            <<63,237,43,14,82,57,81,225>>, <<63,236,73,79,52,188,151,127>>, <<63,235,75,29,55,185,104,28>>, <<63,234,49,120,2,175,235,40>>,
            <<63,232,253,122,216,174,27,145>>, <<63,231,176,91,123,108,99,36>>, <<63,230,75,104,243,196,198,35>>, <<63,228,208,10,64,189,207,163>>,
            <<63,227,63,188,238,123,225,184>>, <<63,225,156,19,150,132,155,178>>, <<63,223,205,104,149,171,30,81>>, <<63,220,66,173,218,204,127,60>>,
            <<63,216,155,134,235,127,120,185>>, <<63,212,219,160,76,206,19,37>>, <<63,209,6,191,103,207,83,245>>, <<63,202,65,125,125,103,138,134>>,
            <<63,194,91,20,25,50,176,199>>, <<63,180,196,105,80,54,84,104>>, <<63,146,247,30,3,76,157,56>>, <<191,166,155,62,27,41,247,246>>,
            <<191,187,77,167,97,18,229,132>>, <<191,197,153,28,247,82,202,144>>, <<191,205,117,173,100,182,25,95>>, <<191,210,154,78,109,131,180,65>>,
            <<191,214,103,16,132,141,95,211>>, <<191,218,29,74,160,4,75,11>>, <<191,221,185,65,17,139,117,110>>, <<191,224,155,169,74,131,221,63>>,
            <<191,226,73,253,251,156,125,240>>, <<191,227,229,237,207,11,106,247>>, <<191,229,109,218,119,177,84,95>>, <<191,230,224,57,201,1,162,77>>,
            <<191,232,59,151,67,114,35,225>>, <<191,233,126,149,139,30,20,134>>, <<191,234,167,239,199,35,70,16>>, <<191,235,182,122,232,88,78,171>>,
            <<191,236,169,38,214,19,44,251>>, <<191,237,126,255,127,209,204,135>>, <<191,238,55,45,210,177,14,202>>, <<191,238,208,248,145,187,207,247>>,
            <<191,239,75,197,16,55,245,50>>, <<191,239,167,23,205,54,127,178>>, <<191,239,226,148,239,201,236,1>>, <<191,239,254,0,163,102,20,166>>,
            <<191,239,249,63,84,12,173,132>>, <<191,239,212,85,202,9,195,212>>, <<191,239,143,105,37,36,110,162>>, <<191,239,42,190,183,72,119,75>>,
            <<191,238,166,187,190,206,145,173>>, <<191,238,3,229,0,169,71,163>>, <<191,237,66,222,66,220,227,13>>, <<191,236,100,105,167,200,199,220>>,
            <<191,235,105,102,234,231,218,170>>, <<191,234,82,210,127,204,65,2>>, <<191,233,33,196,148,56,205,7>>, <<191,231,215,111,246,87,168,195>>,
            <<191,230,117,32,224,41,52,229>>, <<191,228,252,59,169,98,5,167>>, <<191,227,110,59,97,7,109,59>>, <<191,225,204,176,80,51,137,50>>,
            <<191,224,25,62,103,128,16,58>>, <<191,220,171,55,49,88,247,194>>, <<191,217,7,28,60,81,233,168>>, <<191,213,73,213,100,128,189,239>>,
            <<191,209,119,37,111,90,128,126>>, <<191,203,37,201,85,206,240,173>>, <<191,195,65,250,31,157,246,10>>, <<191,182,149,153,70,120,121,167>>,
            <<191,154,66,30,19,254,46,180>>, <<63,162,246,72,210,178,234,73>>, <<63,185,125,71,68,220,184,22>>, <<63,196,178,227,178,117,115,14>>,
            <<63,204,146,82,116,165,44,71>>, <<63,210,42,130,116,98,239,175>>, <<63,213,249,150,122,147,96,196>>, <<63,217,178,144,160,24,54,223>>,
            <<63,221,81,178,114,128,13,3>>, <<63,224,105,171,190,211,52,118>>, <<63,226,25,252,122,193,51,139>>, <<63,227,184,24,161,16,120,93>>,
            <<63,229,66,95,181,29,80,164>>, <<63,230,183,69,44,122,141,230>>, <<63,232,21,81,253,194,145,28>>, <<63,233,91,38,25,199,180,230>>,
            <<63,234,135,121,205,168,240,121>>, <<63,235,153,31,12,102,20,192>>, <<63,236,143,2,158,168,194,238>>, <<63,237,104,45,55,144,25,105>>,
            <<63,238,35,196,109,104,240,172>>, <<63,238,193,11,149,88,134,167>>, <<63,239,63,100,129,28,152,174>>, <<63,239,158,80,30,34,3,193>>,
            <<63,239,221,110,245,82,30,200>>, <<63,239,252,129,139,22,15,181>>, <<63,239,251,104,159,47,171,27>>, <<63,239,218,37,76,39,159,243>>,
            <<63,239,152,217,6,49,78,171>>, <<63,239,55,197,121,133,111,200>>, <<63,238,183,76,72,85,84,174>>, <<63,238,23,238,168,153,75,210>>,
            <<63,237,90,76,226,28,191,48>>, <<63,236,127,37,173,74,232,245>>, <<63,235,135,85,115,94,54,111>>, <<63,234,115,213,112,179,26,99>>,
            <<63,233,69,186,186,29,127,77>>, <<63,231,254,53,38,60,218,28>>, <<63,230,158,142,27,231,14,39>>, <<63,229,40,39,70,221,127,246>>,
            <<63,227,156,121,52,25,204,173>>, <<63,225,253,17,215,23,91,169>>, <<63,224,75,146,249,151,52,46>>, <<63,221,19,97,46,224,218,31>>,
            <<63,217,114,94,80,39,8,128>>, <<63,213,183,195,174,244,137,220>>, <<63,209,231,81,96,154,136,155>>, <<63,204,9,186,228,95,11,74>>,
            <<63,196,40,160,25,191,80,203>>, <<63,184,102,126,32,22,25,37>>, <<63,160,198,99,104,3,247,167>>, <<191,158,162,40,243,94,73,219>>,
            <<191,183,172,146,98,167,58,10>>, <<191,195,204,101,150,93,1,93>>, <<191,203,174,152,126,90,84,183>>, <<191,209,186,122,16,110,155,227>>,
            <<191,213,139,211,90,210,241,145>>, <<191,217,71,129,40,243,251,76>>, <<191,220,233,194,80,191,103,203>>, <<191,224,55,119,157,18,125,149>>,
            <<191,225,233,190,198,6,155,241>>, <<191,227,138,1,221,243,79,112>>, <<191,229,22,158,62,25,180,16>>, <<191,230,142,5,3,82,221,159>>,
            <<191,231,238,188,159,60,241,210>>, <<191,233,55,98,83,244,101,99>>, <<191,234,102,171,152,219,41,252>>, <<191,235,123,103,103,6,239,4>>,
            <<191,236,116,127,108,8,53,10>>, <<191,237,80,249,33,213,205,238>>, <<191,238,15,246,202,194,245,37>>, <<191,238,176,184,80,130,202,220>>,
            <<191,239,50,156,5,88,233,114>>, <<191,239,149,31,70,180,183,141>>, <<191,239,215,223,0,147,223,254>>, <<191,239,250,152,17,39,245,254>>,
            <<191,239,253,39,140,90,223,253>>, <<191,239,223,138,222,238,67,62>>, <<191,239,161,223,209,18,135,5>>, <<191,239,68,100,104,114,230,97>>,
            <<191,238,199,118,169,212,154,128>>, <<191,238,43,148,58,135,247,241>>, <<191,237,113,89,226,10,124,171>>, <<191,236,153,130,236,88,236,140>>,
            <<191,235,164,232,109,144,33,183>>, <<191,234,148,128,103,154,4,2>>, <<191,233,105,92,210,194,12,253>>, <<191,232,36,170,138,42,116,85>>,
            <<191,230,199,176,29,55,5,192>>, <<191,229,83,204,135,29,220,183>>, <<191,227,202,117,205,232,96,176>>, <<191,226,45,55,138,71,206,187>>,
            <<191,224,125,177,89,183,14,48>>, <<191,221,123,42,120,245,107,13>>, <<191,217,221,75,194,69,191,152>>, <<191,214,37,105,190,140,234,110>>,
            <<191,210,87,65,198,127,16,195>>, <<191,204,237,79,50,253,176,181>>, <<191,197,15,3,8,125,152,52>>, <<191,186,55,17,210,230,97,157>>,
            <<191,164,107,127,251,156,96,112>>, <<63,151,87,90,95,157,113,159>>, <<63,181,219,142,195,252,52,241>>, <<63,194,229,165,161,158,38,74>>,
            <<63,202,202,130,119,54,214,9>>, <<63,209,74,54,182,65,20,118>>, <<63,213,29,200,146,89,13,209>>, <<63,216,220,29,158,168,60,201>>,
            <<63,220,129,114,5,247,225,211>>, <<63,224,5,13,140,57,194,177>>, <<63,225,185,69,125,221,210,112>>, <<63,227,91,170,30,252,178,2>>,
            <<63,228,234,150,164,44,195,32>>, <<63,230,100,121,214,187,223,137>>, <<63,231,199,215,168,51,191,250>>, <<63,233,19,74,176,150,188,49>>,
            <<63,234,69,133,149,213,7,83>>, <<63,235,93,84,91,16,155,53>>, <<63,236,89,157,150,94,152,204>>, <<63,237,57,99,139,206,170,228>>,
            <<63,237,251,197,44,155,230,138>>, <<63,238,159,254,249,134,38,212>>, <<63,239,37,107,199,112,168,48>>, <<63,239,139,133,101,127,195,50>>,
            <<63,239,209,229,36,15,6,155>>, <<63,239,248,68,59,247,177,246>>, <<63,239,254,124,21,191,229,51>>, <<63,239,228,134,112,106,202,153>>,
            <<63,239,170,125,103,194,198,0>>, <<63,239,80,155,90,23,74,202>>, <<63,238,215,58,173,136,206,197>>, <<63,238,62,213,117,29,201,217>>,
            <<63,237,136,4,245,252,91,147>>, <<63,236,179,129,13,67,234,189>>, <<63,235,194,31,119,33,210,237>>, <<63,234,180,210,247,219,44,12>>,
            <<63,233,140,170,103,163,219,177>>, <<63,232,74,207,162,56,72,211>>, <<63,230,240,134,91,76,24,131>>, <<63,229,127,42,216,250,179,27>>,
            <<63,227,248,48,149,129,118,23>>, <<63,226,93,32,201,163,171,116>>, <<63,224,175,152,225,47,239,211>>, <<63,221,226,145,182,105,168,80>>,
            <<63,218,71,227,47,14,114,11>>, <<63,214,146,198,38,157,110,151>>, <<63,210,198,245,44,189,136,224>>, <<63,205,208,131,76,198,154,250>>,
            <<63,197,245,31,237,158,189,138>>, <<63,188,7,78,85,206,39,137>>, <<63,168,16,88,165,103,79,234>>, <<191,144,12,62,42,211,69,173>>,
            <<191,180,10,66,115,106,207,244>>, <<191,193,254,166,211,168,145,52>>, <<191,201,230,19,85,206,131,128>>, <<191,208,217,185,219,56,144,102>>,
            <<191,212,175,119,143,33,34,195>>, <<191,216,112,103,102,93,62,19>>, <<191,220,24,194,237,23,124,151>>, <<191,223,164,220,103,232,219,186>>,
            <<191,225,136,145,67,126,8,212>>, <<191,227,45,17,254,77,130,31>>, <<191,228,190,73,121,197,237,82>>, <<191,230,58,164,48,224,115,218>>,
            <<191,231,160,163,154,2,57,20>>, <<191,232,238,223,167,184,54,168>>, <<191,234,36,8,50,213,150,151>>, <<191,235,62,230,76,136,227,79>>,
            <<191,236,62,93,119,19,198,95>>, <<191,237,33,108,195,234,176,131>>, <<191,237,231,47,214,29,10,162>>, <<191,238,142,223,200,1,166,109>>,
            <<191,239,23,211,243,64,163,201>>, <<191,239,129,130,154,113,168,89>>, <<191,239,203,129,115,163,162,168>>, <<191,239,245,134,19,66,232,109>>,
            <<191,239,255,102,54,242,41,61>>, <<191,239,233,23,240,10,226,123>>, <<191,239,178,177,173,154,158,47>>, <<191,239,92,106,37,210,237,134>>,
            <<191,238,230,152,31,2,209,116>>, <<191,238,81,178,24,80,241,238>>, <<191,237,158,77,210,142,75,2>>, <<191,236,205,31,185,153,98,136>>,
            <<191,235,222,250,46,233,55,74>>, <<191,234,212,204,181,246,189,235>>, <<191,233,175,163,3,89,111,180>>, <<191,232,112,163,239,137,75,109>>,
            <<191,231,25,16,78,85,38,29>>, <<191,229,170,65,172,55,130,67>>, <<191,228,37,168,242,206,54,39>>, <<191,226,140,204,245,210,200,203>>,
            <<191,224,225,72,234,8,127,10>>, <<191,222,73,149,143,86,167,255>>, <<191,218,178,35,51,255,183,139>>, <<191,214,255,215,123,110,155,210>>,
            <<191,211,54,106,31,214,109,250>>, <<191,206,179,84,62,21,123,199>>, <<191,198,218,243,203,209,97,225>>, <<191,189,215,45,160,212,119,76>>,
            <<191,171,180,225,70,231,162,41>>, <<63,129,129,217,45,99,220,54>>, <<63,178,56,179,124,116,55,95>>, <<63,193,23,108,44,188,184,63>>,
            <<63,201,1,78,17,221,10,100>>, <<63,208,105,4,245,114,195,112>>, <<63,212,64,225,192,16,48,33>>, <<63,216,4,95,230,78,90,0>>,
            <<63,219,175,182,98,71,135,182>>, <<63,223,63,52,121,62,96,244>>, <<63,225,87,162,184,226,131,17>>, <<63,226,254,58,22,220,180,144>>,
            <<63,228,145,183,82,60,22,101>>, <<63,230,16,132,156,227,25,166>>, <<63,231,121,32,247,10,165,128>>, <<63,232,202,33,178,119,184,248>>,
            <<63,234,2,51,223,62,125,228>>, <<63,235,32,29,160,164,47,228>>, <<63,236,34,191,104,201,39,225>>, <<63,237,9,21,25,221,35,35>>,
            <<63,237,210,55,11,187,89,113>>, <<63,238,125,90,244,231,11,210>>, <<63,239,9,212,181,254,53,222>>, <<63,239,119,23,6,213,213,164>>,
            <<63,239,196,180,4,145,189,10>>, <<63,239,242,93,160,40,220,108>>, <<63,239,255,229,236,230,254,164>>, <<63,239,237,63,78,156,252,94>>,
            <<63,239,186,124,135,80,231,194>>, <<63,239,103,208,164,96,121,157>>, <<63,238,245,142,203,40,169,82>>, <<63,238,100,41,229,102,45,165>>,
            <<63,237,180,52,45,162,218,152>>, <<63,236,230,94,156,36,60,206>>, <<63,235,251,120,52,239,86,8>>, <<63,234,244,109,55,148,80,169>>,
            <<63,233,210,70,49,147,227,221>>, <<63,232,150,38,244,77,14,130>>, <<63,231,65,77,111,126,225,148>>, <<63,229,213,16,113,133,156,174>>,
            <<63,228,82,222,78,148,173,31>>, <<63,226,188,59,112,72,10,36>>, <<63,225,18,192,207,0,13,251>>, <<63,222,176,52,173,31,230,37>>,
            <<63,219,28,10,111,186,217,246>>, <<63,215,108,156,82,66,197,148>>, <<63,211,165,159,45,25,239,147>>, <<63,207,149,191,20,144,11,155>>,
            <<63,199,192,123,166,183,6,180>>, <<63,191,166,169,173,53,229,91>>, <<63,175,89,13,194,168,96,132>>, <<191,87,87,222,89,241,79,40>>,
            <<191,176,102,231,235,119,2,82>>, <<191,192,47,248,173,226,60,41>>, <<191,200,28,53,164,61,13,202>>, <<191,207,240,50,247,143,43,238>>,
            <<191,211,210,8,148,239,229,116>>, <<191,215,152,8,133,197,62,194>>, <<191,219,70,77,194,232,70,112>>, <<191,222,217,36,158,139,69,63>>,
            <<191,225,38,122,128,200,104,109>>, <<191,226,207,35,4,117,90,20>>, <<191,228,100,224,193,203,129,237>>, <<191,229,230,27,166,220,49,9>>,
            <<191,231,81,80,66,180,155,226>>, <<191,232,165,17,75,7,241,153>>, <<191,233,224,9,11,146,146,75>>, <<191,235,0,250,189,196,88,235>>,
            <<191,236,6,195,199,88,151,78>>, <<191,236,240,92,222,155,123,147>>, <<191,237,188,219,19,54,133,233>>, <<191,238,107,112,186,122,36,224>>,
            <<191,238,251,110,62,54,159,144>>, <<191,239,108,66,205,84,52,245>>, <<191,239,189,124,237,121,15,103>>, <<191,239,238,202,237,42,83,226>>,
            <<191,239,255,251,53,245,166,218>>, <<191,239,240,252,126,80,128,85>>, <<191,239,193,221,218,251,24,190>>, <<191,239,114,206,175,213,130,173>>,
            <<191,239,4,30,128,54,41,102>>, <<191,238,118,60,158,241,157,12>>, <<191,237,201,183,190,100,55,98>>, <<191,236,255,61,96,238,3,210>>,
            <<191,236,23,153,42,113,111,230>>, <<191,235,19,180,19,132,59,156>>, <<191,233,244,147,127,32,117,248>>, <<191,232,187,88,51,193,137,212>>,
            <<191,231,105,61,56,245,101,58>>, <<191,229,255,150,154,133,243,2>>, <<191,228,127,208,18,121,205,116>>, <<191,226,235,107,155,67,156,69>>,
            <<191,225,67,255,235,144,138,26>>, <<191,223,22,109,186,120,26,242>>, <<191,219,133,151,130,8,79,171>>, <<191,215,217,19,65,90,165,160>>,
            <<191,212,20,146,226,172,146,232>>, <<191,208,59,224,111,151,204,20>>, <<191,200,165,180,130,238,58,226>>, <<191,192,186,222,58,188,140,89>>,
            <<191,177,126,104,254,52,69,185>>, <<191,119,87,214,150,123,33,190>>, <<63,173,41,203,155,55,169,106>>, <<63,190,144,158,177,187,86,121>>,
            <<63,199,54,205,6,221,73,48>>, <<63,207,13,241,203,136,232,234>>, <<63,211,98,237,126,106,8,66>>, <<63,215,43,98,173,21,37,34>>,
            <<63,218,220,138,109,140,0,191>>, <<63,222,114,174,43,64,145,68>>, <<63,224,245,25,62,172,220,63>>, <<63,226,159,205,99,180,166,59>>,
            <<63,228,55,198,93,147,248,91>>, <<63,229,187,105,219,216,58,213>>, <<63,231,41,50,1,107,86,191>>, <<63,232,127,174,236,173,184,146>>,
            <<63,233,189,136,41,116,88,158>>, <<63,234,225,126,11,119,51,203>>, <<63,235,234,106,239,211,37,178>>, <<63,236,215,68,100,92,100,3>>,
            <<63,237,167,28,51,152,30,46>>, <<63,238,89,33,84,79,246,34>>, <<63,238,236,160,187,206,116,7>>, <<63,239,97,6,17,240,188,71>>,
            <<63,239,181,220,70,88,182,187>>, <<63,239,234,206,6,41,113,61>>, <<63,239,255,166,17,215,87,47>>, <<63,239,244,79,114,181,252,106>>,
            <<63,239,200,213,144,13,153,87>>, <<63,239,125,100,35,162,253,239>>, <<63,239,18,71,13,189,144,191>>, <<63,238,135,234,8,215,135,88>>,
            <<63,237,222,216,61,69,35,209>>, <<63,237,23,187,181,63,222,194>>, <<63,236,51,92,177,226,85,199>>, <<63,235,50,160,225,192,253,32>>,
            <<63,234,22,138,121,233,247,200>>, <<63,232,224,55,50,52,169,179>>, <<63,231,144,223,37,230,27,228>>, <<63,230,41,211,153,202,249,75>>,
            <<63,228,172,125,169,3,81,53>>, <<63,227,26,92,217,212,205,255>>, <<63,225,117,5,155,240,213,152>>, <<63,223,124,63,99,101,57,79>>,
            <<63,219,238,201,11,220,108,65>>, <<63,216,69,58,223,249,226,179>>, <<63,212,131,67,207,140,107,166>>, <<63,208,172,171,87,37,56,11>>,
            <<63,201,138,155,102,28,70,108>>, <<63,193,162,47,250,193,168,38>>, <<63,179,80,16,236,160,240,223>>, <<63,138,66,171,144,102,18,230>>,
            <<191,169,133,102,97,129,126,194>>, <<191,188,192,230,96,77,192,233>>, <<191,198,81,23,52,183,165,181>>, <<191,206,43,73,87,79,27,39>>,
            <<191,210,243,145,238,3,139,148>>, <<191,214,190,111,197,150,78,149>>, <<191,218,114,109,193,242,233,6>>, <<191,222,11,210,116,36,77,70>>,
            <<191,224,195,127,150,202,141,81>>, <<191,226,112,57,210,7,217,206>>, <<191,228,10,104,187,150,233,191>>, <<191,229,144,111,201,213,218,173>>,
            <<191,231,0,198,184,156,12,190>>, <<191,232,89,251,19,190,127,116>>, <<191,233,154,177,171,164,129,227>>, <<191,234,193,167,242,117,71,108>>,
            <<191,235,205,181,64,127,221,184>>, <<191,236,189,203,254,150,160,8>>, <<191,237,144,250,181,50,165,108>>, <<191,238,70,108,255,78,8,88>>,
            <<191,238,221,108,96,0,253,93>>, <<191,239,85,96,250,10,242,245>>, <<191,239,173,210,40,142,230,93>>, <<191,239,230,102,248,105,143,209>>,
            <<191,239,254,230,129,167,57,247>>, <<191,239,247,56,32,191,78,177>>, <<191,239,207,99,143,92,23,220>>, <<191,239,135,144,220,149,183,171>>,
            <<191,239,32,8,68,168,57,89>>, <<191,238,153,49,232,77,39,195>>, <<191,237,243,149,100,1,223,137>>, <<191,237,47,217,71,163,188,212>>,
            <<191,236,78,194,110,235,147,229>>, <<191,235,81,51,59,112,156,226>>, <<191,234,56,42,176,250,84,17>>, <<191,233,4,195,117,5,224,101>>,
            <<191,231,184,50,178,129,78,219>>, <<191,230,83,198,226,218,107,244>>, <<191,228,216,230,125,153,183,125>>, <<191,227,73,14,143,220,71,124>>,
            <<191,225,165,209,61,22,178,27>>, <<191,223,225,168,85,69,59,202>>, <<191,220,87,157,175,92,12,186>>, <<191,216,177,17,198,108,40,62>>,
            <<191,212,241,176,131,149,109,131>>, <<191,209,29,62,201,207,63,209>>, <<191,202,111,45,86,246,211,71>>, <<191,194,137,71,21,85,243,4>>,
            <<191,181,33,120,159,231,210,22>>, <<191,148,108,138,63,137,154,104>>, <<63,165,224,172,70,201,59,67>>, <<63,186,240,206,109,189,131,79>>,
            <<63,197,107,23,41,198,84,241>>, <<63,205,72,60,140,181,159,237>>, <<63,210,131,247,86,23,240,194>>, <<63,214,81,49,57,161,53,168>>,
            <<63,218,7,249,33,6,36,204>>, <<63,221,164,146,207,77,132,45>>, <<63,224,145,174,46,23,201,136>>, <<63,226,64,104,237,170,42,18>>,
            <<63,227,220,200,114,181,79,133>>, <<63,229,101,45,255,196,45,152>>, <<63,230,216,14,238,180,14,85>>, <<63,232,51,246,61,158,190,76>>,
            <<63,233,119,134,6,0,118,234>>, <<63,234,161,120,220,160,125,57>>, <<63,235,176,163,24,218,145,161>>, <<63,236,163,244,1,255,239,237>>,
            <<63,237,122,118,225,160,157,167>>, <<63,238,51,83,249,169,140,117>>, <<63,238,205,209,93,95,149,29>>, <<63,239,73,83,172,93,122,45>>,
            <<63,239,165,94,174,216,145,141>>, <<63,239,225,149,210,143,20,14>>, <<63,239,253,188,135,226,106,144>>, <<63,239,249,182,126,191,200,146>>,
            <<63,239,213,135,195,25,215,113>>, <<63,239,145,84,184,214,210,85>>, <<63,239,45,97,247,55,37,55>>, <<63,238,170,20,3,217,105,241>>,
            <<63,238,7,238,237,161,11,136>>, <<63,237,71,149,199,229,89,183>>, <<63,236,105,202,6,110,153,224>>, <<63,235,111,106,186,229,245,30>>,
            <<63,234,89,115,180,124,15,99>>, <<63,233,40,252,130,167,200,82>>, <<63,231,223,55,91,252,2,99>>, <<63,230,125,111,234,47,46,196>>,
            <<63,229,5,9,252,138,32,94>>, <<63,227,119,128,34,13,253,235>>, <<63,225,214,98,44,185,20,188>>, <<63,224,35,83,159,105,48,69>>,
            <<63,220,192,20,15,224,247,182>>, <<63,217,28,150,142,9,92,27>>, <<63,213,95,215,143,134,173,254>>, <<63,209,141,153,81,45,12,57>>,
            <<63,203,83,103,93,78,16,70>>, <<63,195,112,32,137,231,230,181>>, <<63,182,242,154,12,45,40,54>>, <<63,155,183,122,201,156,164,13>>,
            <<191,162,59,169,105,39,96,88>>, <<191,185,32,92,225,137,246,93>>, <<191,196,132,207,226,250,224,10>>, <<191,204,100,206,94,221,202,242>>,
            <<191,210,20,31,41,212,89,89>>, <<191,213,227,168,116,138,5,211>>, <<191,217,157,45,236,211,98,83>>, <<191,221,60,240,148,31,96,246>>,
            <<191,224,95,165,170,68,68,239>>, <<191,226,16,91,85,162,198,6>>, <<191,227,174,230,26,173,232,100>>, <<191,229,57,165,13,128,191,126>>,
            <<191,230,175,11,43,31,51,2>>, <<191,232,13,160,232,192,72,125>>, <<191,233,84,5,173,128,229,162>>, <<191,234,128,241,53,2,162,82>>,
            <<191,235,147,52,217,146,169,226>>, <<191,236,137,188,196,140,1,69>>, <<191,237,99,145,3,195,140,144>>, <<191,238,31,214,130,230,148,11>>,
            <<191,238,189,207,231,208,247,163>>, <<191,239,60,222,80,253,137,59>>, <<191,239,156,129,245,81,21,245>>, <<191,239,220,90,164,159,60,44>>,
            <<191,239,252,40,40,103,237,156>>, <<191,239,251,202,132,108,79,191>>, <<191,239,219,66,22,217,245,174>>, <<191,239,154,175,151,236,43,236>>,
            <<191,239,58,83,249,3,163,216>>, <<191,238,186,144,35,85,174,21>>, <<191,238,27,228,150,116,149,131>>, <<191,237,94,240,231,19,62,209>>,
            <<191,236,132,115,30,134,3,242>>, <<191,235,141,70,251,162,13,38>>, <<191,234,122,101,21,187,178,145>>, <<191,233,76,225,226,161,194,22>>,
            <<191,232,5,236,160,145,152,62>>, <<191,230,166,206,37,59,40,46>>, <<191,229,48,231,147,8,68,117>>, <<191,227,165,176,245,243,43,97>>,
            <<191,226,6,183,201,82,12,70>>, <<191,224,85,157,104,19,183,191>>, <<191,221,40,42,209,254,129,182>>, <<191,217,135,199,209,58,174,253>>,
            <<191,213,205,183,133,6,176,182>>, <<191,209,253,185,119,147,66,37>>, <<191,204,55,70,130,22,207,204>>, <<191,196,86,185,88,179,5,122>>,
            <<191,184,195,111,38,125,238,19>>, <<191,161,129,7,146,166,28,90>>, <<63,157,44,211,207,75,218,254>>, <<63,183,79,151,196,92,113,94>>,
            <<63,195,158,68,94,51,91,2>>, <<63,203,129,1,194,44,212,236>>, <<63,209,164,10,221,50,149,223>>, <<63,213,117,214,226,155,197,88>>,
            <<63,217,50,13,136,136,92,120>>, <<63,220,212,237,27,69,41,229>>, <<63,224,45,102,177,183,7,60>>, <<63,225,224,17,169,194,184,96>>,
            <<63,227,128,194,76,27,20,8>>, <<63,229,13,213,131,213,220,34>>, <<63,230,133,187,246,69,239,243>>, <<63,231,230,251,148,160,157,147>>,
            <<63,233,48,49,24,56,26,51>>, <<63,234,96,17,103,204,38,216>>, <<63,235,117,106,228,137,199,146>>, <<63,236,111,38,157,107,70,88>>,
            <<63,237,76,73,103,195,8,108>>, <<63,238,11,244,219,215,70,74>>, <<63,238,173,104,52,144,155,126>>, <<63,239,48,1,17,90,100,162>>,
            <<63,239,147,60,25,113,220,41>>, <<63,239,214,181,127,255,237,78>>, <<63,239,250,41,104,120,164,20>>, <<63,239,253,116,42,219,120,229>>,
            <<63,239,224,146,119,143,176,72>>, <<63,239,163,161,90,184,211,130>>, <<63,239,70,222,30,255,223,255>>, <<63,238,202,166,15,238,136,18>>,
            <<63,238,47,118,28,26,158,76>>, <<63,237,117,234,87,127,224,107>>, <<63,236,158,189,94,134,168,73>>, <<63,235,170,199,154,85,91,81>>,
            <<63,234,154,254,103,41,50,0>>, <<63,233,112,115,29,145,123,1>>, <<63,232,44,81,255,133,111,131>>, <<63,230,207,225,10,105,2,132>>,
            <<63,229,92,126,175,48,105,17>>, <<63,227,211,160,113,236,93,118>>, <<63,226,54,209,114,33,9,17>>, <<63,224,135,176,221,98,25,191>>,
            <<63,221,143,224,155,133,229,197>>, <<63,217,242,164,43,127,21,39>>, <<63,214,59,78,246,168,147,156>>, <<63,210,109,157,200,24,174,208>>,
            <<63,205,26,199,207,116,6,70>>, <<63,197,61,14,130,202,18,167>>, <<63,186,147,241,228,229,241,124>>, <<63,165,38,23,137,83,127,184>>,
            <<191,149,225,243,196,51,31,207>>, <<191,181,126,133,31,244,184,130>>, <<191,194,183,119,154,48,207,252>>, <<191,202,156,217,172,66,101,207>>,
            <<191,209,51,187,228,244,126,155>>, <<191,213,7,189,241,19,123,114>>, <<191,216,198,153,88,110,32,106>>, <<191,220,108,137,190,173,98,227>>,
            <<191,223,245,227,215,24,105,155>>, <<191,225,175,140,138,162,231,222>>, <<191,227,82,93,160,112,234,26>>, <<191,228,225,191,244,120,125,209>>,
            <<191,230,92,33,217,139,162,230>>, <<191,231,192,6,193,199,80,232>>, <<191,233,12,8,189,80,157,60>>, <<191,234,62,217,226,82,146,110>>,
            <<191,235,87,69,156,210,159,36>>, <<191,236,84,49,229,9,241,98>>, <<191,237,52,160,91,11,196,150>>, <<191,237,247,175,70,154,245,154>>,
            <<191,238,156,154,122,46,7,102>>, <<191,239,34,188,24,60,217,72>>, <<191,239,137,141,58,17,242,229>>, <<191,239,208,166,119,119,116,121>>,
            <<191,239,247,192,78,183,57,27>>, <<191,239,254,179,108,133,159,134>>, <<191,239,229,120,211,142,162,47>>, <<191,239,172,41,227,125,108,112>>,
            <<191,239,83,0,63,119,107,157>>, <<191,238,218,85,148,36,113,3>>, <<191,238,66,163,61,126,78,65>>, <<191,237,140,129,204,194,134,114>>,
            <<191,236,184,168,111,0,219,37>>, <<191,235,199,236,52,225,23,178>>, <<191,234,187,63,60,89,99,72>>, <<191,233,147,175,189,44,107,183>>,
            <<191,232,82,102,249,36,181,214>>, <<191,230,248,168,17,29,228,213>>, <<191,229,135,206,192,9,51,64>>, <<191,228,1,77,253,51,128,179>>,
            <<191,226,102,174,135,44,223,139>>, <<191,224,185,141,88,200,247,6>>, <<191,221,247,52,19,138,225,156>>, <<191,218,93,42,57,111,202,240>>,
            <<191,214,168,156,119,240,160,214>>, <<191,210,221,68,206,155,1,125>>, <<191,205,253,232,80,192,225,44>>, <<191,198,35,29,10,32,170,101>>,
            <<191,188,100,28,62,129,235,13>>, <<191,168,202,225,41,160,236,245>>, <<63,141,45,149,227,225,63,110>>, <<63,179,173,42,255,20,104,186>>,
            <<63,193,208,108,150,141,168,58>>, <<63,201,184,89,19,237,226,96>>, <<63,208,195,51,182,158,253,32>>, <<63,212,153,95,14,27,143,138>>,
            <<63,216,90,210,193,228,79,19>>, <<63,220,3,199,217,133,121,94>>, <<63,223,144,143,255,37,169,244>>, <<63,225,126,204,153,161,244,19>>,
            <<63,227,35,184,177,251,72,193>>, <<63,228,181,100,242,6,152,221>>, <<63,230,50,61,95,76,212,198>>, <<63,231,152,194,241,196,83,150>>,
            <<63,232,231,141,21,11,133,61>>, <<63,234,29,75,19,15,60,167>>, <<63,235,56,197,102,175,146,112>>, <<63,236,56,222,245,14,162,203>>,
            <<63,237,28,150,44,78,121,139>>, <<63,237,227,6,6,157,89,120>>, <<63,238,139,102,240,140,12,227>>, <<63,239,21,15,145,198,170,172>>,
            <<63,239,127,117,119,101,170,197>>, <<63,239,202,45,159,44,78,88>>, <<63,239,244,236,227,40,12,44>>, <<63,239,255,136,69,68,248,137>>,
            <<63,239,233,245,26,139,0,18>>, <<63,239,180,73,21,216,143,28>>, <<63,239,94,186,50,15,206,60>>, <<63,238,233,158,123,204,117,5>>,
            <<63,238,85,107,186,216,179,26>>, <<63,237,162,182,251,184,96,193>>, <<63,236,210,51,249,193,116,213>>, <<63,235,228,180,106,88,138,72>>,
            <<63,234,219,39,42,7,110,128>>, <<63,233,182,151,76,65,131,163>>, <<63,232,120,43,14,199,229,252>>, <<63,231,33,34,177,187,96,144>>,
            <<63,229,178,215,53,133,155,208>>, <<63,228,46,184,255,221,207,225>>, <<63,226,150,78,105,69,200,185>>, <<63,224,235,50,52,115,199,179>>,
            <<63,222,94,35,226,104,76,246>>, <<63,218,199,88,152,197,16,73>>, <<63,215,21,158,157,88,222,45>>, <<63,211,76,173,23,195,191,243>>,
            <<63,206,224,165,18,154,62,4>>, <<63,199,8,225,241,149,116,150>>, <<63,190,51,232,43,149,78,21>>, <<63,172,111,88,85,66,194,250>>,
            <<191,125,45,198,105,129,222,72>>, <<191,177,219,143,109,106,95,196>>, <<191,192,233,38,83,178,213,163>>, <<191,200,211,130,241,37,138,188>>,
            <<191,208,82,115,200,117,96,79>>, <<191,212,42,187,168,199,37,198>>, <<191,215,238,187,43,92,149,210>>, <<191,219,154,168,200,53,108,242>>,
            <<191,223,42,211,44,149,99,71>>, <<191,225,77,210,120,226,15,67>>, <<191,226,244,212,27,219,198,227>>, <<191,228,136,197,16,5,9,193>>,
            <<191,230,8,15,18,221,98,74>>, <<191,231,113,48,167,46,85,174>>, <<191,232,194,190,152,190,245,45>>, <<191,233,251,101,105,157,189,217>>,
            <<191,235,25,234,167,145,111,79>>, <<191,236,29,46,40,89,92,2>>, <<191,237,4,43,43,126,249,37>>, <<191,237,205,249,96,149,152,5>>,
            <<191,238,121,205,208,224,32,222>>, <<191,239,6,251,171,114,5,173>>, <<191,239,116,244,242,254,46,19>>, <<191,239,195,75,12,164,221,143>>,
            <<191,239,241,175,47,49,23,224>>, <<191,239,255,242,178,85,159,94>>, <<191,239,238,7,61,153,207,167>>, <<191,239,187,254,214,199,41,247>>,
            <<191,239,106,11,207,201,14,65>>, <<191,238,248,128,148,16,229,77>>, <<191,238,103,207,85,177,140,76>>, <<191,237,184,137,154,133,119,85>>,
            <<191,236,235,95,169,211,12,205>>, <<191,236,1,31,219,2,69,27>>, <<191,234,250,181,198,22,37,159>>, <<191,233,217,41,86,186,136,18>>,
            <<191,232,157,157,194,212,150,217>>, <<191,231,73,80,101,161,7,214>>, <<191,229,221,151,128,134,159,72>>, <<191,228,91,224,226,221,186,200>>,
            <<191,226,197,176,122,7,161,122>>, <<191,225,28,158,203,70,238,125>>, <<191,222,196,174,177,196,101,219>>, <<191,219,49,45,232,90,224,6>>,
            <<191,215,130,83,252,86,46,217>>, <<191,211,187,213,49,13,55,240>>, <<191,207,194,251,34,232,185,63>>, <<191,199,238,90,60,251,183,2>>,
            <<191,192,1,167,210,206,203,195>>, <<191,176,9,184,119,127,78,119>>, <<61,33,170,110,88,53,1,212>>, <<63,176,9,184,119,127,96,24>>,
            <<63,192,1,167,210,206,212,134>>, <<63,199,238,90,60,251,160,64>>, <<63,207,194,251,34,232,193,206>>, <<63,211,187,213,49,13,60,36>>,
            <<63,215,130,83,252,86,50,244>>, <<63,219,49,45,232,90,228,5>>, <<63,222,196,174,177,196,119,194>>, <<63,225,28,158,203,70,247,30>>,
            <<63,226,197,176,122,7,163,68>>, <<63,228,91,224,226,221,188,124>>, <<63,229,221,151,128,134,160,229>>, <<63,231,73,80,101,161,9,89>>,
            <<63,232,157,157,194,212,147,37>>, <<63,233,217,41,86,186,137,95>>, <<63,234,250,181,198,22,38,207>>, <<63,236,1,31,219,2,70,45>>,
            <<63,236,235,95,169,211,13,191>>, <<63,237,184,137,154,133,120,39>>, <<63,238,103,207,85,177,140,252>>, <<63,238,248,128,148,16,229,219>>,
            <<63,239,106,11,207,201,14,173>>, <<63,239,187,254,214,199,42,64>>, <<63,239,238,7,61,153,207,204>>, <<63,239,255,242,178,85,159,103>>,
            <<63,239,241,175,47,49,23,190>>, <<63,239,195,75,12,164,221,74>>, <<63,239,116,244,242,254,47,35>>, <<63,239,6,251,171,114,5,35>>,
            <<63,238,121,205,208,224,32,49>>, <<63,237,205,249,96,149,154,33>>, <<63,237,4,43,43,126,248,54>>, <<63,236,29,46,40,89,90,244>>,
            <<63,235,25,234,167,145,110,35>>, <<63,233,251,101,105,157,183,227>>, <<63,232,194,190,152,190,243,199>>, <<63,231,113,48,167,46,84,45>>,
            <<63,230,8,15,18,221,96,176>>, <<63,228,136,197,16,5,8,16>>, <<63,226,244,212,27,219,197,27>>, <<63,225,77,210,120,226,13,104>>,
            <<63,223,42,211,44,149,95,108>>, <<63,219,154,168,200,53,104,246>>, <<63,215,238,187,43,92,145,185>>, <<63,212,42,187,168,199,48,196>>,
            <<63,208,82,115,200,117,92,10>>, <<63,200,211,130,241,37,130,18>>, <<63,192,233,38,83,178,236,154>>, <<63,177,219,143,109,106,78,36>>,
            <<63,125,45,198,105,128,195,163>>, <<191,172,111,88,85,66,230,65>>, <<191,190,51,232,43,149,159,45>>, <<191,199,8,225,241,149,125,70>>,
            <<191,206,224,165,18,154,70,151>>, <<191,211,76,173,23,195,196,40>>, <<191,215,21,158,157,88,226,76>>, <<191,218,199,88,152,197,20,76>>,
            <<191,222,94,35,226,104,80,218>>, <<191,224,235,50,52,115,201,146>>, <<191,226,150,78,105,69,202,133>>, <<191,228,46,184,255,221,209,151>>,
            <<191,229,178,215,53,133,151,142>>, <<191,231,33,34,177,187,98,22>>, <<191,232,120,43,14,199,231,104>>, <<191,233,182,151,76,65,132,244>>,
            <<191,234,219,39,42,7,111,179>>, <<191,235,228,180,106,88,139,93>>, <<191,236,210,51,249,193,117,202>>, <<191,237,162,182,251,184,100,155>>,
            <<191,238,85,107,186,216,179,206>>, <<191,238,233,158,123,204,117,151>>, <<191,239,94,186,50,15,206,172>>, <<191,239,180,73,21,216,142,83>>,
            <<191,239,233,245,26,139,0,60>>, <<191,239,255,136,69,68,248,143>>, <<191,239,244,236,227,40,12,121>>, <<191,239,202,45,159,44,78,23>>,
            <<191,239,127,117,119,101,170,97>>, <<191,239,21,15,145,198,168,62>>, <<191,238,139,102,240,140,12,58>>, <<191,237,227,6,6,157,88,174>>,
            <<191,237,28,150,44,78,120,161>>, <<191,236,56,222,245,14,161,192>>, <<191,235,56,197,102,175,145,71>>, <<191,234,29,75,19,15,59,96>>,
            <<191,232,231,141,21,11,126,212>>, <<191,231,152,194,241,196,82,25>>, <<191,230,50,61,95,76,211,47>>, <<191,228,181,100,242,6,151,46>>,
            <<191,227,35,184,177,251,77,101>>, <<191,225,126,204,153,161,242,58>>, <<191,223,144,143,255,37,166,28>>, <<191,220,3,199,217,133,131,200>>,
            <<191,216,90,210,193,228,74,254>>, <<191,212,153,95,14,27,139,91>>, <<191,208,195,51,182,158,233,108>>, <<191,201,184,89,19,237,217,185>>,
            <<191,193,208,108,150,141,159,123>>, <<191,179,173,42,255,20,87,29>>, <<191,141,45,149,227,224,178,30>>, <<63,168,202,225,41,161,16,63>>,
            <<63,188,100,28,62,129,252,156>>, <<63,198,35,29,10,32,210,156>>, <<63,205,253,232,80,192,233,194>>, <<63,210,221,68,206,155,5,181>>,
            <<63,214,168,156,119,240,164,248>>, <<63,218,93,42,57,111,192,97>>, <<63,221,247,52,19,138,229,131>>, <<63,224,185,141,88,200,248,232>>,
            <<63,226,102,174,135,44,225,90>>, <<63,228,1,77,253,51,130,108>>, <<63,229,135,206,192,9,58,205>>, <<63,230,248,168,17,29,235,241>>,
            <<63,232,82,102,249,36,183,70>>, <<63,233,147,175,189,44,109,11>>, <<63,234,187,63,60,89,100,127>>, <<63,235,199,236,52,225,24,202>>,
            <<63,236,184,168,111,0,216,151>>, <<63,237,140,129,204,194,135,75>>, <<63,238,66,163,61,126,78,248>>, <<63,238,218,85,148,36,113,153>>,
            <<63,239,83,0,63,119,108,17>>, <<63,239,172,41,227,125,108,193>>, <<63,239,229,120,211,142,162,92>>, <<63,239,254,179,108,133,159,144>>,
            <<63,239,247,192,78,183,57,1>>, <<63,239,208,166,119,119,116,60>>, <<63,239,137,141,58,17,242,133>>, <<63,239,34,188,24,60,214,237>>,
            <<63,238,156,154,122,46,4,109>>, <<63,237,247,175,70,154,244,211>>, <<63,237,52,160,91,11,195,175>>, <<63,236,84,49,229,9,240,91>>,
            <<63,235,87,69,156,210,157,254>>, <<63,234,62,217,226,82,149,190>>, <<63,233,12,8,189,80,155,220>>, <<63,231,192,6,193,199,79,109>>,
            <<63,230,92,33,217,139,161,81>>, <<63,228,225,191,244,120,124,37>>, <<63,227,82,93,160,112,232,88>>, <<63,225,175,140,138,162,230,7>>,
            <<63,223,245,227,215,24,101,200>>, <<63,220,108,137,190,173,94,238>>, <<63,216,198,153,88,110,28,87>>, <<63,213,7,189,241,19,119,70>>,
            <<63,209,51,187,228,244,106,241>>, <<63,202,156,217,172,66,61,222>>, <<63,194,183,119,154,48,199,63>>, <<63,181,126,133,31,244,230,174>>,
            <<63,149,225,243,196,50,217,41>>, <<191,165,38,23,137,83,163,5>>, <<191,186,147,241,228,229,195,103>>, <<191,197,61,14,130,202,27,93>>,
            <<191,205,26,199,207,116,14,224>>, <<191,210,109,157,200,24,179,11>>, <<191,214,59,78,246,168,166,193>>, <<191,217,242,164,43,127,25,49>>,
            <<191,221,143,224,155,133,233,175>>, <<191,224,135,176,221,98,27,163>>, <<191,226,54,209,114,33,10,226>>, <<191,227,211,160,113,236,95,50>>,
            <<191,229,92,126,175,48,106,182>>, <<191,230,207,225,10,105,4,16>>, <<191,232,44,81,255,133,112,246>>, <<191,233,112,115,29,145,124,88>>,
            <<191,234,154,254,103,41,46,200>>, <<191,235,170,199,154,85,92,109>>, <<191,236,158,189,94,134,169,69>>, <<191,237,117,234,87,127,225,71>>,
            <<191,238,47,118,28,26,159,8>>, <<191,238,202,166,15,238,136,172>>, <<191,239,70,222,30,255,224,118>>, <<191,239,163,161,90,184,213,9>>,
            <<191,239,224,146,119,143,176,122>>, <<191,239,253,116,42,219,120,243>>, <<191,239,250,41,104,120,163,255>>, <<191,239,214,181,127,255,237,21>>,
            <<191,239,147,60,25,113,219,205>>, <<191,239,48,1,17,90,100,35>>, <<191,238,173,104,52,144,154,221>>, <<191,238,11,244,219,215,69,136>>,
            <<191,237,76,73,103,195,7,137>>, <<191,236,111,38,157,107,73,0>>, <<191,235,117,106,228,137,198,112>>, <<191,234,96,17,103,204,37,152>>,
            <<191,233,48,49,24,56,24,214>>, <<191,231,230,251,148,160,156,27>>, <<191,230,133,187,246,69,238,97>>, <<191,229,13,213,131,213,218,120>>,
            <<191,227,128,194,76,27,11,240>>, <<191,225,224,17,169,194,182,139>>, <<191,224,45,102,177,183,5,84>>, <<191,220,212,237,27,69,37,244>>,
            <<191,217,50,13,136,136,103,30>>, <<191,213,117,214,226,155,193,47>>, <<191,209,164,10,221,50,145,160>>, <<191,203,129,1,194,44,235,140>>,
            <<191,195,158,68,94,51,82,72>>, <<191,183,79,151,196,92,95,199>>, <<191,157,44,211,207,74,148,118>>, <<63,161,129,7,146,166,63,170>>,
            <<63,184,195,111,38,125,255,168>>, <<63,196,86,185,88,179,14,50>>, <<63,204,55,70,130,22,216,105>>, <<63,209,253,185,119,147,70,98>>,
            <<63,213,205,183,133,6,180,221>>, <<63,217,135,199,209,58,193,182>>, <<63,221,40,42,209,254,133,164>>, <<63,224,85,157,104,19,185,165>>,
            <<63,226,6,183,201,82,14,25>>, <<63,227,165,176,245,243,38,207>>, <<63,229,48,231,147,8,70,29>>, <<63,230,166,206,37,59,41,189>>,
            <<63,232,5,236,160,145,153,179>>, <<63,233,76,225,226,161,195,112>>, <<63,234,122,101,21,187,179,207>>, <<63,235,141,70,251,162,18,87>>,
            <<63,236,132,115,30,134,4,242>>, <<63,237,94,240,231,19,63,177>>, <<63,238,27,228,150,116,150,67>>, <<63,238,186,144,35,85,174,179>>,
            <<63,239,58,83,249,3,164,83>>, <<63,239,154,175,151,236,44,68>>, <<63,239,219,66,22,217,246,165>>, <<63,239,251,202,132,108,79,209>>,
            <<63,239,252,40,40,103,237,139>>, <<63,239,220,90,164,159,59,248>>, <<63,239,156,129,245,81,22,220>>, <<63,239,60,222,80,253,136,192>>,
            <<63,238,189,207,231,208,247,6>>, <<63,238,31,214,130,230,147,76>>, <<63,237,99,145,3,195,139,177>>, <<63,236,137,188,196,139,252,167>>,
            <<63,235,147,52,217,146,164,180>>, <<63,234,128,241,53,2,161,21>>, <<63,233,84,5,173,128,228,73>>, <<63,232,13,160,232,192,71,8>>,
            <<63,230,175,11,43,31,49,115>>, <<63,229,57,165,13,128,195,212>>, <<63,227,174,230,26,173,230,167>>, <<63,226,16,91,85,162,196,52>>,
            <<63,224,95,165,170,68,67,10>>, <<63,221,60,240,148,31,93,8>>, <<63,217,157,45,236,211,94,70>>, <<63,213,227,168,116,138,1,173>>,
            <<63,210,20,31,41,212,85,28>>, <<63,204,100,206,94,221,194,85>>, <<63,196,132,207,226,250,215,83>>, <<63,185,32,92,225,137,228,201>>,
            <<63,162,59,169,105,38,189,29>>, <<191,155,183,122,201,157,234,152>>, <<191,182,242,154,12,45,57,206>>, <<191,195,112,32,137,231,207,207>>,
            <<191,203,83,103,93,78,24,231>>, <<191,209,141,153,81,45,16,121>>, <<191,213,95,215,143,134,163,19>>, <<191,217,28,150,142,9,96,43>>,
            <<191,220,192,20,15,224,251,168>>, <<191,224,35,83,159,105,50,45>>, <<191,225,214,98,44,185,22,145>>, <<191,227,119,128,34,13,255,171>>,
            <<191,229,5,9,252,138,34,8>>, <<191,230,125,111,234,47,48,86>>, <<191,231,223,55,91,252,3,219>>, <<191,233,40,252,130,167,201,175>>,
            <<191,234,89,115,180,124,16,163>>, <<191,235,111,106,186,229,250,96>>, <<191,236,105,202,6,110,158,146>>, <<191,237,71,149,199,229,90,155>>,
            <<191,238,7,238,237,161,9,136>>, <<191,238,170,20,3,217,106,146>>, <<191,239,45,97,247,55,37,182>>, <<191,239,145,84,184,214,209,98>>,
            <<191,239,213,135,195,25,215,170>>, <<191,239,249,182,126,191,200,168>>, <<191,239,253,188,135,226,106,131>>, <<191,239,225,149,210,143,19,45>>,
            <<191,239,165,94,174,216,145,57>>, <<191,239,73,83,172,93,121,182>>, <<191,238,205,209,93,95,148,132>>, <<191,238,51,83,249,169,139,187>>,
            <<191,237,122,118,225,160,156,203>>, <<191,236,163,244,1,255,238,240>>, <<191,235,176,163,24,218,144,134>>, <<191,234,161,120,220,160,124,0>>,
            <<191,233,119,134,6,0,117,148>>, <<191,232,51,246,61,158,194,22>>, <<191,230,216,14,238,180,12,201>>, <<191,229,101,45,255,196,43,243>>,
            <<191,227,220,200,114,181,77,201>>, <<191,226,64,104,237,170,40,66>>, <<191,224,145,174,46,23,199,164>>, <<191,221,164,146,207,77,128,66>>,
            <<191,218,7,249,33,6,18,37>>, <<191,214,81,49,57,161,49,132>>, <<191,210,131,247,86,23,236,135>>, <<191,205,72,60,140,181,151,83>>,
            <<191,197,107,23,41,198,107,200>>, <<191,186,240,206,109,189,113,190>>, <<191,165,224,172,70,201,23,247>>, <<63,148,108,138,63,137,225,14>>,
            <<63,181,33,120,159,231,227,177>>, <<63,194,137,71,21,85,251,193>>, <<63,202,111,45,86,246,219,235>>, <<63,209,29,62,201,207,68,18>>,
            <<63,212,241,176,131,149,113,175>>, <<63,216,177,17,198,108,44,81>>, <<63,220,87,157,175,92,16,176>>, <<63,223,225,168,85,69,63,158>>,
            <<63,225,165,209,61,22,179,242>>, <<63,227,73,14,143,220,79,161>>, <<63,228,216,230,125,153,185,41>>, <<63,230,83,198,226,218,109,137>>,
            <<63,231,184,50,178,129,80,86>>, <<63,233,4,195,117,5,220,200>>, <<63,234,56,42,176,250,85,85>>, <<63,235,81,51,59,112,158,9>>,
            <<63,236,78,194,110,235,145,49>>, <<63,237,47,217,71,163,189,187>>, <<63,237,243,149,100,1,224,80>>, <<63,238,153,49,232,77,42,192>>,
            <<63,239,32,8,68,168,57,220>>, <<63,239,135,144,220,149,184,11>>, <<63,239,207,99,143,92,24,26>>, <<63,239,247,56,32,191,78,203>>,
            <<63,239,254,230,129,167,57,238>>, <<63,239,230,102,248,105,143,165>>, <<63,239,173,210,40,142,228,236>>, <<63,239,85,96,250,10,242,130>>,
            <<63,238,221,108,96,0,252,200>>, <<63,238,70,108,255,78,7,161>>, <<63,237,144,250,181,50,167,164>>, <<63,236,189,203,254,150,159,16>>,
            <<63,235,205,181,64,127,220,160>>, <<63,234,193,167,242,117,70,54>>, <<63,233,154,177,171,164,128,144>>, <<63,232,89,251,19,190,126,6>>,
            <<63,231,0,198,184,156,5,165>>, <<63,229,144,111,201,213,217,11>>, <<63,228,10,104,187,150,232,7>>, <<63,226,112,57,210,7,216,0>>,
            <<63,224,195,127,150,202,139,111>>, <<63,222,11,210,116,36,87,128>>, <<63,218,114,109,193,242,229,0>>, <<63,214,190,111,197,150,59,127>>,
            <<63,210,243,145,238,3,135,92>>, <<63,206,43,73,87,79,18,145>>, <<63,198,81,23,52,183,157,2>>, <<63,188,192,230,96,77,175,91>>,
            <<63,169,133,102,97,129,91,121>>, <<191,138,66,171,144,102,160,54>>, <<191,179,80,16,236,161,2,124>>, <<191,193,162,47,250,193,176,230>>,
            <<191,201,138,155,102,28,79,20>>, <<191,208,172,171,87,37,75,193>>, <<191,212,131,67,207,140,111,213>>, <<191,216,69,58,223,249,230,201>>,
            <<191,219,238,201,11,220,112,58>>, <<191,223,124,63,99,101,61,40>>, <<191,225,117,5,155,240,208,189>>, <<191,227,26,92,217,212,207,197>>,
            <<191,228,172,125,169,3,82,228>>, <<191,230,41,211,153,202,250,226>>, <<191,231,144,223,37,230,29,98>>, <<191,232,224,55,50,52,171,23>>,
            <<191,234,22,138,121,233,249,15>>, <<191,235,50,160,225,192,254,74>>, <<191,236,51,92,177,226,86,210>>, <<191,237,23,187,181,63,223,174>>,
            <<191,237,222,216,61,69,36,156>>, <<191,238,135,234,8,215,138,103>>, <<191,239,18,71,13,189,147,48>>, <<191,239,125,100,35,162,254,83>>,
            <<191,239,200,213,144,13,152,171>>, <<191,239,244,79,114,181,252,136>>, <<191,239,255,166,17,215,87,42>>, <<191,239,234,206,6,41,113,167>>,
            <<191,239,181,220,70,88,182,111>>, <<191,239,97,6,17,240,187,216>>, <<191,238,236,160,187,206,115,118>>, <<191,238,89,33,84,79,245,111>>,
            <<191,237,167,28,51,152,29,89>>, <<191,236,215,68,100,92,99,14>>, <<191,235,234,106,239,211,36,157>>, <<191,234,225,126,11,119,50,152>>,
            <<191,233,189,136,41,116,87,78>>, <<191,232,127,174,236,173,183,39>>, <<191,231,41,50,1,107,85,57>>, <<191,229,187,105,219,216,51,86>>,
            <<191,228,55,198,93,147,246,165>>, <<191,226,159,205,99,180,170,241>>, <<191,224,245,25,62,172,218,96>>, <<191,222,114,174,43,64,141,97>>,
            <<191,218,220,138,109,139,252,189>>, <<191,215,43,98,173,21,33,4>>, <<191,211,98,237,126,106,4,13>>, <<191,207,13,241,203,136,224,88>>,
            <<191,199,54,205,6,221,64,129>>, <<191,190,144,158,177,187,68,239>>, <<191,173,41,203,155,55,134,36>>, <<63,119,87,214,150,124,60,100>>,
            <<63,177,126,104,254,52,87,89>>, <<63,192,186,222,58,188,149,27>>, <<63,200,165,180,130,238,67,141>>, <<63,208,59,224,111,151,208,90>>,
            <<63,212,20,146,226,172,151,25>>, <<63,215,217,19,65,90,169,186>>, <<63,219,133,151,130,8,69,54>>, <<63,223,22,109,186,120,30,207>>,
            <<63,225,67,255,235,144,139,246>>, <<63,226,235,107,155,67,158,13>>, <<63,228,127,208,18,121,207,38>>, <<63,229,255,150,154,133,244,156>>,
            <<63,231,105,61,56,245,102,188>>, <<63,232,187,88,51,193,144,79>>, <<63,233,244,147,127,32,119,67>>, <<63,235,19,180,19,132,60,202>>,
            <<63,236,23,153,42,113,112,244>>, <<63,236,255,61,96,238,1,95>>, <<63,237,201,183,190,100,56,48>>, <<63,238,118,60,158,241,157,185>>,
            <<63,239,4,30,128,54,41,242>>, <<63,239,114,206,175,213,131,22>>, <<63,239,193,221,218,251,25,3>>, <<63,239,240,252,126,80,128,120>>,
            <<63,239,255,251,53,245,166,217>>, <<63,239,238,202,237,42,83,189>>, <<63,239,189,124,237,121,15,31>>, <<63,239,108,66,205,84,52,138>>,
            <<63,238,251,110,62,54,159,3>>, <<63,238,107,112,186,122,36,48>>, <<63,237,188,219,19,54,130,36>>, <<63,236,240,92,222,155,122,162>>,
            <<63,236,6,195,199,88,150,61>>, <<63,235,0,250,189,196,87,188>>, <<63,233,224,9,11,146,149,179>>, <<63,232,165,17,75,7,240,48>>,
            <<63,231,81,80,66,180,154,95>>, <<63,229,230,27,166,220,47,109>>, <<63,228,100,224,193,203,128,57>>, <<63,226,207,35,4,117,88,74>>,
            <<63,225,38,122,128,200,102,144>>, <<63,222,217,36,158,139,65,97>>, <<63,219,70,77,194,232,66,113>>, <<63,215,152,8,133,197,58,167>>,
            <<63,211,210,8,148,239,225,65>>, <<63,207,240,50,247,143,35,96>>, <<63,200,28,53,164,61,5,29>>, <<63,192,47,248,173,226,19,168>>,
            <<63,176,102,231,235,118,240,177>>, <<63,87,87,222,89,236,228,141>>, <<191,175,89,13,194,168,131,200>>, <<191,191,166,169,173,53,183,97>>,
            <<191,199,192,123,166,183,15,98>>, <<191,207,149,191,20,144,20,42>>, <<191,211,165,159,45,25,243,199>>, <<191,215,108,156,82,66,201,176>>,
            <<191,219,28,10,111,186,221,246>>, <<191,222,176,52,173,31,248,15>>, <<191,225,18,192,207,0,15,217>>, <<191,226,188,59,112,72,11,238>>,
            <<191,228,82,222,78,148,174,212>>, <<191,229,213,16,113,133,158,75>>, <<191,231,65,77,111,126,221,154>>, <<191,232,150,38,244,77,15,236>>,
            <<191,233,210,70,49,147,233,228>>, <<191,234,244,109,55,148,81,218>>, <<191,235,251,120,52,239,87,26>>, <<191,236,230,94,156,36,61,193>>,
            <<191,237,180,52,45,162,219,106>>, <<191,238,100,41,229,102,46,86>>, <<191,238,245,142,203,40,169,225>>, <<191,239,103,208,164,96,122,9>>,
            <<191,239,186,124,135,80,232,11>>, <<191,239,237,63,78,156,252,132>>, <<191,239,255,229,236,230,254,177>>, <<191,239,242,93,160,40,220,75>>,
            <<191,239,196,180,4,145,189,188>>, <<191,239,119,23,6,213,213,62>>, <<191,239,9,212,181,254,53,84>>, <<191,238,125,90,244,231,13,149>>,
            <<191,237,210,55,11,187,88,164>>, <<191,237,9,21,25,221,34,53>>, <<191,236,34,191,104,201,38,212>>, <<191,235,32,29,160,164,46,185>>,
            <<191,234,2,51,223,62,124,154>>, <<191,232,202,33,178,119,183,146>>, <<191,231,121,32,247,10,164,0>>, <<191,230,16,132,156,227,24,13>>,
            <<191,228,145,183,82,60,20,180>>, <<191,226,254,58,22,220,178,201>>, <<191,225,87,162,184,226,122,125>>, <<191,223,63,52,121,62,79,35>>,
            <<191,219,175,182,98,71,131,187>>, <<191,216,4,95,230,78,100,189>>, <<191,212,64,225,192,16,43,241>>, <<191,208,105,4,245,114,191,43>>,
            <<191,201,1,78,17,221,33,29>>, <<191,193,23,108,44,188,175,126>>, <<191,178,56,179,124,116,37,192>>, <<191,129,129,217,45,99,78,228>>,
            <<63,171,180,225,70,231,197,113>>, <<63,189,215,45,160,212,136,215>>, <<63,198,218,243,203,209,106,146>>, <<63,206,179,84,62,21,132,91>>,
            <<63,211,54,106,31,214,114,49>>, <<63,214,255,215,123,110,159,241>>, <<63,218,178,35,51,255,187,143>>, <<63,222,73,149,143,86,171,227>>,
            <<63,224,225,72,234,8,135,182>>, <<63,226,140,204,245,210,202,152>>, <<63,228,37,168,242,206,49,167>>, <<63,229,170,65,172,55,131,227>>,
            <<63,231,25,16,78,85,39,164>>, <<63,232,112,163,239,137,76,218>>, <<63,233,175,163,3,89,113,5>>, <<63,234,212,204,181,246,191,31>>,
            <<63,235,222,250,46,233,56,96>>, <<63,236,205,31,185,153,99,126>>, <<63,237,158,77,210,142,75,216>>, <<63,238,81,178,24,80,242,163>>,
            <<63,238,230,152,31,2,210,7>>, <<63,239,92,106,37,210,236,95>>, <<63,239,178,177,173,154,158,125>>, <<63,239,233,23,240,10,226,165>>,
            <<63,239,255,102,54,242,41,68>>, <<63,239,245,134,19,66,232,80>>, <<63,239,203,129,115,163,162,104>>, <<63,239,129,130,154,113,167,246>>,
            <<63,239,23,211,243,64,163,67>>, <<63,238,142,223,200,1,165,197>>, <<63,237,231,47,214,29,9,216>>, <<63,237,33,108,195,234,175,153>>,
            <<63,236,62,93,119,19,197,85>>, <<63,235,62,230,76,136,226,38>>, <<63,234,36,8,50,213,144,180>>, <<63,232,238,223,167,184,53,69>>,
            <<63,231,160,163,154,2,55,151>>, <<63,230,58,164,48,224,114,67>>, <<63,228,190,73,121,197,241,187>>, <<63,227,45,17,254,77,128,90>>,
            <<63,225,136,145,67,126,6,251>>, <<63,223,164,220,103,232,215,227>>, <<63,220,24,194,237,23,120,160>>, <<63,216,112,103,102,93,57,255>>,
            <<63,212,175,119,143,33,30,149>>, <<63,208,217,185,219,56,140,35>>, <<63,201,230,19,85,206,122,217>>, <<63,193,254,166,211,168,136,117>>,
            <<63,180,10,66,115,106,190,88>>, <<63,144,12,62,42,210,255,6>>, <<191,168,16,88,165,103,115,53>>, <<191,188,7,78,85,206,120,182>>,
            <<191,197,245,31,237,158,198,62>>, <<191,205,208,131,76,198,163,145>>, <<191,210,198,245,44,189,141,25>>, <<191,214,146,198,38,157,99,192>>,
            <<191,218,71,227,47,14,118,18>>, <<191,221,226,145,182,105,172,56>>, <<191,224,175,152,225,47,241,181>>, <<191,226,93,32,201,163,173,67>>,
            <<191,227,248,48,149,129,119,209>>, <<191,229,127,42,216,250,180,190>>, <<191,230,240,134,91,76,26,13>>, <<191,232,74,207,162,56,74,67>>,
            <<191,233,140,170,103,163,221,5>>, <<191,234,180,210,247,219,45,67>>, <<191,235,194,31,119,33,208,11>>, <<191,236,179,129,13,67,235,183>>,
            <<191,237,136,4,245,252,95,130>>, <<191,238,62,213,117,29,202,146>>, <<191,238,215,58,173,136,207,91>>, <<191,239,80,155,90,23,75,62>>,
            <<191,239,170,125,103,194,198,82>>, <<191,239,228,134,112,106,202,200>>, <<191,239,254,124,21,191,229,62>>, <<191,239,248,68,59,247,177,221>>,
            <<191,239,209,229,36,15,6,95>>, <<191,239,139,133,101,127,194,211>>, <<191,239,37,107,199,112,165,217>>, <<191,238,159,254,249,134,38,48>>,
            <<191,237,251,197,44,155,229,196>>, <<191,237,57,99,139,206,169,254>>, <<191,236,89,157,150,94,151,198>>, <<191,235,93,84,91,16,158,54>>,
            <<191,234,69,133,149,213,6,16>>, <<191,233,19,74,176,150,181,218>>, <<191,231,199,215,168,51,190,128>>, <<191,230,100,121,214,187,221,245>>,
            <<191,228,234,150,164,44,193,117>>, <<191,227,91,170,30,252,176,63>>, <<191,225,185,69,125,221,208,153>>, <<191,224,5,13,140,57,192,199>>,
            <<191,220,129,114,5,247,221,223>>, <<191,216,220,29,158,168,56,183>>, <<191,213,29,200,146,89,9,165>>, <<191,209,74,54,182,65,0,206>>,
            <<191,202,202,130,119,54,205,102>>, <<191,194,229,165,161,158,61,51>>, <<191,181,219,142,195,252,35,87>>, <<191,151,87,90,95,157,42,250>>,
            <<63,164,107,127,251,156,3,216>>, <<63,186,55,17,210,230,115,47>>, <<63,197,15,3,8,125,192,123>>, <<63,204,237,79,50,253,185,80>>,
            <<63,210,87,65,198,127,20,254>>, <<63,214,37,105,190,140,238,147>>, <<63,217,221,75,194,69,195,162>>, <<63,221,123,42,120,245,110,249>>,
            <<63,224,125,177,89,183,16,21>>, <<63,226,45,55,138,71,208,141>>, <<63,227,202,117,205,232,98,108>>, <<63,229,83,204,135,29,222,93>>,
            <<63,230,199,176,29,55,12,235>>, <<63,232,36,170,138,42,117,200>>, <<63,233,105,92,210,194,9,120>>, <<63,234,148,128,103,154,5,61>>,
            <<63,235,164,232,109,144,34,212>>, <<63,236,153,130,236,88,237,138>>, <<63,237,113,89,226,10,125,136>>, <<63,238,43,148,58,135,248,173>>,
            <<63,238,199,118,169,212,155,27>>, <<63,239,68,100,104,114,230,217>>, <<63,239,161,223,209,18,135,90>>, <<63,239,223,138,222,238,67,112>>,
            <<63,239,253,39,140,90,224,12>>, <<63,239,250,152,17,39,245,233>>, <<63,239,215,223,0,147,223,198>>, <<63,239,149,31,70,180,183,50>>,
            <<63,239,50,156,5,88,232,244>>, <<63,238,176,184,80,130,199,248>>, <<63,238,15,246,202,194,244,100>>, <<63,237,80,249,33,213,208,64>>,
            <<63,236,116,127,108,8,52,7>>, <<63,235,123,103,103,6,237,226>>, <<63,234,102,171,152,219,40,189>>, <<63,233,55,98,83,244,100,7>>,
            <<63,231,238,188,159,60,240,91>>, <<63,230,142,5,3,82,220,14>>, <<63,229,22,158,62,25,178,103>>, <<63,227,138,1,221,243,77,176>>,
            <<63,225,233,190,198,6,154,28>>, <<63,224,55,119,157,18,123,174>>, <<63,220,233,194,80,191,114,33>>, <<63,217,71,129,40,243,247,61>>,
            <<63,213,139,211,90,210,237,104>>, <<63,209,186,122,16,110,151,165>>, <<63,203,174,152,126,90,44,218>>, <<63,195,204,101,150,92,248,163>>,
            <<63,183,172,146,98,167,40,115>>, <<63,158,162,40,243,94,3,57>>, <<191,160,198,99,104,4,26,247>>, <<191,184,102,126,32,22,42,187>>,
            <<191,196,40,160,25,191,89,132>>, <<191,204,9,186,228,95,19,232>>, <<191,209,231,81,96,154,140,216>>, <<191,213,183,195,174,244,157,17>>,
            <<191,217,114,94,80,39,12,141>>, <<191,221,19,97,46,224,222,14>>, <<191,224,75,146,249,151,54,20>>, <<191,225,253,17,215,23,86,223>>,
            <<191,227,156,121,52,25,206,108>>, <<191,229,40,39,70,221,129,158>>, <<191,230,158,142,27,231,15,183>>, <<191,231,254,53,38,60,219,146>>,
            <<191,233,69,186,186,29,128,168>>, <<191,234,115,213,112,179,27,161>>, <<191,235,135,85,115,94,55,143>>, <<191,236,127,37,173,74,233,246>>,
            <<191,237,90,76,226,28,192,17>>, <<191,238,23,238,168,153,76,146>>, <<191,238,183,76,72,85,85,76>>, <<191,239,55,197,121,133,112,69>>,
            <<191,239,152,217,6,49,80,73>>, <<191,239,218,37,76,39,160,42>>, <<191,239,251,104,159,47,171,46>>, <<191,239,252,129,139,22,15,165>>,
            <<191,239,221,110,245,82,31,80>>, <<191,239,158,80,30,34,3,106>>, <<191,239,63,100,129,28,152,52>>, <<191,238,193,11,149,88,134,11>>,
            <<191,238,35,196,109,104,239,239>>, <<191,237,104,45,55,144,24,138>>, <<191,236,143,2,158,168,193,239>>, <<191,235,153,31,12,102,19,161>>,
            <<191,234,135,121,205,168,239,61>>, <<191,233,91,38,25,199,179,141>>, <<191,232,21,81,253,194,143,168>>, <<191,230,183,69,44,122,145,250>>,
            <<191,229,66,95,181,29,78,254>>, <<191,227,184,24,161,16,112,83>>, <<191,226,25,252,122,193,49,185>>, <<191,224,105,171,190,211,50,144>>,
            <<191,221,81,178,114,128,9,22>>, <<191,217,178,144,160,24,50,212>>, <<191,213,249,150,122,147,92,158>>, <<191,210,42,130,116,98,235,115>>,
            <<191,204,146,82,116,165,35,171>>, <<191,196,178,227,178,117,106,87>>, <<191,185,125,71,68,220,166,130>>, <<191,162,246,72,210,178,71,17>>,
            <<63,154,66,30,19,254,117,88>>, <<63,182,149,153,70,120,75,127>>, <<63,195,65,250,31,157,254,197>>, <<63,203,37,201,85,206,249,79>>,
            <<63,209,119,37,111,90,117,89>>, <<63,213,73,213,100,128,194,26>>, <<63,217,7,28,60,81,252,115>>, <<63,220,171,55,49,88,251,180>>,
            <<63,224,25,62,103,128,18,34>>, <<63,225,204,176,80,51,139,8>>, <<63,227,110,59,97,7,110,252>>, <<63,228,252,59,169,98,7,82>>,
            <<63,230,117,32,224,41,54,120>>, <<63,231,215,111,246,87,170,60>>, <<63,233,33,196,148,56,206,101>>, <<63,234,82,210,127,204,66,68>>,
            <<63,235,105,102,234,231,223,238>>, <<63,236,100,105,167,200,200,225>>, <<63,237,66,222,66,220,224,181>>, <<63,238,3,229,0,169,72,103>>,
            <<63,238,166,187,190,206,146,80>>, <<63,239,42,190,183,72,117,251>>, <<63,239,143,105,37,36,110,255>>, <<63,239,212,85,202,9,196,226>>,
            <<63,239,249,63,84,12,173,155>>, <<63,239,254,0,163,102,20,153>>, <<63,239,226,148,239,201,235,209>>, <<63,239,167,23,205,54,127,95>>,
            <<63,239,75,197,16,55,244,189>>, <<63,238,208,248,145,187,207,94>>, <<63,238,55,45,210,177,14,15>>, <<63,237,126,255,127,209,203,172>>,
            <<63,236,169,38,214,19,44,0>>, <<63,235,182,122,232,88,73,144>>, <<63,234,167,239,199,35,68,216>>, <<63,233,126,149,139,30,24,6>>,
            <<63,232,59,151,67,114,34,112>>, <<63,230,224,57,201,1,160,194>>, <<63,229,109,218,119,177,82,188>>, <<63,227,229,237,207,11,105,60>>,
            <<63,226,73,253,251,156,124,32>>, <<63,224,155,169,74,131,219,91>>, <<63,221,185,65,17,139,113,133>>, <<63,218,29,74,160,4,71,3>>,
            <<63,214,103,16,132,141,91,176>>, <<63,210,154,78,109,131,176,7>>, <<63,205,117,173,100,182,47,235>>, <<63,197,153,28,247,82,193,220>>,
            <<63,187,77,167,97,18,211,243>>, <<63,166,155,62,27,41,212,170>>, <<191,146,247,30,3,77,227,211>>, <<191,180,196,105,80,54,102,4>>,
            <<191,194,91,20,25,50,185,133>>, <<191,202,65,125,125,103,147,43>>, <<191,209,6,191,103,207,88,55>>, <<191,212,219,160,76,206,23,82>>,
            <<191,216,155,134,235,127,124,205>>, <<191,220,66,173,218,204,131,50>>, <<191,223,205,104,149,171,34,38>>, <<191,225,156,19,150,132,157,138>>,
            <<191,227,63,188,238,123,227,123>>, <<191,228,208,10,64,189,209,81>>, <<191,230,75,104,243,196,199,185>>, <<191,231,176,91,123,108,95,63>>,
            <<191,232,253,122,216,174,28,242>>, <<191,234,49,120,2,175,236,109>>, <<191,235,75,29,55,185,105,67>>, <<191,236,73,79,52,188,156,69>>,
            <<191,237,43,14,82,57,82,201>>, <<191,237,239,119,133,92,79,124>>, <<191,238,149,197,68,87,163,95>>, <<191,239,29,80,77,14,213,20>>,
            <<191,239,133,144,77,78,182,154>>, <<191,239,206,28,107,231,228,230>>, <<191,239,246,171,178,34,17,51>>, <<191,239,255,21,85,29,232,152>>,
            <<191,239,231,80,222,219,229,62>>, <<191,239,175,118,54,190,191,89>>, <<191,239,87,189,137,128,229,213>>, <<191,238,224,127,16,181,64,70>>,
            <<191,238,74,50,186,11,240,168>>, <<191,237,149,111,174,180,108,86>>, <<191,236,194,235,187,86,57,228>>, <<191,235,211,122,153,57,18,74>>,
            <<191,234,200,13,25,84,152,109>>, <<191,233,161,176,50,29,105,66>>, <<191,232,97,139,241,3,141,20>>, <<191,231,8,226,80,177,248,109>>,
            <<191,229,153,13,245,58,184,29>>, <<191,228,19,128,207,117,142,47>>, <<191,226,121,194,168,239,151,119>>, <<191,224,205,111,153,225,233,170>>,
            <<191,222,32,108,213,119,199,214>>, <<191,218,135,173,197,195,162,33>>, <<191,214,212,64,12,167,0,124>>, <<191,211,9,220,135,255,167,252>>,
            <<191,206,88,166,90,103,216,222>>, <<191,198,127,14,103,69,129,128>>, <<191,189,29,172,174,217,216,165>>, <<191,170,63,232,52,55,215,124>>,
            <<63,135,87,189,190,150,35,162>>, <<63,178,242,244,72,114,219,26>>, <<63,193,115,241,6,107,150,65>>, <<63,201,92,218,82,111,115,31>>,
            <<63,208,150,32,191,202,208,127>>, <<63,212,109,37,214,100,147,150>>, <<63,216,47,159,195,125,136,42>>, <<63,219,217,198,134,231,76,95>>,
            <<63,223,103,234,151,91,126,187>>, <<63,225,107,60,75,183,161,29>>, <<63,227,16,254,119,24,203,72>>, <<63,228,163,147,159,235,96,131>>,
            <<63,230,33,102,225,121,102,192>>, <<63,231,136,248,55,116,68,158>>, <<63,232,216,222,0,45,132,214>>, <<63,234,15,198,104,75,184,226>>,
            <<63,235,44,120,190,142,93,217>>, <<63,236,45,214,174,74,131,28>>, <<63,237,18,221,95,100,38,128>>, <<63,237,218,166,122,162,195,43>>,
            <<63,238,132,105,17,90,229,252>>, <<63,239,15,122,103,132,37,85>>, <<63,239,123,78,159,112,12,183>>, <<63,239,199,121,70,117,72,251>>,
            <<63,239,243,173,194,1,170,132>>, <<63,239,255,191,156,165,78,42>>, <<63,239,235,162,178,201,91,18>>, <<63,239,183,107,62,229,113,246>>,
            <<63,239,99,77,197,39,126,37>>, <<63,238,239,158,222,162,86,177>>, <<63,238,92,210,228,56,103,62>>, <<63,237,171,125,121,151,201,144>>,
            <<63,236,220,80,248,189,185,2>>, <<63,235,240,29,190,150,113,186>>, <<63,234,231,209,89,110,31,240>>, <<63,233,196,117,154,5,146,30>>,
            <<63,232,135,47,136,58,196,26>>, <<63,231,49,62,60,82,140,21>>, <<63,229,195,249,158,11,105,217>>, <<63,228,64,209,10,188,102,215>>,
            <<63,226,169,73,227,219,251,94>>, <<63,224,254,254,7,98,133,150>>, <<63,222,135,52,103,35,211,104>>, <<63,218,241,184,175,130,200,33>>,
            <<63,215,65,35,167,190,0,142>>, <<63,211,121,43,80,211,90,129>>, <<63,207,59,58,98,218,191,230>>, <<63,199,100,181,5,141,17,237>>,
            <<63,190,237,81,38,240,93,138>>, <<63,173,228,58,255,248,138,120>>, <<191,113,129,227,168,121,92,7>>, <<191,177,33,64,59,54,192,127>>,
            <<191,192,140,147,232,1,234,34>>, <<191,200,119,226,205,79,118,252>>, <<191,208,37,74,237,218,221,128>>, <<191,211,254,103,112,179,32,206>>,
            <<191,215,195,104,43,42,14,52>>, <<191,219,112,130,146,141,170,109>>, <<191,223,2,4,37,157,24,183>>, <<191,225,58,43,18,60,133,54>>,
            <<191,226,226,0,150,84,150,197>>, <<191,228,118,216,90,203,120,92>>, <<191,229,247,27,52,253,81,84>>, <<191,231,97,70,173,110,155,62>>,
            <<191,232,179,238,132,123,138,20>>, <<191,233,237,190,32,174,247,152>>, <<191,235,13,121,229,80,45,226>>, <<191,236,18,0,111,207,133,66>>,
            <<191,236,250,75,186,210,27,164>>, <<191,237,197,114,37,184,41,107>>, <<191,238,114,167,95,149,3,173>>, <<191,239,1,61,52,172,42,6>>,
            <<191,239,112,164,61,165,7,84>>, <<191,239,192,108,111,197,4,179>>, <<191,239,240,69,141,158,219,84>>, <<191,239,255,255,119,197,243,19>>,
            <<191,239,239,138,93,52,127,43>>, <<191,239,190,246,203,51,196,155>>, <<191,239,110,117,156,182,125,29>>, <<191,238,254,87,201,54,25,95>>,
            <<191,238,111,14,19,68,83,193>>, <<191,237,193,40,151,34,237,69>>, <<191,236,245,86,57,211,160,85>>, <<191,236,12,99,249,50,54,9>>,
            <<191,235,7,60,29,201,94,209>>, <<191,233,230,229,79,49,238,74>>, <<191,232,172,129,139,233,96,136>>, <<191,231,89,77,5,169,30,200>>,
            <<191,229,238,156,227,100,74,73>>, <<191,228,109,221,234,43,114,232>>, <<191,226,216,147,14,79,117,148>>, <<191,225,48,83,238,52,191,200>>,
            <<191,222,237,150,112,187,152,80>>, <<191,219,91,105,252,147,118,174>>, <<191,215,173,185,235,172,209,133>>, <<191,211,232,57,85,205,198,219>>,
            <<191,208,14,179,70,63,152,75>>, <<191,200,74,13,214,97,83,75>>, <<191,192,94,71,97,171,140,227>>, <<191,176,196,21,48,213,193,41>>,
            <<191,103,87,220,204,118,219,197>>, <<63,174,158,166,106,183,139,206>>, <<63,191,73,255,126,224,46,73>>, <<63,199,146,153,231,137,69,229>>,
            <<63,207,104,126,210,137,204,92>>, <<63,211,143,102,140,10,92,194>>, <<63,215,86,225,138,110,192,121>>, <<63,219,6,227,91,216,14,142>>,
            <<63,222,155,182,147,87,21,222>>, <<63,225,8,224,141,67,202,211>>, <<63,226,178,195,232,120,181,144>>, <<63,228,73,217,6,35,39,10>>,
            <<63,229,204,134,122,251,154,207>>, <<63,231,57,71,97,94,247,23>>, <<63,232,142,172,224,111,150,145>>, <<63,233,203,95,157,9,61,255>>,
            <<63,234,238,33,19,20,211,222>>, <<63,235,245,204,213,224,92,79>>, <<63,236,225,89,182,57,126,230>>, <<63,237,175,218,205,34,65,28>>,
            <<63,238,96,128,106,20,57,59>>, <<63,238,242,152,227,226,53,21>>, <<63,239,101,145,75,102,112,31>>, <<63,239,184,245,255,73,175,80>>,
            <<63,239,236,115,32,78,114,151>>, <<63,239,255,212,229,171,119,156>>, <<63,239,243,7,209,32,153,140>>, <<63,239,198,24,194,145,178,193>>,
            <<63,239,121,52,235,19,210,82>>, <<63,239,12,169,159,121,187,72>>, <<63,238,128,228,10,141,112,120>>, <<63,237,214,112,191,69,7,145>>,
            <<63,237,13,251,43,97,34,27>>, <<63,236,40,76,235,3,60,0>>, <<63,235,38,76,253,233,98,144>>, <<63,234,8,254,223,26,236,100>>,
            <<63,232,209,129,127,240,74,186>>, <<63,231,129,14,39,123,241,110>>, <<63,230,24,247,55,118,252,56>>, <<63,228,154,166,215,238,81,6>>,
            <<63,227,7,157,139,6,68,180>>, <<63,225,97,112,170,67,161,44>>, <<63,223,83,145,157,188,228,29>>, <<63,219,196,192,77,113,174,106>>,
            <<63,216,26,1,111,78,230,24>>, <<63,212,87,5,37,149,82,73>>, <<63,208,127,147,243,143,86,136>>, <<63,201,47,21,222,253,101,193>>,
            <<63,193,69,175,191,178,14,110>>, <<63,178,149,213,30,237,123,26>>, <<63,132,108,204,209,201,85,134>>, <<191,170,250,102,136,244,40,244>>,
            <<191,189,122,111,29,206,154,165>>, <<191,198,173,2,155,173,45,30>>, <<191,206,133,255,84,2,15,20>>, <<191,211,32,36,153,152,73,154>>,
            <<191,214,234,13,74,59,238,191>>, <<191,218,156,234,66,14,94,193>>, <<191,222,53,3,52,199,165,161>>, <<191,224,215,93,96,188,155,148>>,
            <<191,226,131,73,10,159,91,51>>, <<191,228,28,150,55,153,202,55>>, <<191,229,161,169,65,18,76,222>>, <<191,231,16,250,216,75,152,205>>,
            <<191,232,105,25,143,242,61,250>>, <<191,233,168,171,79,168,252,243>>, <<191,234,206,110,176,29,134,8>>, <<191,235,217,60,62,72,55,210>>,
            <<191,236,200,7,164,145,35,217>>, <<191,237,153,224,184,176,17,106>>, <<191,238,77,244,109,55,141,180>>, <<191,238,227,141,165,216,143,157>>,
            <<191,239,90,21,237,136,218,43>>, <<191,239,177,22,13,213,23,251>>, <<191,239,232,54,134,198,133,214>>, <<191,239,255,63,230,227,113,14>>,
            <<191,239,246,27,2,242,47,74>>, <<191,239,204,209,13,70,97,177>>, <<191,239,131,139,140,129,27,165>>, <<191,239,26,148,49,205,66,202>>,
            <<191,238,146,84,142,194,18,155>>, <<191,237,235,85,171,54,115,14>>, <<191,237,38,63,123,111,182,178>>, <<191,236,67,216,55,54,159,199>>,
            <<191,235,69,3,146,124,60,126>>, <<191,234,42,193,216,87,124,92>>, <<191,232,246,46,233,65,97,63>>, <<191,231,168,129,29,147,137,25>>,
            <<191,230,67,8,13,103,175,2>>, <<191,228,199,43,63,18,127,178>>, <<191,227,54,104,189,141,15,226>>, <<191,225,146,83,152,56,90,41>>,
            <<191,223,185,36,154,251,144,24>>, <<191,220,45,186,67,199,208,28>>, <<191,216,133,248,202,133,199,128>>, <<191,212,197,141,79,172,178,175>>,
            <<191,208,240,61,193,242,249,6>>, <<191,202,19,202,37,168,150,202>>, <<191,194,44,222,171,236,71,128>>, <<191,180,103,87,61,65,130,99>>,
            <<191,145,129,175,65,43,130,127>>, <<63,167,85,204,237,164,220,62>>, <<63,187,170,124,178,139,145,59>>, <<63,197,199,31,229,79,248,204>>,
            <<63,205,163,26,81,106,38,185>>, <<63,210,176,163,11,99,8,74>>, <<63,214,124,236,212,132,77,154>>, <<63,218,50,152,165,163,145,18>>,
            <<63,221,205,235,95,127,121,125>>, <<63,224,165,162,49,82,121,66>>, <<63,226,83,144,154,177,168,114>>, <<63,227,239,16,133,183,47,187>>,
            <<63,229,118,132,21,208,132,162>>, <<63,230,232,97,152,59,140,201>>, <<63,232,67,53,15,251,202,137>>, <<63,233,133,161,171,249,227,113>>,
            <<63,234,174,99,37,213,100,107>>, <<63,235,188,79,8,7,140,214>>, <<63,236,174,85,218,15,91,169>>, <<63,237,131,132,49,121,0,160>>,
            <<63,238,59,3,166,174,4,93>>, <<63,238,212,27,172,151,212,48>>, <<63,239,78,50,74,60,27,82>>, <<63,239,168,204,181,151,241,125>>,
            <<63,239,227,143,207,30,72,157>>, <<63,239,254,64,125,93,103,213>>, <<63,239,248,195,232,111,44,167>>, <<63,239,211,31,148,248,103,149>>,
            <<63,239,141,121,94,156,23,154>>, <<63,239,40,23,81,232,43,174>>, <<63,238,163,95,101,226,0,145>>, <<63,237,255,215,21,121,136,235>>,
            <<63,237,62,34,217,74,68,177>>, <<63,236,95,5,130,48,234,51>>, <<63,235,99,95,117,92,76,59>>, <<63,234,76,45,202,158,122,248>>,
            <<63,233,26,137,77,225,7,179>>, <<63,231,207,165,100,188,113,106>>, <<63,230,108,206,217,78,254,223>>, <<63,228,243,106,139,137,119,182>>,
            <<63,227,100,244,10,66,252,51>>, <<63,225,194,252,21,124,77,194>>, <<63,224,15,39,11,83,2,159>>, <<63,220,150,86,130,115,157,87>>,
            <<63,216,241,158,150,61,150,78>>, <<63,213,51,208,100,119,138,121>>, <<63,209,96,175,58,183,122,203>>, <<63,202,248,39,177,193,65,182>>,
            <<63,195,19,209,37,121,90,114>>, <<63,182,56,149,127,157,121,182>>, <<63,152,204,189,224,26,196,166>>, <<191,163,176,229,182,117,146,51>>,
            <<191,185,218,46,68,26,89,43>>, <<191,196,224,244,193,1,102,184>>, <<191,204,191,210,189,95,24,183>>, <<191,210,64,227,84,68,131,243>>,
            <<191,214,15,129,148,55,218,81>>, <<191,217,199,239,232,48,250,152>>, <<191,221,102,112,106,93,127,92>>, <<191,224,115,175,164,107,46,77>>,
            <<191,226,35,155,55,101,106,8>>, <<191,227,193,72,135,225,148,145>>, <<191,229,75,23,136,180,170,29>>, <<191,230,191,124,40,53,25,164>>,
            <<191,232,28,255,222,146,116,42>>, <<191,233,98,67,38,131,132,202>>, <<191,234,141,254,222,208,17,215>>, <<191,235,159,5,147,82,226,1>>,
            <<191,236,148,68,172,40,196,151>>, <<191,237,108,197,129,219,234,128>>, <<191,238,39,174,85,117,215,12>>, <<191,238,196,67,43,126,68,7>>,
            <<191,239,65,230,137,10,217,202>>, <<191,239,160,26,18,33,120,172>>, <<191,239,222,127,8,205,220,191>>, <<191,239,252,214,172,106,209,112>>,
            <<191,239,251,2,120,191,5,93>>, <<191,239,217,4,68,174,29,42>>, <<191,239,150,254,64,95,26,134>>, <<191,239,53,50,210,217,251,65>>,
            <<191,238,180,4,87,63,31,186>>, <<191,238,19,244,185,219,158,243>>, <<191,237,85,164,245,126,18,186>>, <<191,236,121,212,113,143,73,67>>,
            <<191,235,129,96,65,145,135,43>>, <<191,234,109,66,70,200,71,139>>, <<191,233,62,144,52,231,173,187>>, <<191,231,246,122,122,200,229,231>>,
            <<191,230,150,75,16,59,209,132>>, <<191,229,31,100,42,42,133,248>>, <<191,227,147,62,214,91,190,233>>, <<191,225,243,105,128,59,59,227>>,
            <<191,224,65,134,96,36,187,19>>, <<191,220,254,147,173,138,78,142>>, <<191,217,92,241,108,113,151,70>>, <<191,213,161,204,245,63,77,130>>,
            <<191,209,208,230,231,229,35,78>>, <<191,203,220,43,139,197,182,157>>, <<191,195,250,132,44,65,210,232>>, <<191,184,9,137,218,175,51,169>>,
            <<191,160,11,189,2,21,188,2>>, <<63,160,11,189,2,21,212,76>>, <<63,184,9,137,218,175,63,193>>, <<63,195,250,132,44,65,248,132>>,
            <<63,203,220,43,139,197,188,139>>, <<63,209,208,230,231,229,53,151>>, <<63,213,161,204,245,63,80,94>>, <<63,217,92,241,108,113,154,16>>,
            <<63,220,254,147,173,138,81,67>>, <<63,224,65,134,96,36,181,126>>, <<63,225,243,105,128,59,61,37>>, <<63,227,147,62,214,91,192,29>>,
            <<63,229,31,100,42,42,135,28>>, <<63,230,150,75,16,59,216,66>>, <<63,231,246,122,122,200,230,233>>, <<63,233,62,144,52,231,179,148>>,
            <<63,234,109,66,70,200,72,103>>, <<63,235,129,96,65,145,135,241>>, <<63,236,121,212,113,143,73,244>>, <<63,237,85,164,245,126,19,85>>,
            <<63,238,19,244,185,219,156,189>>, <<63,238,180,4,87,63,32,39>>, <<63,239,53,50,210,217,253,92>>, <<63,239,150,254,64,95,26,196>>,
            <<63,239,217,4,68,174,29,80>>, <<63,239,251,2,120,191,5,106>>, <<63,239,252,214,172,106,209,158>>, <<63,239,222,127,8,205,220,155>>,
            <<63,239,160,26,18,33,120,113>>, <<63,239,65,230,137,10,217,119>>, <<63,238,196,67,43,126,65,105>>, <<63,238,39,174,85,117,211,220>>,
            <<63,237,108,197,129,219,230,194>>, <<63,236,148,68,172,40,195,232>>, <<63,235,159,5,147,82,229,70>>, <<63,234,141,254,222,208,16,254>>,
            <<63,233,98,67,38,131,131,221>>, <<63,232,28,255,222,146,120,108>>, <<63,230,191,124,40,53,24,146>>, <<63,229,75,23,136,180,163,2>>,
            <<63,227,193,72,135,225,147,95>>, <<63,226,35,155,55,101,104,200>>, <<63,224,115,175,164,107,44,255>>, <<63,221,102,112,106,93,124,169>>,
            <<63,217,199,239,232,48,247,208>>, <<63,214,15,129,148,55,215,119>>, <<63,210,64,227,84,68,129,10>>, <<63,204,191,210,189,94,243,157>>,
            <<63,196,224,244,193,1,65,40>>, <<63,185,218,46,68,26,13,105>>, <<63,163,176,229,182,117,121,235>>, <<191,152,204,189,224,25,245,78>>,
            <<191,182,56,149,127,157,133,209>>, <<191,195,19,209,37,121,96,116>>, <<191,202,248,39,177,193,40,94>>, <<191,209,96,175,58,183,125,183>>,
            <<191,213,51,208,100,119,156,111>>, <<191,216,241,158,150,61,153,26>>, <<191,220,150,86,130,115,160,15>>, <<191,224,15,39,11,83,3,239>>,
            <<191,225,194,252,21,124,79,6>>, <<191,227,100,244,10,66,253,104>>, <<191,228,243,106,139,137,120,219>>, <<191,230,108,206,217,78,255,244>>,
            <<191,231,207,165,100,188,114,109>>, <<191,233,26,137,77,225,8,164>>, <<191,234,76,45,202,158,128,101>>, <<191,235,99,95,117,92,77,4>>,
            <<191,236,95,5,130,48,231,52>>, <<191,237,62,34,217,74,69,79>>, <<191,237,255,215,21,121,137,115>>, <<191,238,163,95,101,225,254,179>>,
            <<191,239,40,23,81,232,44,7>>, <<191,239,141,121,94,156,25,48>>, <<191,239,211,31,148,248,104,148>>, <<191,239,248,195,232,111,45,13>>,
            <<191,239,254,64,125,93,103,205>>, <<191,239,227,143,207,30,72,125>>, <<191,239,168,204,181,151,241,68>>, <<191,239,78,50,74,60,28,170>>,
            <<191,238,212,27,172,151,211,199>>, <<191,238,59,3,166,174,3,221>>, <<191,237,131,132,49,121,0,10>>, <<191,236,174,85,218,15,87,113>>,
            <<191,235,188,79,8,7,140,20>>, <<191,234,174,99,37,213,103,255>>, <<191,233,133,161,171,249,226,134>>, <<191,232,67,53,15,251,201,139>>,
            <<191,230,232,97,152,59,139,185>>, <<191,229,118,132,21,208,131,130>>, <<191,227,239,16,133,183,40,73>>, <<191,226,83,144,154,177,160,165>>,
            <<191,224,165,162,49,82,113,33>>, <<191,221,205,235,95,127,118,204>>, <<191,218,50,152,165,163,142,76>>, <<191,214,124,236,212,132,74,194>>,
            <<191,210,176,163,11,99,20,176>>, <<191,205,163,26,81,106,32,208>>, <<191,197,199,31,229,79,242,207>>, <<191,187,170,124,178,139,133,39>>,
            <<191,167,85,204,237,164,68,26>>, <<63,145,129,175,65,43,179,22>>, <<63,180,103,87,61,65,78,180>>, <<63,194,44,222,171,236,77,132>>,
            <<63,202,19,202,37,168,156,188>>, <<63,208,240,61,193,242,251,244>>, <<63,212,197,141,79,172,181,142>>, <<63,216,133,248,202,133,217,22>>,
            <<63,220,45,186,67,199,210,214>>, <<63,223,185,36,154,251,160,161>>, <<63,225,146,83,152,56,91,110>>, <<63,227,54,104,189,141,17,25>>,
            <<63,228,199,43,63,18,128,218>>, <<63,230,67,8,13,103,170,90>>, <<63,231,168,129,29,147,138,30>>, <<63,232,246,46,233,65,98,50>>,
            <<63,234,42,193,216,87,125,60>>, <<63,235,69,3,146,124,65,122>>, <<63,236,67,216,55,54,160,125>>, <<63,237,38,63,123,111,186,159>>,
            <<63,237,235,85,171,54,115,151>>, <<63,238,146,84,142,194,19,14>>, <<63,239,26,148,49,205,67,37>>, <<63,239,131,139,140,129,27,232>>,
            <<63,239,204,209,13,70,97,221>>, <<63,239,246,27,2,242,47,93>>, <<63,239,255,63,230,227,112,237>>, <<63,239,232,54,134,198,133,184>>,
            <<63,239,177,22,13,213,23,197>>, <<63,239,90,21,237,136,217,221>>, <<63,238,227,141,165,216,145,78>>, <<63,238,77,244,109,55,141,55>>,
            <<63,237,153,224,184,176,16,214>>, <<63,236,200,7,164,145,35,48>>, <<63,235,217,60,62,72,51,34>>, <<63,234,206,110,176,29,133,51>>,
            <<63,233,168,171,79,168,247,67>>, <<63,232,105,25,143,242,60,255>>, <<63,231,16,250,216,75,151,192>>, <<63,229,161,169,65,18,75,191>>,
            <<63,228,28,150,55,153,201,9>>, <<63,226,131,73,10,159,96,125>>, <<63,224,215,93,96,188,154,73>>, <<63,222,53,3,52,199,148,216>>,
            <<63,218,156,234,66,14,91,254>>, <<63,214,234,13,74,59,235,233>>, <<63,211,32,36,153,152,70,180>>, <<63,206,133,255,84,2,40,65>>,
            <<63,198,173,2,155,173,39,36>>, <<63,189,122,111,29,206,142,148>>, <<63,170,250,102,136,244,16,176>>, <<191,132,108,204,209,203,182,175>>,
            <<191,178,149,213,30,237,135,56>>, <<191,193,69,175,191,178,52,40>>, <<191,201,47,21,222,253,107,182>>, <<191,208,127,147,243,143,74,2>>,
            <<191,212,87,5,37,149,85,42>>, <<191,216,26,1,111,78,232,233>>, <<191,219,196,192,77,113,162,189>>, <<191,223,83,145,157,188,230,195>>,
            <<191,225,97,112,170,67,169,42>>, <<191,227,7,157,139,6,69,237>>, <<191,228,154,166,215,238,82,48>>, <<191,230,24,247,55,118,253,81>>,
            <<191,231,129,14,39,123,242,118>>, <<191,232,209,129,127,240,75,176>>, <<191,234,8,254,223,26,237,70>>, <<191,235,38,76,253,233,99,94>>,
            <<191,236,40,76,235,3,64,134>>, <<191,237,13,251,43,97,34,190>>, <<191,237,214,112,191,69,11,1>>, <<191,238,128,228,10,141,112,238>>,
            <<191,239,12,169,159,121,185,183>>, <<191,239,121,52,235,19,210,152>>, <<191,239,198,24,194,145,178,239>>, <<191,239,243,7,209,32,153,46>>,
            <<191,239,255,212,229,171,119,153>>, <<191,239,236,115,32,78,113,239>>, <<191,239,184,245,255,73,174,15>>, <<191,239,101,145,75,102,111,211>>,
            <<191,238,242,152,227,226,52,178>>, <<191,238,96,128,106,20,56,193>>, <<191,237,175,218,205,34,64,139>>, <<191,236,225,89,182,57,126,62>>,
            <<191,235,245,204,213,224,91,146>>, <<191,234,238,33,19,20,211,12>>, <<191,233,203,95,157,9,61,25>>, <<191,232,142,172,224,111,144,118>>,
            <<191,231,57,71,97,94,246,11>>, <<191,229,204,134,122,251,159,142>>, <<191,228,73,217,6,35,37,222>>, <<191,226,178,195,232,120,180,84>>,
            <<191,225,8,224,141,67,208,80>>, <<191,222,155,182,147,87,19,51>>, <<191,219,6,227,91,215,253,76>>, <<191,215,86,225,138,110,174,191>>,
            <<191,211,143,102,140,10,89,222>>, <<191,207,104,126,210,137,198,121>>, <<191,199,146,153,231,137,63,237>>, <<191,191,73,255,126,224,34,58>>,
            <<191,174,158,166,106,183,243,82>>, <<63,103,87,220,204,120,96,137>>, <<63,176,196,21,48,213,205,73>>, <<63,192,94,71,97,171,146,234>>,
            <<63,200,74,13,214,97,120,173>>, <<63,208,14,179,70,63,155,60>>, <<63,211,232,57,85,205,186,137>>, <<63,215,173,185,235,172,212,88>>,
            <<63,219,91,105,252,147,121,109>>, <<63,222,237,150,112,187,154,248>>, <<63,225,48,83,238,52,193,16>>, <<63,226,216,147,14,79,125,70>>,
            <<63,228,109,221,234,43,122,59>>, <<63,229,238,156,227,100,81,56>>, <<63,231,89,77,5,169,31,209>>, <<63,232,172,129,139,233,97,127>>,
            <<63,233,230,229,79,49,239,46>>, <<63,235,7,60,29,201,91,89>>, <<63,236,12,99,249,50,54,196>>, <<63,236,245,86,57,211,160,251>>,
            <<63,237,193,40,151,34,237,212>>, <<63,238,111,14,19,68,86,178>>, <<63,238,254,87,201,54,25,191>>, <<63,239,110,117,156,182,125,102>>,
            <<63,239,190,246,203,51,196,204>>, <<63,239,239,138,93,52,127,68>>, <<63,239,255,255,119,197,243,20>>, <<63,239,240,69,141,158,219,60>>,
            <<63,239,192,108,111,197,3,132>>, <<63,239,112,164,61,165,7,12>>, <<63,239,1,61,52,172,39,171>>, <<63,238,114,167,95,149,3,53>>,
            <<63,237,197,114,37,184,40,220>>, <<63,236,250,75,186,210,26,255>>, <<63,236,18,0,111,207,136,94>>, <<63,235,13,121,229,80,45,18>>,
            <<63,233,237,190,32,174,246,180>>, <<63,232,179,238,132,123,137,29>>, <<63,231,97,70,173,110,148,190>>, <<63,229,247,27,52,253,80,58>>,
            <<63,228,118,216,90,203,119,49>>, <<63,226,226,0,150,84,149,139>>, <<63,225,58,43,18,60,131,238>>, <<63,223,2,4,37,157,22,15>>,
            <<63,219,112,130,146,141,167,174>>, <<63,215,195,104,43,42,11,98>>, <<63,211,254,103,112,179,29,235>>, <<63,208,37,74,237,218,203,20>>,
            <<63,200,119,226,205,79,113,6>>, <<63,192,140,147,232,1,228,28>>, <<63,177,33,64,59,54,180,96>>, <<63,113,129,227,168,124,153,163>>,
            <<191,173,228,58,255,248,162,186>>, <<191,190,237,81,38,240,105,153>>, <<191,199,100,181,5,141,23,230>>, <<191,207,59,58,98,218,228,211>>,
            <<191,211,121,43,80,211,93,102>>, <<191,215,65,35,167,190,18,75>>, <<191,218,241,184,175,130,202,226>>, <<191,222,135,52,103,35,200,4>>,
            <<191,224,254,254,7,98,134,223>>, <<191,226,169,73,227,219,252,154>>, <<191,228,64,209,10,188,104,4>>, <<191,229,195,249,158,11,106,246>>,
            <<191,231,49,62,60,82,146,164>>, <<191,232,135,47,136,58,197,20>>, <<191,233,196,117,154,5,147,5>>, <<191,234,231,209,89,110,32,194>>,
            <<191,235,240,29,190,150,114,120>>, <<191,236,220,80,248,189,185,170>>, <<191,237,171,125,121,151,202,33>>, <<191,238,92,210,228,56,103,185>>,
            <<191,238,239,158,222,162,89,32>>, <<191,239,99,77,197,39,126,113>>, <<191,239,183,107,62,229,115,57>>, <<191,239,235,162,178,201,91,46>>,
            <<191,239,255,191,156,165,78,29>>, <<191,239,243,173,194,1,170,111>>, <<191,239,199,121,70,117,72,205>>, <<191,239,123,78,159,112,13,225>>,
            <<191,239,15,122,103,132,36,248>>, <<191,238,132,105,17,90,227,30>>, <<191,237,218,166,122,162,194,159>>, <<191,237,18,221,95,100,37,222>>,
            <<191,236,45,214,174,74,130,100>>, <<191,235,44,120,190,142,93,12>>, <<191,234,15,198,104,75,184,1>>, <<191,232,216,222,0,45,131,225>>,
            <<191,231,136,248,55,116,67,151>>, <<191,230,33,102,225,121,95,224>>, <<191,228,163,147,159,235,95,89>>, <<191,227,16,254,119,24,195,163>>,
            <<191,225,107,60,75,183,159,215>>, <<191,223,103,234,151,91,138,6>>, <<191,219,217,198,134,231,73,163>>, <<191,216,47,159,195,125,133,90>>,
            <<191,212,109,37,214,100,159,223>>, <<191,208,150,32,191,202,205,145>>, <<191,201,92,218,82,111,77,205>>, <<191,193,115,241,6,107,112,137>>,
            <<191,178,242,244,72,114,206,253>>, <<191,135,87,189,190,149,194,115>>, <<63,170,63,232,52,55,239,192>>, <<63,189,29,172,174,217,228,183>>,
            <<63,198,127,14,103,69,135,123>>, <<63,206,88,166,90,103,222,196>>, <<63,211,9,220,135,255,186,41>>, <<63,214,212,64,12,167,3,83>>,
            <<63,218,135,173,197,195,179,116>>, <<63,222,32,108,213,119,202,132>>, <<63,224,205,111,153,225,228,38>>, <<63,226,121,194,168,239,152,180>>,
            <<63,228,19,128,207,117,143,94>>, <<63,229,153,13,245,58,185,60>>, <<63,231,8,226,80,177,249,123>>, <<63,232,97,139,241,3,147,62>>,
            <<63,233,161,176,50,29,110,245>>, <<63,234,200,13,25,84,153,66>>, <<63,235,211,122,153,57,19,10>>, <<63,236,194,235,187,86,58,143>>,
            <<63,237,149,111,174,180,108,235>>, <<63,238,74,50,186,11,238,145>>, <<63,238,224,127,16,181,64,172>>, <<63,239,87,189,137,128,230,35>>,
            <<63,239,175,118,54,190,191,143>>, <<63,239,231,80,222,219,229,251>>, <<63,239,255,21,85,29,232,158>>, <<63,239,246,171,178,34,17,130>>,
            <<63,239,206,28,107,231,228,187>>, <<63,239,133,144,77,78,182,87>>, <<63,239,29,80,77,14,212,185>>, <<63,238,149,197,68,87,162,236>>,
            <<63,237,239,119,133,92,76,31>>, <<63,237,43,14,82,57,78,223>>, <<63,236,73,79,52,188,151,210>>, <<63,235,75,29,55,185,104,120>>,
            <<63,234,49,120,2,175,235,142>>, <<63,232,253,122,216,174,27,255>>, <<63,231,176,91,123,108,99,154>>, <<63,230,75,104,243,196,198,162>>,
            <<63,228,208,10,64,189,208,41>>, <<63,227,63,188,238,123,226,69>>, <<63,225,156,19,150,132,149,151>>, <<63,223,205,104,149,171,31,132>>,
            <<63,220,66,173,218,204,128,121>>, <<63,216,155,134,235,127,121,255>>, <<63,212,219,160,76,206,20,115>>, <<63,209,6,191,103,207,85,73>>,
            <<63,202,65,125,125,103,141,57>>, <<63,194,91,20,25,50,147,215>>, <<63,180,196,105,80,54,26,30>>, <<63,146,247,30,3,76,179,72>>,
            <<191,166,155,62,27,41,236,241>>, <<191,187,77,167,97,18,224,7>>, <<191,197,153,28,247,82,199,216>>, <<191,205,117,173,100,182,22,176>>,
            <<191,210,154,78,109,131,178,239>>, <<191,214,103,16,132,141,94,136>>, <<191,218,29,74,160,4,73,201>>, <<191,221,185,65,17,139,130,97>>,
            <<191,224,155,169,74,131,220,168>>, <<191,226,73,253,251,156,125,95>>, <<191,227,229,237,207,11,106,109>>, <<191,229,109,218,119,177,83,220>>,
            <<191,230,224,57,201,1,161,210>>, <<191,232,59,151,67,114,35,110>>, <<191,233,126,149,139,30,24,241>>, <<191,234,167,239,199,35,69,175>>,
            <<191,235,182,122,232,88,78,82>>, <<191,236,169,38,214,19,44,173>>, <<191,237,126,255,127,209,204,67>>, <<191,238,55,45,210,177,14,143>>,
            <<191,238,208,248,145,187,205,159>>, <<191,239,75,197,16,55,245,14>>, <<191,239,167,23,205,54,127,152>>, <<191,239,226,148,239,201,235,242>>,
            <<191,239,254,0,163,102,20,207>>, <<191,239,249,63,84,12,173,140>>, <<191,239,212,85,202,9,195,231>>, <<191,239,143,105,37,36,110,191>>,
            <<191,239,42,190,183,72,119,115>>, <<191,238,166,187,190,206,145,224>>, <<191,238,3,229,0,169,71,224>>, <<191,237,66,222,66,220,224,24>>,
            <<191,236,100,105,167,200,200,46>>, <<191,235,105,102,234,231,219,5>>, <<191,234,82,210,127,204,65,103>>, <<191,233,33,196,148,56,205,117>>,
            <<191,231,215,111,246,87,169,57>>, <<191,230,117,32,224,41,53,99>>, <<191,228,252,59,169,98,6,45>>, <<191,227,110,59,97,7,109,199>>,
            <<191,225,204,176,80,51,137,196>>, <<191,224,25,62,103,128,9,232>>, <<191,220,171,55,49,88,248,253>>, <<191,217,7,28,60,81,234,237>>,
            <<191,213,73,213,100,128,191,60>>, <<191,209,119,37,111,90,129,210>>, <<191,203,37,201,85,206,243,95>>, <<191,195,65,250,31,157,248,196>>,
            <<191,182,149,153,70,120,127,37>>, <<191,154,66,30,19,254,68,195>>, <<63,162,246,72,210,178,223,67>>, <<63,185,125,71,68,220,242,71>>,
            <<63,196,178,227,178,117,112,86>>, <<63,204,146,82,116,165,41,151>>, <<63,210,42,130,116,98,238,92>>, <<63,213,249,150,122,147,95,121>>,
            <<63,217,178,144,160,24,53,156>>, <<63,221,81,178,114,128,11,201>>, <<63,224,105,171,190,211,58,188>>, <<63,226,25,252,122,193,50,250>>,
            <<63,227,184,24,161,16,119,210>>, <<63,229,66,95,181,29,80,32>>, <<63,230,183,69,44,122,141,106>>, <<63,232,21,81,253,194,144,168>>,
            <<63,233,91,38,25,199,180,123>>, <<63,234,135,121,205,168,235,157>>, <<63,235,153,31,12,102,20,102>>, <<63,236,143,2,158,168,198,58>>,
            <<63,237,104,45,55,144,28,75>>, <<63,238,35,196,109,104,240,113>>, <<63,238,193,11,149,88,134,118>>, <<63,239,63,100,129,28,152,136>>,
            <<63,239,158,80,30,34,3,166>>, <<63,239,221,110,245,82,30,183>>, <<63,239,252,129,139,22,15,176>>, <<63,239,251,104,159,47,170,220>>,
            <<63,239,218,37,76,39,160,4>>, <<63,239,152,217,6,49,78,199>>, <<63,239,55,197,121,133,111,239>>, <<63,238,183,76,72,85,87,29>>,
            <<63,238,23,238,168,153,76,14>>, <<63,237,90,76,226,28,191,118>>, <<63,236,127,37,173,74,233,70>>, <<63,235,135,85,115,94,54,201>>,
            <<63,234,115,213,112,179,22,70>>, <<63,233,69,186,186,29,122,209>>, <<63,231,254,53,38,60,218,145>>, <<63,230,158,142,27,231,14,164>>,
            <<63,229,40,39,70,221,128,122>>, <<63,227,156,121,52,25,205,57>>, <<63,225,253,17,215,23,92,59>>, <<63,224,75,146,249,151,52,198>>,
            <<63,221,19,97,46,224,219,90>>, <<63,217,114,94,80,39,9,196>>, <<63,213,183,195,174,244,139,40>>, <<63,209,231,81,96,154,137,238>>,
            <<63,204,9,186,228,95,13,251>>, <<63,196,40,160,25,191,83,132>>, <<63,184,102,126,32,22,30,163>>, <<63,160,198,99,104,4,2,174>>,
            <<191,158,162,40,243,94,51,204>>, <<191,183,172,146,98,167,116,70>>, <<191,195,204,101,150,93,30,65>>, <<191,203,174,152,126,90,82,6>>,
            <<191,209,186,122,16,110,154,144>>, <<191,213,139,211,90,210,240,68>>, <<191,217,71,129,40,243,250,8>>, <<191,220,233,194,80,191,102,144>>,
            <<191,224,55,119,157,18,124,253>>, <<191,225,233,190,198,6,155,94>>, <<191,227,138,1,221,243,78,228>>, <<191,229,22,158,62,25,185,144>>,
            <<191,230,142,5,3,82,221,34>>, <<191,231,238,188,159,60,241,93>>, <<191,233,55,98,83,244,100,246>>, <<191,234,102,171,152,219,41,152>>,
            <<191,235,123,103,103,6,238,169>>, <<191,236,116,127,108,8,52,185>>, <<191,237,80,249,33,213,208,220>>, <<191,238,15,246,202,194,247,167>>,
            <<191,238,176,184,80,130,202,170>>, <<191,239,50,156,5,88,233,75>>, <<191,239,149,31,70,180,183,112>>, <<191,239,215,223,0,147,223,236>>,
            <<191,239,250,152,17,39,245,173>>, <<191,239,253,39,140,90,224,1>>, <<191,239,223,138,222,238,67,78>>, <<191,239,161,223,209,18,135,31>>,
            <<191,239,68,100,104,114,228,211>>, <<191,238,199,118,169,212,154,177>>, <<191,238,43,148,58,135,248,44>>, <<191,237,113,89,226,10,124,240>>,
            <<191,236,153,130,236,88,236,219>>, <<191,235,164,232,109,144,34,16>>, <<191,234,148,128,103,154,4,100>>, <<191,233,105,92,210,194,8,140>>,
            <<191,232,36,170,138,42,116,201>>, <<191,230,199,176,29,55,6,60>>, <<191,229,83,204,135,29,221,59>>, <<191,227,202,117,205,232,97,59>>,
            <<191,226,45,55,138,71,207,77>>, <<191,224,125,177,89,183,14,199>>, <<191,221,123,42,120,245,108,71>>, <<191,217,221,75,194,69,192,219>>,
            <<191,214,37,105,190,140,235,185>>, <<191,210,87,65,198,127,2,193>>, <<191,204,237,79,50,253,179,101>>, <<191,197,15,3,8,125,154,237>>,
            <<191,186,55,17,210,230,103,26>>, <<191,164,107,127,251,156,107,119>>, <<63,151,87,90,95,157,91,143>>, <<63,181,219,142,195,252,47,114>>,
            <<63,194,229,165,161,158,67,53>>, <<63,202,202,130,119,54,211,87>>, <<63,209,74,54,182,65,19,34>>, <<63,213,29,200,146,89,12,131>>,
            <<63,216,220,29,158,168,59,132>>, <<63,220,129,114,5,247,224,151>>, <<63,224,5,13,140,57,194,24>>, <<63,225,185,69,125,221,209,221>>,
            <<63,227,91,170,30,252,177,117>>, <<63,228,234,150,164,44,194,155>>, <<63,230,100,121,214,187,228,194>>, <<63,231,199,215,168,51,191,132>>,
            <<63,233,19,74,176,150,187,196>>, <<63,234,69,133,149,213,6,238>>, <<63,235,93,84,91,16,154,218>>, <<63,236,89,157,150,94,152,122>>,
            <<63,237,57,99,139,206,170,156>>, <<63,237,251,197,44,155,227,128>>, <<63,238,159,254,249,134,38,161>>, <<63,239,37,107,199,112,168,8>>,
            <<63,239,139,133,101,127,196,109>>, <<63,239,209,229,36,15,6,137>>, <<63,239,248,68,59,247,177,238>>, <<63,239,254,124,21,191,229,55>>,
            <<63,239,228,134,112,106,202,168>>, <<63,239,170,125,103,194,198,26>>, <<63,239,80,155,90,23,74,238>>, <<63,238,215,58,173,136,204,209>>,
            <<63,238,62,213,117,29,202,19>>, <<63,237,136,4,245,252,91,215>>, <<63,236,179,129,13,67,235,11>>, <<63,235,194,31,119,33,211,69>>,
            <<63,234,180,210,247,219,44,109>>, <<63,233,140,170,103,163,220,27>>, <<63,232,74,207,162,56,73,70>>, <<63,230,240,134,91,76,24,254>>,
            <<63,229,127,42,216,250,173,177>>, <<63,227,248,48,149,129,112,97>>, <<63,226,93,32,201,163,172,5>>, <<63,224,175,152,225,47,240,106>>,
            <<63,221,226,145,182,105,169,136>>, <<63,218,71,227,47,14,115,77>>, <<63,214,146,198,38,157,111,226>>, <<63,210,198,245,44,189,138,49>>,
            <<63,205,208,131,76,198,126,139>>, <<63,197,245,31,237,158,192,66>>, <<63,188,7,78,85,206,45,5>>, <<63,168,16,88,165,103,90,240>>,
            <<191,144,12,62,42,210,47,165>>, <<191,180,10,66,115,106,202,116>>, <<191,193,254,166,211,168,142,120>>, <<191,201,230,19,85,206,128,204>>,
            <<191,208,217,185,219,56,143,17>>, <<191,212,175,119,143,33,48,153>>, <<191,216,112,103,102,93,75,151>>, <<191,220,24,194,237,23,123,90>>,
            <<191,223,164,220,103,232,218,135>>, <<191,225,136,145,67,126,8,65>>, <<191,227,45,17,254,77,129,145>>, <<191,228,190,73,121,197,236,203>>,
            <<191,230,58,164,48,224,115,91>>, <<191,231,160,163,154,2,56,157>>, <<191,232,238,223,167,184,54,57>>, <<191,234,36,8,50,213,150,50>>,
            <<191,235,62,230,76,136,226,242>>, <<191,236,62,93,119,19,198,12>>, <<191,237,33,108,195,234,176,58>>, <<191,237,231,47,214,29,10,99>>,
            <<191,238,142,223,200,1,166,57>>, <<191,239,23,211,243,64,163,159>>, <<191,239,129,130,154,113,169,160>>, <<191,239,203,129,115,163,163,123>>,
            <<191,239,245,134,19,66,232,100>>, <<191,239,255,102,54,242,41,63>>, <<191,239,233,23,240,10,226,136>>, <<191,239,178,177,173,154,158,72>>,
            <<191,239,92,106,37,210,237,169>>, <<191,238,230,152,31,2,209,162>>, <<191,238,81,178,24,80,242,39>>, <<191,237,158,77,210,142,75,68>>,
            <<191,236,205,31,185,153,95,88>>, <<191,235,222,250,46,233,55,161>>, <<191,234,212,204,181,246,190,75>>, <<191,233,175,163,3,89,112,29>>,
            <<191,232,112,163,239,137,75,223>>, <<191,231,25,16,78,85,38,151>>, <<191,229,170,65,172,55,130,197>>, <<191,228,37,168,242,206,48,121>>,
            <<191,226,140,204,245,210,194,214>>, <<191,224,225,72,234,8,127,160>>, <<191,222,73,149,143,86,169,54>>, <<191,218,178,35,51,255,184,204>>,
            <<191,214,255,215,123,110,157,27>>, <<191,211,54,106,31,214,126,142>>, <<191,206,179,84,62,21,126,117>>, <<191,198,218,243,203,209,100,152>>,
            <<191,189,215,45,160,212,124,198>>, <<191,171,180,225,70,231,45,94>>, <<63,129,129,217,45,99,176,20>>, <<63,178,56,179,124,116,49,222>>,
            <<63,193,23,108,44,188,181,131>>, <<63,201,1,78,17,221,7,176>>, <<63,208,105,4,245,114,194,27>>, <<63,212,64,225,192,16,46,210>>,
            <<63,216,4,95,230,78,103,142>>, <<63,219,175,182,98,71,134,120>>, <<63,223,63,52,121,62,95,192>>, <<63,225,87,162,184,226,123,195>>,
            <<63,226,254,58,22,220,180,2>>, <<63,228,145,183,82,60,21,222>>, <<63,230,16,132,156,227,25,38>>, <<63,231,121,32,247,10,165,8>>,
            <<63,232,202,33,178,119,184,136>>, <<63,234,2,51,223,62,125,125>>, <<63,235,32,29,160,164,51,197>>, <<63,236,34,191,104,201,39,141>>,
            <<63,237,9,21,25,221,34,217>>, <<63,237,210,55,11,187,89,49>>, <<63,238,125,90,244,231,11,157>>, <<63,239,9,212,181,254,53,179>>,
            <<63,239,119,23,6,213,213,132>>, <<63,239,196,180,4,145,189,235>>, <<63,239,242,93,160,40,220,98>>, <<63,239,255,229,236,230,254,165>>,
            <<63,239,237,63,78,156,252,106>>, <<63,239,186,124,135,80,231,217>>, <<63,239,103,208,164,96,121,190>>, <<63,238,245,142,203,40,169,127>>,
            <<63,238,100,41,229,102,45,220>>, <<63,237,180,52,45,162,218,217>>, <<63,236,230,94,156,36,61,26>>, <<63,235,251,120,52,239,82,124>>,
            <<63,234,244,109,55,148,81,8>>, <<63,233,210,70,49,147,228,69>>, <<63,232,150,38,244,77,14,243>>, <<63,231,65,77,111,126,226,13>>,
            <<63,229,213,16,113,133,157,47>>, <<63,228,82,222,78,148,173,167>>, <<63,226,188,59,112,72,10,179>>, <<63,225,18,192,207,0,14,144>>,
            <<63,222,176,52,173,31,231,91>>, <<63,219,28,10,111,186,204,183>>, <<63,215,108,156,82,66,198,221>>, <<63,211,165,159,45,25,240,227>>,
            <<63,207,149,191,20,144,14,71>>, <<63,199,192,123,166,183,9,105>>, <<63,191,166,169,173,53,234,213>>, <<63,175,89,13,194,168,107,135>>,
            <<191,87,87,222,89,255,238,22>>, <<191,176,102,231,235,118,252,209>>, <<191,192,47,248,173,226,57,108>>, <<191,200,28,53,164,61,11,20>>,
            <<191,207,240,50,247,143,10,69>>, <<191,211,210,8,148,239,228,36>>, <<191,215,152,8,133,197,61,122>>, <<191,219,70,77,194,232,69,48>>,
            <<191,222,217,36,158,139,68,10>>, <<191,225,38,122,128,200,110,153>>, <<191,226,207,35,4,117,95,254>>, <<191,228,100,224,193,203,129,101>>,
            <<191,229,230,27,166,220,48,136>>, <<191,231,81,80,66,180,155,106>>, <<191,232,165,17,75,7,241,40>>, <<191,233,224,9,11,146,145,227>>,
            <<191,235,0,250,189,196,88,140>>, <<191,236,6,195,199,88,154,213>>, <<191,236,240,92,222,155,123,72>>, <<191,237,188,219,19,54,133,168>>,
            <<191,238,107,112,186,122,36,169>>, <<191,238,251,110,62,54,157,100>>, <<191,239,108,66,205,84,52,212>>, <<191,239,189,124,237,121,15,81>>,
            <<191,239,238,202,237,42,83,214>>, <<191,239,255,251,53,245,166,218>>, <<191,239,240,252,126,80,127,228>>, <<191,239,193,221,218,251,23,216>>,
            <<191,239,114,206,175,213,130,206>>, <<191,239,4,30,128,54,41,146>>, <<191,238,118,60,158,241,157,66>>, <<191,237,201,183,190,100,55,162>>,
            <<191,236,255,61,96,238,4,28>>, <<191,236,23,153,42,113,112,58>>, <<191,235,19,180,19,132,55,183>>, <<191,233,244,147,127,32,118,95>>,
            <<191,232,187,88,51,193,138,68>>, <<191,231,105,61,56,245,101,179>>, <<191,229,255,150,154,133,243,130>>, <<191,228,127,208,18,121,205,252>>,
            <<191,226,235,107,155,67,156,211>>, <<191,225,67,255,235,144,138,175>>, <<191,223,22,109,186,120,28,39>>, <<191,219,133,151,130,8,66,120>>,
            <<191,215,217,19,65,90,152,15>>, <<191,212,20,146,226,172,148,55>>, <<191,208,59,224,111,151,205,106>>, <<191,200,165,180,130,238,61,151>>,
            <<191,192,186,222,58,188,143,21>>, <<191,177,126,104,254,52,139,20>>, <<191,119,87,214,150,123,122,2>>, <<63,173,41,203,155,55,158,102>>,
            <<63,190,144,158,177,187,80,255>>, <<63,199,54,205,6,221,101,242>>, <<63,207,13,241,203,136,230,61>>, <<63,211,98,237,126,106,6,242>>,
            <<63,215,43,98,173,21,35,217>>, <<63,218,220,138,109,139,255,127>>, <<63,222,114,174,43,64,144,13>>, <<63,224,245,25,62,172,219,169>>,
            <<63,226,159,205,99,180,172,45>>, <<63,228,55,198,93,147,254,6>>, <<63,229,187,105,219,216,58,83>>, <<63,231,41,50,1,107,86,69>>,
            <<63,232,127,174,236,173,184,33>>, <<63,233,189,136,41,116,88,53>>, <<63,234,225,126,11,119,47,20>>, <<63,235,234,106,239,211,37,91>>,
            <<63,236,215,68,100,92,99,182>>, <<63,237,167,28,51,152,29,235>>, <<63,238,89,33,84,79,248,116>>, <<63,238,236,160,187,206,115,218>>,
            <<63,239,97,6,17,240,188,36>>, <<63,239,181,220,70,88,182,163>>, <<63,239,234,206,6,41,113,48>>, <<63,239,255,166,17,215,87,45>>,
            <<63,239,244,79,114,181,252,115>>, <<63,239,200,213,144,13,152,126>>, <<63,239,125,100,35,162,252,162>>, <<63,239,18,71,13,189,144,233>>,
            <<63,238,135,234,8,215,137,242>>, <<63,237,222,216,61,69,36,16>>, <<63,237,23,187,181,63,223,12>>, <<63,236,51,92,177,226,86,26>>,
            <<63,235,50,160,225,192,253,125>>, <<63,234,22,138,121,233,248,46>>, <<63,232,224,55,50,52,170,34>>, <<63,231,144,223,37,230,22,242>>,
            <<63,230,41,211,153,202,249,202>>, <<63,228,172,125,169,3,81,187>>, <<63,227,26,92,217,212,206,141>>, <<63,225,117,5,155,240,214,44>>,
            <<63,223,124,63,99,101,58,131>>, <<63,219,238,201,11,220,109,126>>, <<63,216,69,58,223,249,227,250>>, <<63,212,131,67,207,140,108,244>>,
            <<63,208,172,171,87,37,57,96>>, <<63,201,138,155,102,28,41,197>>, <<63,193,162,47,250,193,170,225>>, <<63,179,80,16,236,160,246,95>>,
            <<63,138,66,171,144,102,63,7>>, <<191,169,133,102,97,129,115,189>>, <<191,188,192,230,96,77,187,110>>, <<191,198,81,23,52,183,162,253>>,
            <<191,206,43,73,87,79,55,146>>, <<191,210,243,145,238,3,138,67>>, <<191,214,190,111,197,150,77,75>>, <<191,218,114,109,193,242,231,196>>,
            <<191,222,11,210,116,36,76,14>>, <<191,224,195,127,150,202,140,186>>, <<191,226,112,57,210,7,217,62>>, <<191,228,10,104,187,150,233,54>>,
            <<191,229,144,111,201,213,218,42>>, <<191,231,0,198,184,156,12,67>>, <<191,232,89,251,19,190,132,51>>, <<191,233,154,177,171,164,129,121>>,
            <<191,234,193,167,242,117,71,11>>, <<191,235,205,181,64,127,221,96>>, <<191,236,189,203,254,150,159,187>>, <<191,237,144,250,181,50,165,41>>,
            <<191,238,70,108,255,78,8,31>>, <<191,238,221,108,96,0,255,75>>, <<191,239,85,96,250,10,242,209>>, <<191,239,173,210,40,142,230,68>>,
            <<191,239,230,102,248,105,143,195>>, <<191,239,254,230,129,167,57,210>>, <<191,239,247,56,32,191,78,185>>, <<191,239,207,99,143,92,23,240>>,
            <<191,239,135,144,220,149,183,201>>, <<191,239,32,8,68,168,57,130>>, <<191,238,153,49,232,77,39,247>>, <<191,237,243,149,100,1,220,246>>,
            <<191,237,47,217,71,163,189,28>>, <<191,236,78,194,110,235,148,55>>, <<191,235,81,51,59,112,157,62>>, <<191,234,56,42,176,250,84,118>>,
            <<191,233,4,195,117,5,224,211>>, <<191,231,184,50,178,129,79,81>>, <<191,230,83,198,226,218,102,183>>, <<191,228,216,230,125,153,184,3>>,
            <<191,227,73,14,143,220,72,9>>, <<191,225,165,209,61,22,178,174>>, <<191,223,225,168,85,69,60,252>>, <<191,220,87,157,175,92,13,247>>,
            <<191,216,177,17,198,108,41,131>>, <<191,212,241,176,131,149,110,209>>, <<191,209,29,62,201,207,65,37>>, <<191,202,111,45,86,246,182,170>>,
            <<191,194,137,71,21,85,214,21>>, <<191,181,33,120,159,231,215,150>>, <<191,148,108,138,63,137,176,120>>, <<63,165,224,172,70,201,48,61>>,
            <<63,186,240,206,109,189,125,211>>, <<63,197,107,23,41,198,82,57>>, <<63,205,72,60,140,181,157,61>>, <<63,210,131,247,86,23,254,192>>,
            <<63,214,81,49,57,161,52,93>>, <<63,218,7,249,33,6,35,138>>, <<63,221,164,146,207,77,130,244>>, <<63,224,145,174,46,23,200,241>>,
            <<63,226,64,104,237,170,41,129>>, <<63,227,220,200,114,181,78,250>>, <<63,229,101,45,255,196,45,20>>, <<63,230,216,14,238,180,13,217>>,
            <<63,232,51,246,61,158,195,20>>, <<63,233,119,134,6,0,123,87>>, <<63,234,161,120,220,160,124,215>>, <<63,235,176,163,24,218,145,72>>,
            <<63,236,163,244,1,255,239,158>>, <<63,237,122,118,225,160,157,98>>, <<63,238,51,83,249,169,137,150>>, <<63,238,205,209,93,95,148,237>>,
            <<63,239,73,83,172,93,122,8>>, <<63,239,165,94,174,216,145,115>>, <<63,239,225,149,210,143,19,255>>, <<63,239,253,188,135,226,106,140>>,
            <<63,239,249,182,126,191,200,153>>, <<63,239,213,135,195,25,215,131>>, <<63,239,145,84,184,214,210,113>>, <<63,239,45,97,247,55,37,94>>,
            <<63,238,170,20,3,217,106,35>>, <<63,238,7,238,237,161,9,2>>, <<63,237,71,149,199,229,86,196>>, <<63,236,105,202,6,110,154,49>>,
            <<63,235,111,106,186,229,249,151>>, <<63,234,89,115,180,124,15,199>>, <<63,233,40,252,130,167,200,191>>, <<63,231,223,55,91,252,2,216>>,
            <<63,230,125,111,234,47,47,65>>, <<63,229,5,9,252,138,32,227>>, <<63,227,119,128,34,13,254,119>>, <<63,225,214,98,44,185,14,170>>,
            <<63,224,35,83,159,105,48,221>>, <<63,220,192,20,15,224,248,242>>, <<63,217,28,150,142,9,93,96>>, <<63,213,95,215,143,134,175,75>>,
            <<63,209,141,153,81,45,13,141>>, <<63,203,83,103,93,78,18,247>>, <<63,195,112,32,137,231,201,206>>, <<63,182,242,154,12,44,237,246>>,
            <<63,155,183,122,201,156,186,28>>, <<191,162,59,169,105,38,213,102>>, <<191,185,32,92,225,137,240,224>>, <<191,196,132,207,226,250,221,82>>,
            <<191,204,100,206,94,221,200,66>>, <<191,210,20,31,41,212,88,6>>, <<191,213,227,168,116,138,4,135>>, <<191,217,157,45,236,211,97,15>>,
            <<191,221,60,240,148,31,109,247>>, <<191,224,95,165,170,68,68,88>>, <<191,226,16,91,85,162,197,117>>, <<191,227,174,230,26,173,231,217>>,
            <<191,229,57,165,13,128,190,250>>, <<191,230,175,11,43,31,50,134>>, <<191,232,13,160,232,192,72,8>>, <<191,233,84,5,173,128,229,54>>,
            <<191,234,128,241,53,2,161,239>>, <<191,235,147,52,217,146,169,137>>, <<191,236,137,188,196,140,0,245>>, <<191,237,99,145,3,195,140,74>>,
            <<191,238,31,214,130,230,147,208>>, <<191,238,189,207,231,208,247,114>>, <<191,239,60,222,80,253,137,21>>, <<191,239,156,129,245,81,21,218>>,
            <<191,239,220,90,164,159,60,28>>, <<191,239,252,40,40,103,237,213>>, <<191,239,251,202,132,108,79,196>>, <<191,239,219,66,22,217,245,191>>,
            <<191,239,154,175,151,236,44,7>>, <<191,239,58,83,249,3,165,189>>, <<191,238,186,144,35,85,174,70>>, <<191,238,27,228,150,116,149,191>>,
            <<191,237,94,240,231,19,63,23>>, <<191,236,132,115,30,134,4,66>>, <<191,235,141,70,251,162,13,128>>, <<191,234,122,101,21,187,174,119>>,
            <<191,233,76,225,226,161,194,130>>, <<191,232,5,236,160,145,152,178>>, <<191,230,166,206,37,59,40,170>>, <<191,229,48,231,147,8,68,250>>,
            <<191,227,165,176,245,243,43,236>>, <<191,226,6,183,201,82,12,216>>, <<191,224,85,157,104,19,177,118>>, <<191,221,40,42,209,254,130,240>>,
            <<191,217,135,199,209,58,176,65>>, <<191,213,205,183,133,6,178,2>>, <<191,209,253,185,119,147,82,211>>, <<191,204,55,70,130,22,210,124>>,
            <<191,196,86,185,88,179,8,51>>, <<191,184,195,111,38,125,243,145>>, <<191,161,129,7,146,166,39,97>>, <<63,157,44,211,207,75,196,239>>,
            <<63,183,79,151,196,92,171,156>>, <<63,195,158,68,94,51,88,72>>, <<63,203,129,1,194,44,210,58>>, <<63,209,164,10,221,50,148,140>>,
            <<63,213,117,214,226,155,196,11>>, <<63,217,50,13,136,136,91,52>>, <<63,220,212,237,27,69,40,170>>, <<63,224,45,102,177,183,13,139>>,
            <<63,225,224,17,169,194,183,206>>, <<63,227,128,194,76,27,19,124>>, <<63,229,13,213,131,213,219,157>>, <<63,230,133,187,246,69,239,117>>,
            <<63,231,230,251,148,160,157,29>>, <<63,233,48,49,24,56,25,198>>, <<63,234,96,17,103,204,38,116>>, <<63,235,117,106,228,137,199,56>>,
            <<63,236,111,38,157,107,73,178>>, <<63,237,76,73,103,195,11,93>>, <<63,238,11,244,219,215,70,14>>, <<63,238,173,104,52,144,155,76>>,
            <<63,239,48,1,17,90,100,122>>, <<63,239,147,60,25,113,220,12>>, <<63,239,214,181,127,255,236,111>>, <<63,239,250,41,104,120,164,14>>,
            <<63,239,253,116,42,219,120,182>>, <<63,239,224,146,119,143,176,88>>, <<63,239,163,161,90,184,211,156>>, <<63,239,70,222,30,255,224,36>>,
            <<63,238,202,166,15,238,136,66>>, <<63,238,47,118,28,26,158,135>>, <<63,237,117,234,87,127,224,176>>, <<63,236,158,189,94,134,168,152>>,
            <<63,235,170,199,154,85,91,169>>, <<63,234,154,254,103,41,45,240>>, <<63,233,112,115,29,145,118,145>>, <<63,232,44,81,255,133,111,247>>,
            <<63,230,207,225,10,105,3,0>>, <<63,229,92,126,175,48,105,148>>, <<63,227,211,160,113,236,94,1>>, <<63,226,54,209,114,33,16,54>>,
            <<63,224,135,176,221,98,26,86>>, <<63,221,143,224,155,133,230,254>>, <<63,217,242,164,43,127,22,106>>, <<63,214,59,78,246,168,148,231>>,
            <<63,210,109,157,200,24,176,34>>, <<63,205,26,199,207,116,8,246>>, <<63,197,61,14,130,202,21,95>>, <<63,186,147,241,228,229,246,249>>,
            <<63,165,38,23,137,83,138,190>>, <<191,149,225,243,196,51,9,191>>, <<191,181,126,133,31,244,242,201>>, <<191,194,183,119,154,48,236,233>>,
            <<191,202,156,217,172,66,99,28>>, <<191,209,51,187,228,244,109,221>>, <<191,213,7,189,241,19,122,37>>, <<191,216,198,153,88,110,31,36>>,
            <<191,220,108,137,190,173,97,167>>, <<191,223,245,227,215,24,104,105>>, <<191,225,175,140,138,162,231,75>>, <<191,227,82,93,160,112,233,142>>,
            <<191,228,225,191,244,120,131,91>>, <<191,230,92,33,217,139,162,103>>, <<191,231,192,6,193,199,80,114>>, <<191,233,12,8,189,80,156,206>>,
            <<191,234,62,217,226,82,146,9>>, <<191,235,87,69,156,210,158,200>>, <<191,236,84,49,229,9,241,16>>, <<191,237,52,160,91,11,196,78>>,
            <<191,237,247,175,70,154,248,42>>, <<191,238,156,154,122,46,7,50>>, <<191,239,34,188,24,60,217,32>>, <<191,239,137,141,58,17,242,199>>,
            <<191,239,208,166,119,119,116,102>>, <<191,239,247,192,78,183,57,19>>, <<191,239,254,179,108,133,159,137>>, <<191,239,229,120,211,142,162,61>>,
            <<191,239,172,41,227,125,108,137>>, <<191,239,83,0,63,119,106,30>>, <<191,238,218,85,148,36,113,50>>, <<191,238,66,163,61,126,78,122>>,
            <<191,237,140,129,204,194,134,182>>, <<191,236,184,168,111,0,219,115>>, <<191,235,199,236,52,225,24,9>>, <<191,234,187,63,60,89,99,169>>,
            <<191,233,147,175,189,44,108,33>>, <<191,232,82,102,249,36,182,73>>, <<191,230,248,168,17,29,229,80>>, <<191,229,135,206,192,9,51,194>>,
            <<191,228,1,77,253,51,129,61>>, <<191,226,102,174,135,44,224,28>>, <<191,224,185,141,88,200,247,156>>, <<191,221,247,52,19,138,226,212>>,
            <<191,218,93,42,57,111,204,49>>, <<191,214,168,156,119,240,162,33>>, <<191,210,221,68,206,154,243,132>>, <<191,205,253,232,80,192,227,218>>,
            <<191,198,35,29,10,32,173,28>>, <<191,188,100,28,62,129,240,137>>, <<191,168,202,225,41,161,119,212>>, <<63,141,45,149,227,225,19,76>>,
            <<63,179,173,42,255,20,99,58>>, <<63,193,208,108,150,141,165,127>>, <<63,201,184,89,19,237,223,172>>, <<63,208,195,51,182,158,251,203>>,
            <<63,212,153,95,14,27,157,97>>, <<63,216,90,210,193,228,77,205>>, <<63,220,3,199,217,133,120,33>>, <<63,223,144,143,255,37,168,192>>,
            <<63,225,126,204,153,161,243,127>>, <<63,227,35,184,177,251,72,51>>, <<63,228,181,100,242,6,152,86>>, <<63,230,50,61,95,76,218,10>>,
            <<63,231,152,194,241,196,83,31>>, <<63,232,231,141,21,11,132,206>>, <<63,234,29,75,19,15,60,65>>, <<63,235,56,197,102,175,146,20>>,
            <<63,236,56,222,245,14,162,119>>, <<63,237,28,150,44,78,121,66>>, <<63,237,227,6,6,157,89,56>>, <<63,238,139,102,240,140,12,174>>,
            <<63,239,21,15,145,198,170,130>>, <<63,239,127,117,119,101,172,15>>, <<63,239,202,45,159,44,78,68>>, <<63,239,244,236,227,40,12,35>>,
            <<63,239,255,136,69,68,248,139>>, <<63,239,233,245,26,139,0,31>>, <<63,239,180,73,21,216,143,52>>, <<63,239,94,186,50,15,206,95>>,
            <<63,238,233,158,123,204,115,33>>, <<63,238,85,107,186,216,179,82>>, <<63,237,162,182,251,184,97,3>>, <<63,236,210,51,249,193,117,33>>,
            <<63,235,228,180,106,88,138,159>>, <<63,234,219,39,42,7,110,224>>, <<63,233,182,151,76,65,132,13>>, <<63,232,120,43,14,199,230,109>>,
            <<63,231,33,34,177,187,97,10>>, <<63,229,178,215,53,133,150,112>>, <<63,228,46,184,255,221,202,52>>, <<63,226,150,78,105,69,201,73>>,
            <<63,224,235,50,52,115,200,72>>, <<63,222,94,35,226,104,78,45>>, <<63,218,199,88,152,197,17,138>>, <<63,215,21,158,157,88,238,99>>,
            <<63,211,76,173,23,195,193,67>>, <<63,206,224,165,18,154,33,164>>, <<63,199,8,225,241,149,119,76>>, <<63,190,51,232,43,149,83,143>>,
            <<63,172,111,88,85,66,205,254>>, <<191,125,45,198,105,129,134,4>>, <<191,177,219,143,109,106,90,67>>, <<191,192,233,38,83,178,210,231>>,
            <<191,200,211,130,241,37,136,8>>, <<191,208,82,115,200,117,94,250>>, <<191,212,42,187,168,199,51,166>>, <<191,215,238,187,43,92,163,97>>,
            <<191,219,154,168,200,53,107,180>>, <<191,223,42,211,44,149,98,19>>, <<191,225,77,210,120,226,14,175>>, <<191,226,244,212,27,219,198,84>>,
            <<191,228,136,197,16,5,9,58>>, <<191,230,8,15,18,221,97,202>>, <<191,231,113,48,167,46,90,168>>, <<191,232,194,190,152,190,244,189>>,
            <<191,233,251,101,105,157,189,114>>, <<191,235,25,234,167,145,110,241>>, <<191,236,29,46,40,89,91,174>>, <<191,237,4,43,43,126,248,218>>,
            <<191,237,205,249,96,149,151,197>>, <<191,238,121,205,208,224,32,168>>, <<191,239,6,251,171,114,5,130>>, <<191,239,116,244,242,254,47,107>>,
            <<191,239,195,75,12,164,222,114>>, <<191,239,241,175,47,49,23,213>>, <<191,239,255,242,178,85,159,102>>, <<191,239,238,7,61,153,207,179>>,
            <<191,239,187,254,214,199,42,14>>, <<191,239,106,11,207,201,14,99>>, <<191,238,248,128,148,16,229,121>>, <<191,238,103,207,85,177,140,131>>,
            <<191,237,184,137,154,133,119,151>>, <<191,236,235,95,169,211,9,172>>, <<191,236,1,31,219,2,69,113>>, <<191,234,250,181,198,22,37,253>>,
            <<191,233,217,41,86,186,136,122>>, <<191,232,157,157,194,212,151,74>>, <<191,231,73,80,101,161,8,79>>, <<191,229,221,151,128,134,159,201>>,
            <<191,228,91,224,226,221,187,81>>, <<191,226,197,176,122,7,155,143>>, <<191,225,28,158,203,70,239,19>>, <<191,222,196,174,177,196,103,16>>,
            <<191,219,49,45,232,90,225,69>>, <<191,215,130,83,252,86,48,33>>, <<191,211,187,213,49,13,57,64>>, <<191,207,194,251,34,232,187,235>>,
            <<191,199,238,90,60,251,185,184>>, <<191,192,1,167,210,206,206,127>>, <<191,176,9,184,119,127,20,24>>, <<61,10,135,127,29,182,8,12>>,
            <<63,176,9,184,119,127,90,151>>, <<63,192,1,167,210,206,209,202>>, <<63,199,238,90,60,251,157,138>>, <<63,207,194,251,34,232,191,34>>,
            <<63,211,187,213,49,13,58,212>>, <<63,215,130,83,252,86,49,172>>, <<63,219,49,45,232,90,241,66>>, <<63,222,196,174,177,196,118,140>>,
            <<63,225,28,158,203,70,246,136>>, <<63,226,197,176,122,7,162,181>>, <<63,228,91,224,226,221,187,244>>, <<63,229,221,151,128,134,160,100>>,
            <<63,231,73,80,101,161,8,224>>, <<63,232,157,157,194,212,146,181>>, <<63,233,217,41,86,186,136,247>>, <<63,234,250,181,198,22,42,189>>,
            <<63,236,1,31,219,2,69,216>>, <<63,236,235,95,169,211,13,115>>, <<63,237,184,137,154,133,119,229>>, <<63,238,103,207,85,177,138,71>>,
            <<63,238,248,128,148,16,227,172>>, <<63,239,106,11,207,201,16,17>>, <<63,239,187,254,214,199,42,41>>, <<63,239,238,7,61,153,207,193>>,
            <<63,239,255,242,178,85,159,103>>, <<63,239,241,175,47,49,23,201>>, <<63,239,195,75,12,164,222,89>>, <<63,239,116,244,242,254,45,204>>,
            <<63,239,6,251,171,114,5,78>>, <<63,238,121,205,208,224,32,103>>, <<63,237,205,249,96,149,154,97>>, <<63,237,4,43,43,126,248,129>>,
            <<63,236,29,46,40,89,87,118>>, <<63,235,25,234,167,145,106,63>>, <<63,233,251,101,105,157,184,74>>, <<63,232,194,190,152,190,244,54>>,
            <<63,231,113,48,167,46,90,24>>, <<63,230,8,15,18,221,102,254>>, <<63,228,136,197,16,5,2,116>>, <<63,226,244,212,27,219,197,169>>,
            <<63,225,77,210,120,226,13,252>>, <<63,223,42,211,44,149,96,160>>, <<63,219,154,168,200,53,106,53>>, <<63,215,238,187,43,92,132,42>>,
            <<63,212,42,187,168,199,34,228>>, <<63,208,82,115,200,117,93,96>>, <<63,200,211,130,241,37,132,199>>, <<63,192,233,38,83,178,239,86>>,
            <<63,177,219,143,109,106,83,165>>, <<63,125,45,198,105,125,27,237>>, <<191,172,111,88,85,66,219,61>>, <<191,190,51,232,43,149,153,179>>,
            <<191,199,8,225,241,149,122,143>>, <<191,206,224,165,18,154,36,219>>, <<191,211,76,173,23,195,179,151>>, <<191,215,21,158,157,88,239,239>>,
            <<191,218,199,88,152,197,19,12>>, <<191,222,94,35,226,104,79,163>>, <<191,224,235,50,52,115,200,253>>, <<191,226,150,78,105,69,201,245>>,
            <<191,228,46,184,255,221,215,68>>, <<191,229,178,215,53,133,156,237>>, <<191,231,33,34,177,187,97,156>>, <<191,232,120,43,14,199,230,246>>,
            <<191,233,182,151,76,65,127,200>>, <<191,234,219,39,42,7,111,83>>, <<191,235,228,180,106,88,142,242>>, <<191,236,210,51,249,193,117,126>>,
            <<191,237,162,182,251,184,100,88>>, <<191,238,85,107,186,216,179,150>>, <<191,238,233,158,123,204,115,88>>, <<191,239,94,186,50,15,204,245>>,
            <<191,239,180,73,21,216,143,81>>, <<191,239,233,245,26,139,0,47>>, <<191,239,255,136,69,68,248,141>>, <<191,239,244,236,227,40,12,24>>,
            <<191,239,202,45,159,44,78,43>>, <<191,239,127,117,119,101,169,23>>, <<191,239,21,15,145,198,168,104>>, <<191,238,139,102,240,140,12,111>>,
            <<191,237,227,6,6,157,88,237>>, <<191,237,28,150,44,78,124,60>>, <<191,236,56,222,245,14,162,19>>, <<191,235,56,197,102,175,141,111>>,
            <<191,234,29,75,19,15,59,198>>, <<191,232,231,141,21,11,127,67>>, <<191,231,152,194,241,196,82,144>>, <<191,230,50,61,95,76,217,113>>,
            <<191,228,181,100,242,6,145,155>>, <<191,227,35,184,177,251,71,137>>, <<191,225,126,204,153,161,242,206>>, <<191,223,144,143,255,37,167,79>>,
            <<191,220,3,199,217,133,118,163>>, <<191,216,90,210,193,228,76,68>>, <<191,212,153,95,14,27,140,170>>, <<191,208,195,51,182,158,234,193>>,
            <<191,201,184,89,19,237,220,109>>, <<191,193,208,108,150,141,162,54>>, <<191,179,173,42,255,20,156,109>>, <<191,141,45,149,227,224,222,63>>,
            <<63,168,202,225,41,161,133,19>>, <<63,188,100,28,62,129,247,32>>, <<63,198,35,29,10,32,207,229>>, <<63,205,253,232,80,192,231,20>>,
            <<63,210,221,68,206,154,245,26>>, <<63,214,168,156,119,240,178,164>>, <<63,218,93,42,57,111,205,180>>, <<63,221,247,52,19,138,228,75>>,
            <<63,224,185,141,88,200,248,81>>, <<63,226,102,174,135,44,224,201>>, <<63,228,1,77,253,51,129,226>>, <<63,229,135,206,192,9,58,74>>,
            <<63,230,248,168,17,29,235,118>>, <<63,232,82,102,249,36,182,211>>, <<63,233,147,175,189,44,108,161>>, <<63,234,187,63,60,89,95,184>>,
            <<63,235,199,236,52,225,24,115>>, <<63,236,184,168,111,0,219,209>>, <<63,237,140,129,204,194,135,7>>, <<63,238,66,163,61,126,81,89>>,
            <<63,238,218,85,148,36,113,106>>, <<63,239,83,0,63,119,106,74>>, <<63,239,172,41,227,125,109,204>>, <<63,239,229,120,211,142,162,78>>,
            <<63,239,254,179,108,133,159,141>>, <<63,239,247,192,78,183,57,9>>, <<63,239,208,166,119,119,116,79>>, <<63,239,137,141,58,17,242,163>>,
            <<63,239,34,188,24,60,215,22>>, <<63,238,156,154,122,46,4,160>>, <<63,237,247,175,70,154,245,17>>, <<63,237,52,160,91,11,195,247>>,
            <<63,236,84,49,229,9,244,102>>, <<63,235,87,69,156,210,154,49>>, <<63,234,62,217,226,82,145,143>>, <<63,233,12,8,189,80,156,74>>,
            <<63,231,192,6,193,199,74,135>>, <<63,230,92,33,217,139,161,208>>, <<63,228,225,191,244,120,130,186>>, <<63,227,82,93,160,112,226,132>>,
            <<63,225,175,140,138,162,230,154>>, <<63,223,245,227,215,24,102,249>>, <<63,220,108,137,190,173,96,43>>, <<63,216,198,153,88,110,29,157>>,
            <<63,213,7,189,241,19,120,148>>, <<63,209,51,187,228,244,108,69>>, <<63,202,156,217,172,66,64,144>>, <<63,194,183,119,154,48,201,250>>,
            <<63,181,126,133,31,244,236,45>>, <<63,149,225,243,196,51,239,42>>, <<191,165,38,23,137,84,23,227>>, <<191,186,147,241,228,229,253,145>>,
            <<191,197,61,14,130,202,24,164>>, <<191,205,26,199,207,116,43,90>>, <<191,210,109,157,200,24,177,185>>, <<191,214,59,78,246,168,150,117>>,
            <<191,217,242,164,43,127,38,142>>, <<191,221,143,224,155,133,232,118>>, <<191,224,135,176,221,98,27,12>>, <<191,226,54,209,114,33,10,81>>,
            <<191,227,211,160,113,236,94,168>>, <<191,229,92,126,175,48,106,50>>, <<191,230,207,225,10,105,3,149>>, <<191,232,44,81,255,133,117,192>>,
            <<191,233,112,115,29,145,123,237>>, <<191,234,154,254,103,41,46,102>>, <<191,235,170,199,154,85,88,15>>, <<191,236,158,189,94,134,172,139>>,
            <<191,237,117,234,87,127,225,3>>, <<191,238,47,118,28,26,158,205>>, <<191,238,202,166,15,238,138,169>>, <<191,239,70,222,30,255,224,81>>,
            <<191,239,163,161,90,184,211,188>>, <<191,239,224,146,119,143,177,30>>, <<191,239,253,116,42,219,120,238>>, <<191,239,250,41,104,120,164,6>>,
            <<191,239,214,181,127,255,237,39>>, <<191,239,147,60,25,113,221,54>>, <<191,239,48,1,17,90,98,128>>, <<191,238,173,104,52,144,155,15>>,
            <<191,238,11,244,219,215,67,4>>, <<191,237,76,73,103,195,7,208>>, <<191,236,111,38,157,107,73,81>>, <<191,235,117,106,228,137,202,230>>,
            <<191,234,96,17,103,204,33,116>>, <<191,233,48,49,24,56,25,67>>, <<191,231,230,251,148,160,156,144>>, <<191,230,133,187,246,69,233,48>>,
            <<191,229,13,213,131,213,218,253>>, <<191,227,128,194,76,27,18,212>>, <<191,225,224,17,169,194,176,123>>, <<191,224,45,102,177,183,5,237>>,
            <<191,220,212,237,27,69,39,47>>, <<191,217,50,13,136,136,104,99>>, <<191,213,117,214,226,155,209,142>>, <<191,209,164,10,221,50,131,146>>,
            <<191,203,129,1,194,44,206,253>>, <<191,195,158,68,94,51,53,98>>, <<191,183,79,151,196,92,101,69>>, <<191,157,44,211,207,75,170,106>>,
            <<63,161,129,7,146,165,180,182>>, <<63,184,195,111,38,126,57,222>>, <<63,196,86,185,88,179,11,121>>, <<63,204,55,70,130,22,213,184>>,
            <<63,209,253,185,119,147,84,106>>, <<63,213,205,183,133,6,179,145>>, <<63,217,135,199,209,58,177,198>>, <<63,221,40,42,209,254,146,168>>,
            <<63,224,85,157,104,19,185,13>>, <<63,226,6,183,201,82,13,135>>, <<63,227,165,176,245,243,38,67>>, <<63,229,48,231,147,8,63,154>>,
            <<63,230,166,206,37,59,46,231>>, <<63,232,5,236,160,145,153,62>>, <<63,233,76,225,226,161,199,234>>, <<63,234,122,101,21,187,179,108>>,
            <<63,235,141,70,251,162,13,236>>, <<63,236,132,115,30,134,1,1>>, <<63,237,94,240,231,19,66,152>>, <<63,238,27,228,150,116,150,7>>,
            <<63,238,186,144,35,85,174,130>>, <<63,239,58,83,249,3,164,45>>, <<63,239,154,175,151,236,44,41>>, <<63,239,219,66,22,217,246,149>>,
            <<63,239,251,202,132,108,80,13>>, <<63,239,252,40,40,103,237,144>>, <<63,239,220,90,164,159,60,8>>, <<63,239,156,129,245,81,22,247>>,
            <<63,239,60,222,80,253,138,163>>, <<63,238,189,207,231,208,244,254>>, <<63,238,31,214,130,230,147,136>>, <<63,237,99,145,3,195,136,204>>,
            <<63,236,137,188,196,139,252,247>>, <<63,235,147,52,217,146,169,29>>, <<63,234,128,241,53,2,165,244>>, <<63,233,84,5,173,128,223,209>>,
            <<63,232,13,160,232,192,71,125>>, <<63,230,175,11,43,31,49,240>>, <<63,229,57,165,13,128,196,88>>, <<63,227,174,230,26,173,231,50>>,
            <<63,226,16,91,85,162,190,43>>, <<63,224,95,165,170,68,60,194>>, <<63,221,60,240,148,31,94,66>>, <<63,217,157,45,236,211,95,138>>,
            <<63,213,227,168,116,138,18,1>>, <<63,210,20,31,41,212,101,200>>, <<63,204,100,206,94,221,165,210>>, <<63,196,132,207,226,250,218,12>>,
            <<63,185,32,92,225,137,170,149>>, <<63,162,59,169,105,38,200,36>>, <<191,155,183,122,201,156,212,161>>, <<191,182,242,154,12,44,244,145>>,
            <<191,195,112,32,137,231,236,182>>, <<191,203,83,103,93,78,22,53>>, <<191,209,141,153,81,45,15,37>>, <<191,213,95,215,143,134,161,199>>,
            <<191,217,28,150,142,9,94,230>>, <<191,220,192,20,15,225,8,184>>, <<191,224,35,83,159,105,56,125>>, <<191,225,214,98,44,185,21,255>>,
            <<191,227,119,128,34,13,255,31>>, <<191,229,5,9,252,138,27,123>>, <<191,230,125,111,234,47,42,39>>, <<191,231,223,55,91,252,8,186>>,
            <<191,233,40,252,130,167,201,66>>, <<191,234,89,115,180,124,16,63>>, <<191,235,111,106,186,229,250,5>>, <<191,236,105,202,6,110,154,146>>,
            <<191,237,71,149,199,229,93,142>>, <<191,238,7,238,237,161,12,14>>, <<191,238,170,20,3,217,106,96>>, <<191,239,45,97,247,55,37,142>>,
            <<191,239,145,84,184,214,209,69>>, <<191,239,213,135,195,25,215,152>>, <<191,239,249,182,126,191,200,242>>, <<191,239,253,188,135,226,106,87>>,
            <<191,239,225,149,210,143,19,61>>, <<191,239,165,94,174,216,145,84>>, <<191,239,73,83,172,93,123,137>>, <<191,238,205,209,93,95,150,222>>,
            <<191,238,51,83,249,169,137,80>>, <<191,237,122,118,225,160,157,16>>, <<191,236,163,244,1,255,239,63>>, <<191,235,176,163,24,218,144,222>>,
            <<191,234,161,120,220,160,124,97>>, <<191,233,119,134,6,0,113,38>>, <<191,232,51,246,61,158,189,78>>, <<191,230,216,14,238,180,13,69>>,
            <<191,229,101,45,255,196,44,119>>, <<191,227,220,200,114,181,84,154>>, <<191,226,64,104,237,170,40,211>>, <<191,224,145,174,46,23,193,99>>,
            <<191,221,164,146,207,77,115,77>>, <<191,218,7,249,33,6,19,104>>, <<191,214,81,49,57,161,50,207>>, <<191,210,131,247,86,23,253,42>>,
            <<191,205,72,60,140,181,185,41>>, <<191,197,107,23,41,198,78,244>>, <<191,186,240,206,109,189,119,58>>, <<191,165,224,172,70,201,34,253>>,
            <<63,148,108,138,63,137,202,254>>, <<63,181,33,120,159,231,222,50>>, <<63,194,137,71,21,86,24,176>>, <<63,202,111,45,86,246,217,56>>,
            <<63,209,29,62,201,207,66,190>>, <<63,212,241,176,131,149,112,98>>, <<63,216,177,17,198,108,28,72>>, <<63,220,87,157,175,92,15,116>>,
            <<63,223,225,168,85,69,76,76>>, <<63,225,165,209,61,22,179,95>>, <<63,227,73,14,143,220,79,20>>, <<63,228,216,230,125,153,184,164>>,
            <<63,230,83,198,226,218,103,79>>, <<63,231,184,50,178,129,85,62>>, <<63,233,4,195,117,5,225,87>>, <<63,234,56,42,176,250,84,240>>,
            <<63,235,81,51,59,112,157,173>>, <<63,236,78,194,110,235,148,154>>, <<63,237,47,217,71,163,189,115>>, <<63,237,243,149,100,1,226,227>>,
            <<63,238,153,49,232,77,42,141>>, <<63,239,32,8,68,168,57,179>>, <<63,239,135,144,220,149,183,237>>, <<63,239,207,99,143,92,23,40>>,
            <<63,239,247,56,32,191,78,195>>, <<63,239,254,230,129,167,57,207>>, <<63,239,230,102,248,105,143,179>>, <<63,239,173,210,40,142,229,5>>,
            <<63,239,85,96,250,10,242,166>>, <<63,238,221,108,96,0,255,19>>, <<63,238,70,108,255,78,5,67>>, <<63,237,144,250,181,50,164,216>>,
            <<63,236,189,203,254,150,159,93>>, <<63,235,205,181,64,127,220,247>>, <<63,234,193,167,242,117,70,151>>, <<63,233,154,177,171,164,128,249>>,
            <<63,232,89,251,19,190,121,71>>, <<63,231,0,198,184,156,6,32>>, <<63,229,144,111,201,213,217,141>>, <<63,228,10,104,187,150,232,144>>,
            <<63,226,112,57,210,7,223,26>>, <<63,224,195,127,150,202,140,6>>, <<63,222,11,210,116,36,74,151>>, <<63,218,114,109,193,242,230,66>>,
            <<63,214,190,111,197,150,60,201>>, <<63,210,243,145,238,3,136,173>>, <<63,206,43,73,87,79,52,89>>, <<63,198,81,23,52,183,128,55>>,
            <<63,188,192,230,96,77,180,215>>, <<63,169,133,102,97,129,102,126>>, <<191,138,66,171,144,102,116,21>>, <<191,179,80,16,236,160,252,252>>,
            <<191,193,162,47,250,193,174,42>>, <<191,201,138,155,102,28,76,96>>, <<191,208,172,171,87,37,74,108>>, <<191,212,131,67,207,140,110,134>>,
            <<191,216,69,58,223,249,229,131>>, <<191,219,238,201,11,220,96,151>>, <<191,223,124,63,99,101,73,226>>, <<191,225,117,5,155,240,214,222>>,
            <<191,227,26,92,217,212,207,55>>, <<191,228,172,125,169,3,88,121>>, <<191,230,41,211,153,202,250,99>>, <<191,231,144,223,37,230,23,129>>,
            <<191,232,224,55,50,52,175,176>>, <<191,234,22,138,121,233,248,169>>, <<191,235,50,160,225,192,253,237>>, <<191,236,51,92,177,226,86,126>>,
            <<191,237,23,187,181,63,223,100>>, <<191,237,222,216,61,69,36,93>>, <<191,238,135,234,8,215,138,50>>, <<191,239,18,71,13,189,147,6>>,
            <<191,239,125,100,35,162,254,52>>, <<191,239,200,213,144,13,152,150>>, <<191,239,244,79,114,181,252,17>>, <<191,239,255,166,17,215,87,24>>,
            <<191,239,234,206,6,41,113,33>>, <<191,239,181,220,70,88,182,135>>, <<191,239,97,6,17,240,186,105>>, <<191,238,236,160,187,206,115,163>>,
            <<191,238,89,33,84,79,248,49>>, <<191,237,167,28,51,152,26,154>>, <<191,236,215,68,100,92,99,90>>, <<191,235,234,106,239,211,36,244>>,
            <<191,234,225,126,11,119,50,248>>, <<191,233,189,136,41,116,87,183>>, <<191,232,127,174,236,173,183,152>>, <<191,231,41,50,1,107,85,178>>,
            <<191,229,187,105,219,216,51,216>>, <<191,228,55,198,93,147,247,46>>, <<191,226,159,205,99,180,171,128>>, <<191,224,245,25,62,172,225,190>>,
            <<191,222,114,174,43,64,128,133>>, <<191,218,220,138,109,139,253,254>>, <<191,215,43,98,173,21,34,78>>, <<191,211,98,237,126,105,246,29>>,
            <<191,207,13,241,203,136,227,5>>, <<191,199,54,205,6,221,98,175>>, <<191,190,144,158,177,187,10,223>>, <<191,173,41,203,155,55,145,40>>,
            <<63,119,87,214,150,123,228,32>>, <<63,177,126,104,254,52,81,216>>, <<63,192,186,222,58,188,146,95>>, <<63,200,165,180,130,238,96,63>>,
            <<63,208,59,224,111,151,207,4>>, <<63,212,20,146,226,172,164,251>>, <<63,215,217,19,65,90,168,114>>, <<63,219,133,151,130,8,67,247>>,
            <<63,223,22,109,186,120,15,158>>, <<63,225,67,255,235,144,146,30>>, <<63,226,235,107,155,67,157,127>>, <<63,228,127,208,18,121,206,159>>,
            <<63,229,255,150,154,133,249,235>>, <<63,231,105,61,56,245,102,67>>, <<63,232,187,88,51,193,138,203>>, <<63,233,244,147,127,32,123,137>>,
            <<63,235,19,180,19,132,60,108>>, <<63,236,23,153,42,113,112,160>>, <<63,236,255,61,96,238,1,20>>, <<63,237,201,183,190,100,55,240>>,
            <<63,238,118,60,158,241,159,246>>, <<63,239,4,30,128,54,41,198>>, <<63,239,114,206,175,213,132,112>>, <<63,239,193,221,218,251,24,238>>,
            <<63,239,240,252,126,80,127,241>>, <<63,239,255,251,53,245,166,221>>, <<63,239,238,202,237,42,83,68>>, <<63,239,189,124,237,121,15,54>>,
            <<63,239,108,66,205,84,52,171>>, <<63,238,251,110,62,54,157,47>>, <<63,238,107,112,186,122,36,103>>, <<63,237,188,219,19,54,133,90>>,
            <<63,236,240,92,222,155,119,131>>, <<63,236,6,195,199,88,150,146>>, <<63,235,0,250,189,196,88,26>>, <<63,233,224,9,11,146,150,27>>,
            <<63,232,165,17,75,7,245,187>>, <<63,231,81,80,66,180,149,94>>, <<63,229,230,27,166,220,47,238>>, <<63,228,100,224,193,203,122,151>>,
            <<63,226,207,35,4,117,88,217>>, <<63,225,38,122,128,200,109,230>>, <<63,222,217,36,158,139,80,155>>, <<63,219,70,77,194,232,53,55>>,
            <<63,215,152,8,133,197,59,239>>, <<63,211,210,8,148,239,226,144>>, <<63,207,240,50,247,143,7,15>>, <<63,200,28,53,164,61,7,210>>,
            <<63,192,47,248,173,226,22,100>>, <<63,176,102,231,235,118,182,84>>, <<63,87,87,222,89,238,69,159>>, <<191,175,89,13,194,168,120,196>>,
            <<191,191,166,169,173,53,177,231>>, <<191,199,192,123,166,182,237,58>>, <<191,207,149,191,20,144,48,128>>, <<191,211,165,159,45,25,242,119>>,
            <<191,215,108,156,82,66,215,76>>, <<191,219,28,10,111,186,220,182>>, <<191,222,176,52,173,31,232,207>>, <<191,225,18,192,207,0,8,128>>,
            <<191,226,188,59,112,72,17,219>>, <<191,228,82,222,78,148,174,75>>, <<191,229,213,16,113,133,157,202>>, <<191,231,65,77,111,126,226,159>>,
            <<191,232,150,38,244,77,15,123>>, <<191,233,210,70,49,147,233,124>>, <<191,234,244,109,55,148,85,203>>, <<191,235,251,120,52,239,86,197>>,
            <<191,236,230,94,156,36,61,117>>, <<191,237,180,52,45,162,216,46>>, <<191,238,100,41,229,102,43,157>>, <<191,238,245,142,203,40,171,187>>,
            <<191,239,103,208,164,96,121,231>>, <<191,239,186,124,135,80,232,255>>, <<191,239,237,63,78,156,252,120>>, <<191,239,255,229,236,230,254,166>>,
            <<191,239,242,93,160,40,220,204>>, <<191,239,196,180,4,145,188,219>>, <<191,239,119,23,6,213,213,94>>, <<191,239,9,212,181,254,53,127>>,
            <<191,238,125,90,244,231,13,202>>, <<191,237,210,55,11,187,88,228>>, <<191,237,9,21,25,221,31,35>>, <<191,236,34,191,104,201,35,88>>,
            <<191,235,32,29,160,164,47,22>>, <<191,234,2,51,223,62,125,1>>, <<191,232,202,33,178,119,189,17>>, <<191,231,121,32,247,10,169,232>>,
            <<191,230,16,132,156,227,18,193>>, <<191,228,145,183,82,60,21,59>>, <<191,226,254,58,22,220,172,231>>, <<191,225,87,162,184,226,123,17>>,
            <<191,223,63,52,121,62,94,77>>, <<191,219,175,182,98,71,118,140>>, <<191,216,4,95,230,78,87,48>>, <<191,212,64,225,192,16,45,64>>,
            <<191,208,105,4,245,114,192,129>>, <<191,201,1,78,17,221,35,209>>, <<191,193,23,108,44,188,178,58>>, <<191,178,56,179,124,115,235,106>>,
            <<191,129,129,217,45,97,123,10>>, <<63,171,180,225,70,231,186,108>>, <<63,189,215,45,160,212,131,93>>, <<63,198,218,243,203,209,72,95>>,
            <<63,206,179,84,62,21,98,156>>, <<63,211,54,106,31,214,128,35>>, <<63,214,255,215,123,110,158,167>>, <<63,218,178,35,51,255,200,217>>,
            <<63,222,73,149,143,86,170,172>>, <<63,224,225,72,234,8,128,85>>, <<63,226,140,204,245,210,208,141>>, <<63,228,37,168,242,206,55,85>>,
            <<63,229,170,65,172,55,131,97>>, <<63,231,25,16,78,85,39,42>>, <<63,232,112,163,239,137,71,62>>, <<63,233,175,163,3,89,112,156>>,
            <<63,234,212,204,181,246,195,26>>, <<63,235,222,250,46,233,59,247>>, <<63,236,205,31,185,153,99,49>>, <<63,237,158,77,210,142,75,149>>,
            <<63,238,81,178,24,80,239,220>>, <<63,238,230,152,31,2,207,197>>, <<63,239,92,106,37,210,237,211>>, <<63,239,178,177,173,154,158,101>>,
            <<63,239,233,23,240,10,226,152>>, <<63,239,255,102,54,242,41,65>>, <<63,239,245,134,19,66,232,89>>, <<63,239,203,129,115,163,161,148>>,
            <<63,239,129,130,154,113,168,21>>, <<63,239,23,211,243,64,163,109>>, <<63,238,142,223,200,1,165,250>>, <<63,237,231,47,214,29,12,240>>,
            <<63,237,33,108,195,234,175,227>>, <<63,236,62,93,119,19,193,230>>, <<63,235,62,230,76,136,222,81>>, <<63,234,36,8,50,213,145,26>>,
            <<63,232,238,223,167,184,53,180>>, <<63,231,160,163,154,2,61,115>>, <<63,230,58,164,48,224,109,1>>, <<63,228,190,73,121,197,236,42>>,
            <<63,227,45,17,254,77,128,232>>, <<63,225,136,145,67,126,7,143>>, <<63,223,164,220,103,232,217,22>>, <<63,220,24,194,237,23,121,221>>,
            <<63,216,112,103,102,93,44,123>>, <<63,212,175,119,143,33,31,227>>, <<63,208,217,185,219,56,141,120>>, <<63,201,230,19,85,206,125,141>>,
            <<63,193,254,166,211,168,170,223>>, <<63,180,10,66,115,106,195,216>>, <<63,144,12,62,42,210,21,30>>, <<191,168,16,88,165,103,232,11>>,
            <<191,188,7,78,85,206,115,58>>, <<191,197,245,31,237,158,195,134>>, <<191,205,208,131,76,198,129,196>>, <<191,210,198,245,44,189,155,19>>,
            <<191,214,146,198,38,157,113,111>>, <<191,218,71,227,47,14,116,208>>, <<191,221,226,145,182,105,171,0>>, <<191,224,175,152,225,47,241,31>>,
            <<191,226,93,32,201,163,172,179>>, <<191,227,248,48,149,129,125,135>>, <<191,229,127,42,216,250,180,59>>, <<191,230,240,134,91,76,25,146>>,
            <<191,232,74,207,162,56,73,208>>, <<191,233,140,170,103,163,215,202>>, <<191,234,180,210,247,219,44,226>>, <<191,235,194,31,119,33,211,174>>,
            <<191,236,179,129,13,67,235,105>>, <<191,237,136,4,245,252,95,62>>, <<191,238,62,213,117,29,202,88>>, <<191,238,215,58,173,136,205,10>>,
            <<191,239,80,155,90,23,76,192>>, <<191,239,170,125,103,194,198,56>>, <<191,239,228,134,112,106,202,185>>, <<191,239,254,124,21,191,229,59>>,
            <<191,239,248,68,59,247,177,229>>, <<191,239,209,229,36,15,6,114>>, <<191,239,139,133,101,127,193,153>>, <<191,239,37,107,199,112,166,1>>,
            <<191,238,159,254,249,134,38,99>>, <<191,237,251,197,44,155,230,2>>, <<191,237,57,99,139,206,173,136>>, <<191,236,89,157,150,94,148,98>>,
            <<191,235,93,84,91,16,154,108>>, <<191,234,69,133,149,213,6,117>>, <<191,233,19,74,176,150,182,72>>, <<191,231,199,215,168,51,190,246>>,
            <<191,230,100,121,214,187,228,42>>, <<191,228,234,150,164,44,187,236>>, <<191,227,91,170,30,252,176,204>>, <<191,225,185,69,125,221,209,44>>,
            <<191,224,5,13,140,57,193,96>>, <<191,220,129,114,5,247,223,27>>, <<191,216,220,29,158,168,57,253>>, <<191,213,29,200,146,88,251,216>>,
            <<191,209,74,54,182,65,2,34>>, <<191,202,202,130,119,54,208,24>>, <<191,194,229,165,161,158,63,238>>, <<191,181,219,142,195,252,104,155>>,
            <<191,151,87,90,95,156,65,26>>, <<63,164,107,127,251,156,120,184>>, <<63,186,55,17,210,230,109,178>>, <<63,197,15,3,8,125,189,194>>,
            <<63,204,237,79,50,253,182,160>>, <<63,210,87,65,198,127,4,87>>, <<63,214,37,105,190,140,252,75>>, <<63,217,221,75,194,69,194,95>>,
            <<63,221,123,42,120,245,109,191>>, <<63,224,125,177,89,183,15,125>>, <<63,226,45,55,138,71,207,251>>, <<63,227,202,117,205,232,97,225>>,
            <<63,229,83,204,135,29,221,217>>, <<63,230,199,176,29,55,12,111>>, <<63,232,36,170,138,42,117,84>>, <<63,233,105,92,210,194,9,13>>,
            <<63,234,148,128,103,154,0,102>>, <<63,235,164,232,109,144,38,131>>, <<63,236,153,130,236,88,237,58>>, <<63,237,113,89,226,10,125,67>>,
            <<63,238,43,148,58,135,251,29>>, <<63,238,199,118,169,212,154,235>>, <<63,239,68,100,104,114,229,0>>, <<63,239,161,223,209,18,136,117>>,
            <<63,239,223,138,222,238,67,97>>, <<63,239,253,39,140,90,224,7>>, <<63,239,250,152,17,39,245,240>>, <<63,239,215,223,0,147,223,215>>,
            <<63,239,149,31,70,180,182,4>>, <<63,239,50,156,5,88,233,27>>, <<63,238,176,184,80,130,200,42>>, <<63,238,15,246,202,194,244,160>>,
            <<63,237,80,249,33,213,208,135>>, <<63,236,116,127,108,8,56,1>>, <<63,235,123,103,103,6,234,35>>, <<63,234,102,171,152,219,41,32>>,
            <<63,233,55,98,83,244,100,116>>, <<63,231,238,188,159,60,235,129>>, <<63,230,142,5,3,82,220,139>>, <<63,229,22,158,62,25,184,240>>,
            <<63,227,138,1,221,243,71,230>>, <<63,225,233,190,198,6,154,175>>, <<63,224,55,119,157,18,124,70>>, <<63,220,233,194,80,191,115,92>>,
            <<63,217,71,129,40,243,248,130>>, <<63,213,139,211,90,210,223,164>>, <<63,209,186,122,16,110,152,248>>, <<63,203,174,152,126,90,47,139>>,
            <<63,195,204,101,150,92,251,93>>, <<63,183,172,146,98,167,109,171>>, <<63,158,162,40,243,95,25,43>>, <<191,160,198,99,104,4,143,222>>,
            <<191,184,102,126,32,22,37,61>>, <<191,196,40,160,25,191,86,203>>, <<191,204,9,186,228,95,48,112>>, <<191,209,231,81,96,154,139,133>>,
            <<191,213,183,195,174,244,140,183>>, <<191,217,114,94,80,39,25,248>>, <<191,221,19,97,46,224,220,212>>, <<191,224,75,146,249,151,53,124>>,
            <<191,225,253,17,215,23,86,77>>, <<191,227,156,121,52,25,205,225>>, <<191,229,40,39,70,221,135,26>>, <<191,230,158,142,27,231,15,58>>,
            <<191,231,254,53,38,60,224,105>>, <<191,233,69,186,186,29,128,60>>, <<191,234,115,213,112,179,22,189>>, <<191,235,135,85,115,94,51,33>>,
            <<191,236,127,37,173,74,237,74>>, <<191,237,90,76,226,28,191,203>>, <<191,238,23,238,168,153,76,86>>, <<191,238,183,76,72,85,87,89>>,
            <<191,239,55,197,121,133,112,30>>, <<191,239,152,217,6,49,80,45>>, <<191,239,218,37,76,39,160,221>>, <<191,239,251,104,159,47,171,40>>,
            <<191,239,252,129,139,22,15,170>>, <<191,239,221,110,245,82,31,96>>, <<191,239,158,80,30,34,4,192>>, <<191,239,63,100,129,28,150,161>>,
            <<191,238,193,11,149,88,134,60>>, <<191,238,35,196,109,104,237,122>>, <<191,237,104,45,55,144,24,208>>, <<191,236,143,2,158,168,197,219>>,
            <<191,235,153,31,12,102,24,7>>, <<191,234,135,121,205,168,235,39>>, <<191,233,91,38,25,199,179,249>>, <<191,232,21,81,253,194,144,28>>,
            <<191,230,183,69,44,122,140,212>>, <<191,229,66,95,181,29,79,130>>, <<191,227,184,24,161,16,112,222>>, <<191,226,25,252,122,193,43,178>>,
            <<191,224,105,171,190,211,51,40>>, <<191,221,81,178,114,128,10,80>>, <<191,217,178,144,160,24,66,190>>, <<191,213,249,150,122,147,108,241>>,
            <<191,210,42,130,116,98,221,110>>, <<191,204,146,82,116,165,38,91>>, <<191,196,178,227,178,117,77,124>>, <<191,185,125,71,68,220,171,255>>,
            <<191,162,246,72,210,178,210,1>>, <<63,154,66,30,19,253,95,94>>, <<63,182,149,153,70,120,133,193>>, <<63,195,65,250,31,157,252,11>>,
            <<63,203,37,201,85,206,246,157>>, <<63,209,119,37,111,90,131,106>>, <<63,213,73,213,100,128,192,205>>, <<63,217,7,28,60,81,251,46>>,
            <<63,220,171,55,49,89,8,199>>, <<63,224,25,62,103,128,17,138>>, <<63,225,204,176,80,51,138,117>>, <<63,227,110,59,97,7,104,21>>,
            <<63,228,252,59,169,98,0,195>>, <<63,230,117,32,224,41,59,173>>, <<63,231,215,111,246,87,169,198>>, <<63,233,33,196,148,56,210,236>>,
            <<63,234,82,210,127,204,65,223>>, <<63,235,105,102,234,231,219,115>>, <<63,236,100,105,167,200,204,64>>, <<63,237,66,222,66,220,227,171>>,
            <<63,238,3,229,0,169,72,42>>, <<63,238,166,187,190,206,146,29>>, <<63,239,42,190,183,72,117,211>>, <<63,239,143,105,37,36,110,226>>,
            <<63,239,212,85,202,9,196,208>>, <<63,239,249,63,84,12,173,231>>, <<63,239,254,0,163,102,20,157>>, <<63,239,226,148,239,201,235,224>>,
            <<63,239,167,23,205,54,128,166>>, <<63,239,75,197,16,55,246,141>>, <<63,238,208,248,145,187,205,102>>, <<63,238,55,45,210,177,14,73>>,
            <<63,237,126,255,127,209,200,214>>, <<63,236,169,38,214,19,44,78>>, <<63,235,182,122,232,88,77,232>>, <<63,234,167,239,199,35,64,204>>,
            <<63,233,126,149,139,30,19,155>>, <<63,232,59,151,67,114,34,227>>, <<63,230,224,57,201,1,161,61>>, <<63,229,109,218,119,177,89,48>>,
            <<63,227,229,237,207,11,105,198>>, <<63,226,73,253,251,156,118,32>>, <<63,224,155,169,74,131,213,28>>, <<63,221,185,65,17,139,114,189>>,
            <<63,218,29,74,160,4,72,69>>, <<63,214,103,16,132,141,107,248>>, <<63,210,154,78,109,131,192,168>>, <<63,205,117,173,100,182,19,118>>,
            <<63,197,153,28,247,82,196,148>>, <<63,187,77,167,97,18,153,205>>, <<63,166,155,62,27,41,223,176>>, <<191,146,247,30,3,76,205,206>>,
            <<191,180,196,105,80,54,160,78>>, <<191,194,91,20,25,50,182,202>>, <<191,202,65,125,125,103,144,120>>, <<191,209,6,191,103,207,86,226>>,
            <<191,212,219,160,76,206,6,228>>, <<191,216,155,134,235,127,123,135>>, <<191,220,66,173,218,204,144,81>>, <<191,223,205,104,149,171,46,214>>,
            <<191,225,156,19,150,132,156,246>>, <<191,227,63,188,238,123,226,238>>, <<191,228,208,10,64,189,202,183>>, <<191,230,75,104,243,196,193,125>>,
            <<191,231,176,91,123,108,100,41>>, <<191,232,253,122,216,174,28,131>>, <<191,234,49,120,2,175,236,8>>, <<191,235,75,29,55,185,104,231>>,
            <<191,236,73,79,52,188,152,53>>, <<191,237,43,14,82,57,85,203>>, <<191,237,239,119,133,92,79,62>>, <<191,238,149,197,68,87,163,43>>,
            <<191,239,29,80,77,14,212,234>>, <<191,239,133,144,77,78,181,27>>, <<191,239,206,28,107,231,228,210>>, <<191,239,246,171,178,34,17,140>>,
            <<191,239,255,21,85,29,232,124>>, <<191,239,231,80,222,219,229,75>>, <<191,239,175,118,54,190,191,114>>, <<191,239,87,189,137,128,231,149>>,
            <<191,238,224,127,16,181,62,91>>, <<191,238,74,50,186,11,238,76>>, <<191,237,149,111,174,180,108,154>>, <<191,236,194,235,187,86,58,50>>,
            <<191,235,211,122,153,57,18,162>>, <<191,234,200,13,25,84,152,206>>, <<191,233,161,176,50,29,100,226>>, <<191,232,97,139,241,3,141,134>>,
            <<191,231,8,226,80,177,248,232>>, <<191,229,153,13,245,58,184,159>>, <<191,228,19,128,207,117,148,244>>, <<191,226,121,194,168,239,152,7>>,
            <<191,224,205,111,153,225,227,113>>, <<191,222,32,108,213,119,186,240>>, <<191,218,135,173,197,195,163,98>>, <<191,214,212,64,12,167,1,198>>,
            <<191,211,9,220,135,255,184,148>>, <<191,206,88,166,90,103,188,117>>, <<191,198,127,14,103,69,132,56>>, <<191,189,29,172,174,217,222,32>>,
            <<191,170,63,232,52,55,226,129>>, <<63,135,87,189,190,149,247,129>>, <<63,178,242,244,72,114,213,154>>, <<63,193,115,241,6,107,179,57>>,
            <<63,201,92,218,82,111,112,107>>, <<63,208,150,32,191,202,207,42>>, <<63,212,109,37,214,100,146,71>>, <<63,216,47,159,195,125,120,19>>,
            <<63,219,217,198,134,231,75,34>>, <<63,223,103,234,151,91,139,120>>, <<63,225,107,60,75,183,160,137>>, <<63,227,16,254,119,24,202,186>>,
            <<63,228,163,147,159,235,95,252>>, <<63,230,33,102,225,121,96,121>>, <<63,231,136,248,55,116,73,146>>, <<63,232,216,222,0,45,132,103>>,
            <<63,234,15,198,104,75,184,124>>, <<63,235,44,120,190,142,93,124>>, <<63,236,45,214,174,74,130,200>>, <<63,237,18,221,95,100,38,55>>,
            <<63,237,218,166,122,162,197,205>>, <<63,238,132,105,17,90,229,198>>, <<63,239,15,122,103,132,37,43>>, <<63,239,123,78,159,112,12,151>>,
            <<63,239,199,121,70,117,71,246>>, <<63,239,243,173,194,1,170,235>>, <<63,239,255,191,156,165,78,27>>, <<63,239,235,162,178,201,91,31>>,
            <<63,239,183,107,62,229,114,13>>, <<63,239,99,77,197,39,126,71>>, <<63,238,239,158,222,162,88,234>>, <<63,238,92,210,228,56,100,239>>,
            <<63,237,171,125,121,151,201,210>>, <<63,236,220,80,248,189,185,79>>, <<63,235,240,29,190,150,114,16>>, <<63,234,231,209,89,110,32,79>>,
            <<63,233,196,117,154,5,146,135>>, <<63,232,135,47,136,58,191,104>>, <<63,231,49,62,60,82,140,143>>, <<63,229,195,249,158,11,106,91>>,
            <<63,228,64,209,10,188,103,96>>, <<63,226,169,73,227,220,2,109>>, <<63,224,254,254,7,98,127,100>>, <<63,222,135,52,103,35,198,142>>,
            <<63,218,241,184,175,130,201,97>>, <<63,215,65,35,167,190,1,215>>, <<63,211,121,43,80,211,91,210>>, <<63,207,59,58,98,218,225,155>>,
            <<63,199,100,181,5,140,245,45>>, <<63,190,237,81,38,240,99,4>>, <<63,173,228,58,255,248,149,124>>, <<191,113,129,227,168,121,3,195>>,
            <<191,177,33,64,59,54,186,254>>, <<191,192,140,147,232,1,231,102>>, <<191,200,119,226,205,79,116,71>>, <<191,208,37,74,237,218,220,43>>,
            <<191,211,254,103,112,179,31,126>>, <<191,215,195,104,43,42,12,236>>, <<191,219,112,130,146,141,154,185>>, <<191,223,2,4,37,157,37,129>>,
            <<191,225,58,43,18,60,132,161>>, <<191,226,226,0,150,84,150,54>>, <<191,228,118,216,90,203,125,251>>, <<191,229,247,27,52,253,80,212>>,
            <<191,231,97,70,173,110,149,79>>, <<191,232,179,238,132,123,142,185>>, <<191,233,237,190,32,174,247,48>>, <<191,235,13,121,229,80,45,131>>,
            <<191,236,18,0,111,207,132,237>>, <<191,236,250,75,186,210,27,89>>, <<191,237,197,114,37,184,44,25>>, <<191,238,114,167,95,149,3,118>>,
            <<191,239,1,61,52,172,41,218>>, <<191,239,112,164,61,165,7,51>>, <<191,239,192,108,111,197,3,159>>, <<191,239,240,69,141,158,218,202>>,
            <<191,239,255,255,119,197,243,18>>, <<191,239,239,138,93,52,127,54>>, <<191,239,190,246,203,51,196,177>>, <<191,239,110,117,156,182,123,190>>,
            <<191,238,254,87,201,54,25,139>>, <<191,238,111,14,19,68,86,112>>, <<191,237,193,40,151,34,234,149>>, <<191,236,245,86,57,211,160,160>>,
            <<191,236,12,99,249,50,54,94>>, <<191,235,7,60,29,201,95,48>>, <<191,233,230,229,79,49,238,178>>, <<191,232,172,129,139,233,91,224>>,
            <<191,231,89,77,5,169,31,64>>, <<191,229,238,156,227,100,74,202>>, <<191,228,109,221,234,43,115,112>>, <<191,226,216,147,14,79,124,154>>,
            <<191,225,48,83,238,52,199,29>>, <<191,222,237,150,112,187,139,131>>, <<191,219,91,105,252,147,119,237>>, <<191,215,173,185,235,172,210,205>>,
            <<191,211,232,57,85,205,184,246>>, <<191,208,14,179,70,63,153,161>>, <<191,200,74,13,214,97,117,107>>, <<191,192,94,71,97,171,111,227>>,
            <<191,176,196,21,48,213,198,170>>, <<191,103,87,220,204,119,140,78>>, <<63,174,158,166,106,183,128,203>>, <<63,191,73,255,126,224,40,207>>,
            <<63,199,146,153,231,137,98,163>>, <<63,207,104,126,210,137,201,176>>, <<63,211,143,102,140,10,106,174>>, <<63,215,86,225,138,110,191,48>>,
            <<63,219,6,227,91,215,254,205>>, <<63,222,155,182,147,87,6,155>>, <<63,225,8,224,141,67,209,4>>, <<63,226,178,195,232,120,181,0>>,
            <<63,228,73,217,6,35,38,130>>, <<63,229,204,134,122,251,160,41>>, <<63,231,57,71,97,94,246,157>>, <<63,232,142,172,224,111,150,31>>,
            <<63,233,203,95,157,9,66,83>>, <<63,234,238,33,19,20,211,127>>, <<63,235,245,204,213,224,91,249>>, <<63,236,225,89,182,57,123,40>>,
            <<63,237,175,218,205,34,64,218>>, <<63,238,96,128,106,20,59,136>>, <<63,238,242,152,227,226,52,232>>, <<63,239,101,145,75,102,113,136>>,
            <<63,239,184,245,255,73,175,57>>, <<63,239,236,115,32,78,113,253>>, <<63,239,255,212,229,171,119,142>>, <<63,239,243,7,209,32,153,34>>,
            <<63,239,198,24,194,145,178,214>>, <<63,239,121,52,235,19,210,114>>, <<63,239,12,169,159,121,185,131>>, <<63,238,128,228,10,141,112,173>>,
            <<63,237,214,112,191,69,7,208>>, <<63,237,13,251,43,97,31,11>>, <<63,236,40,76,235,3,60,84>>, <<63,235,38,76,253,233,98,238>>,
            <<63,234,8,254,223,26,241,113>>, <<63,232,209,129,127,240,80,55>>, <<63,231,129,14,39,123,236,120>>, <<63,230,24,247,55,118,252,183>>,
            <<63,228,154,166,215,238,75,110>>, <<63,227,7,157,139,6,69,66>>, <<63,225,97,112,170,67,168,120>>, <<63,223,83,145,157,188,243,69>>,
            <<63,219,196,192,77,113,161,62>>, <<63,216,26,1,111,78,231,96>>, <<63,212,87,5,37,149,83,152>>, <<63,208,127,147,243,143,72,104>>,
            <<63,201,47,21,222,253,104,118>>, <<63,193,69,175,191,178,17,41>>, <<63,178,149,213,30,237,64,198>>, <<63,132,108,204,209,201,129,168>>,
            <<191,170,250,102,136,244,29,239>>, <<191,189,122,111,29,206,85,152>>, <<191,198,173,2,155,173,10,233>>, <<191,206,133,255,84,2,43,122>>,
            <<191,211,32,36,153,152,72,73>>, <<191,214,234,13,74,59,252,102>>, <<191,218,156,234,66,14,93,128>>, <<191,222,53,3,52,199,150,79>>,
            <<191,224,215,93,96,188,161,203>>, <<191,226,131,73,10,159,97,42>>, <<191,228,28,150,55,153,201,174>>, <<191,229,161,169,65,18,76,91>>,
            <<191,231,16,250,216,75,152,83>>, <<191,232,105,25,143,242,61,136>>, <<191,233,168,171,79,168,252,138>>, <<191,234,206,110,176,29,138,6>>,
            <<191,235,217,60,62,72,55,124>>, <<191,236,200,7,164,145,35,140>>, <<191,237,153,224,184,176,14,29>>, <<191,238,77,244,109,55,138,234>>,
            <<191,238,227,141,165,216,145,134>>, <<191,239,90,21,237,136,218,7>>, <<191,239,177,22,13,213,24,254>>, <<191,239,232,54,134,198,133,200>>,
            <<191,239,255,63,230,227,112,240>>, <<191,239,246,27,2,242,46,238>>, <<191,239,204,209,13,70,96,225>>, <<191,239,131,139,140,129,27,196>>,
            <<191,239,26,148,49,205,66,243>>, <<191,238,146,84,142,194,21,44>>, <<191,237,235,85,171,54,115,76>>, <<191,237,38,63,123,111,182,251>>,
            <<191,236,67,216,55,54,156,90>>, <<191,235,69,3,146,124,60,219>>, <<191,234,42,193,216,87,124,194>>, <<191,232,246,46,233,65,102,175>>,
            <<191,231,168,129,29,147,142,243>>, <<191,230,67,8,13,103,169,193>>, <<191,228,199,43,63,18,128,56>>, <<191,227,54,104,189,141,10,10>>,
            <<191,225,146,83,152,56,90,189>>, <<191,223,185,36,154,251,159,48>>, <<191,220,45,186,67,199,194,251>>, <<191,216,133,248,202,133,200,198>>,
            <<191,212,197,141,79,172,179,253>>, <<191,208,240,61,193,242,250,91>>, <<191,202,19,202,37,168,184,209>>, <<191,194,44,222,171,236,74,59>>,
            <<191,180,103,87,61,65,72,23>>, <<191,145,129,175,65,42,152,153>>, <<63,167,85,204,237,164,209,56>>, <<63,187,170,124,178,139,139,191>>,
            <<63,197,199,31,229,79,214,139>>, <<63,205,163,26,81,106,67,44>>, <<63,210,176,163,11,99,22,70>>, <<63,214,124,236,212,132,76,80>>,
            <<63,218,50,152,165,163,158,105>>, <<63,221,205,235,95,127,120,68>>, <<63,224,165,162,49,82,113,214>>, <<63,226,83,144,154,177,174,112>>,
            <<63,227,239,16,133,183,47,49>>, <<63,229,118,132,21,208,132,31>>, <<63,230,232,97,152,59,140,77>>, <<63,232,67,53,15,251,196,222>>,
            <<63,233,133,161,171,249,227,6>>, <<63,234,174,99,37,213,104,116>>, <<63,235,188,79,8,7,144,123>>, <<63,236,174,85,218,15,91,91>>,
            <<63,237,131,132,49,121,0,92>>, <<63,238,59,3,166,174,1,131>>, <<63,238,212,27,172,151,214,37>>, <<63,239,78,50,74,60,28,214>>,
            <<63,239,168,204,181,151,241,99>>, <<63,239,227,143,207,30,72,142>>, <<63,239,254,64,125,93,103,210>>, <<63,239,248,195,232,111,45,4>>,
            <<63,239,211,31,148,248,102,209>>, <<63,239,141,121,94,156,23,183>>, <<63,239,40,23,81,232,43,215>>, <<63,238,163,95,101,226,0,196>>,
            <<63,237,255,215,21,121,139,241>>, <<63,237,62,34,217,74,68,248>>, <<63,236,95,5,130,48,230,210>>, <<63,235,99,95,117,92,72,115>>,
            <<63,234,76,45,202,158,123,93>>, <<63,233,26,137,77,225,8,33>>, <<63,231,207,165,100,188,119,56>>, <<63,230,108,206,217,78,249,168>>,
            <<63,228,243,106,139,137,120,59>>, <<63,227,100,244,10,66,252,191>>, <<63,225,194,252,21,124,78,85>>, <<63,224,15,39,11,83,3,56>>,
            <<63,220,150,86,130,115,158,147>>, <<63,216,241,158,150,61,136,215>>, <<63,213,51,208,100,119,139,198>>, <<63,209,96,175,58,183,124,31>>,
            <<63,202,248,39,177,193,68,104>>, <<63,195,19,209,37,121,124,209>>, <<63,182,56,149,127,157,63,115>>, <<63,152,204,189,224,25,218,201>>,
            <<191,163,176,229,182,118,7,20>>, <<191,185,218,46,68,26,83,174>>, <<191,196,224,244,193,1,68,109>>, <<191,204,191,210,189,94,246,217>>,
            <<191,210,64,227,84,68,145,247>>, <<191,214,15,129,148,55,217,5>>, <<191,217,199,239,232,48,249,85>>, <<191,221,102,112,106,93,126,34>>,
            <<191,224,115,175,164,107,45,181>>, <<191,226,35,155,55,101,105,119>>, <<191,227,193,72,135,225,154,81>>, <<191,229,75,23,136,180,169,153>>,
            <<191,230,191,124,40,53,25,40>>, <<191,232,28,255,222,146,115,182>>, <<191,233,98,67,38,131,127,127>>, <<191,234,141,254,222,208,21,235>>,
            <<191,235,159,5,147,82,229,178>>, <<191,236,148,68,172,40,196,72>>, <<191,237,108,197,129,219,234,59>>, <<191,238,39,174,85,117,212,35>>,
            <<191,238,196,67,43,126,65,164>>, <<191,239,65,230,137,10,219,91>>, <<191,239,160,26,18,33,120,145>>, <<191,239,222,127,8,205,220,175>>,
            <<191,239,252,214,172,106,209,107>>, <<191,239,251,2,120,191,5,99>>, <<191,239,217,4,68,174,29,59>>, <<191,239,150,254,64,95,25,91>>,
            <<191,239,53,50,210,217,251,104>>, <<191,238,180,4,87,63,31,235>>, <<191,238,19,244,185,219,159,47>>, <<191,237,85,164,245,126,22,51>>,
            <<191,236,121,212,113,143,69,237>>, <<191,235,129,96,65,145,135,133>>, <<191,234,109,66,70,200,71,239>>, <<191,233,62,144,52,231,174,39>>,
            <<191,231,246,122,122,200,230,92>>, <<191,230,150,75,16,59,215,171>>, <<191,229,31,100,42,42,128,122>>, <<191,227,147,62,214,91,191,117>>,
            <<191,225,243,105,128,59,60,118>>, <<191,224,65,134,96,36,187,171>>, <<191,220,254,147,173,138,79,201>>, <<191,217,92,241,108,113,137,218>>,
            <<191,213,161,204,245,63,63,191>>, <<191,209,208,230,231,229,36,161>>, <<191,203,220,43,139,197,185,79>>, <<191,195,250,132,44,65,245,61>>,
            <<191,184,9,137,218,175,120,222>>, <<191,160,11,189,2,21,71,26>>, <<63,160,11,189,2,21,201,68>>, <<63,184,9,137,218,175,58,67>>,
            <<63,195,250,132,44,65,245,202>>, <<63,203,220,43,139,197,185,218>>, <<63,209,208,230,231,229,36,230>>, <<63,213,161,204,245,63,94,32>>,
            <<63,217,92,241,108,113,152,204>>, <<63,220,254,147,173,138,80,9>>, <<63,224,65,134,96,36,180,230>>, <<63,225,243,105,128,59,60,147>>,
            <<63,227,147,62,214,91,197,229>>, <<63,229,31,100,42,42,134,151>>, <<63,230,150,75,16,59,215,197>>, <<63,231,246,122,122,200,230,116>>,
            <<63,233,62,144,52,231,174,61>>, <<63,234,109,66,70,200,67,128>>, <<63,235,129,96,65,145,139,174>>, <<63,236,121,212,113,143,73,163>>,
            <<63,237,85,164,245,126,19,15>>, <<63,238,19,244,185,219,159,59>>, <<63,238,180,4,87,63,31,245>>, <<63,239,53,50,210,217,251,112>>,
            <<63,239,150,254,64,95,27,239>>, <<63,239,217,4,68,174,29,63>>, <<63,239,251,2,120,191,5,100>>, <<63,239,252,214,172,106,209,163>>,
            <<63,239,222,127,8,205,220,171>>, <<63,239,160,26,18,33,119,83>>, <<63,239,65,230,137,10,217,157>>, <<63,238,196,67,43,126,65,154>>,
            <<63,238,39,174,85,117,212,23>>, <<63,237,108,197,129,219,234,45>>, <<63,236,148,68,172,40,199,209>>, <<63,235,159,5,147,82,225,149>>,
            <<63,234,141,254,222,208,17,97>>, <<63,233,98,67,38,131,132,72>>, <<63,232,28,255,222,146,115,158>>, <<63,230,191,124,40,53,25,15>>,
            <<63,229,75,23,136,180,157,141>>, <<63,227,193,72,135,225,141,159>>, <<63,226,35,155,55,101,105,89>>, <<63,224,115,175,164,107,45,151>>,
            <<63,221,102,112,106,93,140,25>>, <<63,217,199,239,232,48,249,19>>, <<63,214,15,129,148,55,201,189>>, <<63,210,64,227,84,68,130,92>>,
            <<63,204,191,210,189,94,246,77>>, <<63,196,224,244,193,1,67,224>>, <<63,185,218,46,68,26,82,146>>, <<63,163,176,229,182,118,4,217>>,
            <<191,152,204,189,224,26,223,44>>, <<191,182,56,149,127,157,128,82>>, <<191,195,19,209,37,121,93,185>>, <<191,202,248,39,177,193,68,244>>,
            <<191,209,96,175,58,183,124,100>>, <<191,213,51,208,100,119,155,34>>, <<191,216,241,158,150,61,166,145>>, <<191,220,150,86,130,115,158,211>>,
            <<191,224,15,39,11,83,3,87>>, <<191,225,194,252,21,124,71,203>>, <<191,227,100,244,10,66,252,220>>, <<191,228,243,106,139,137,126,98>>,
            <<191,230,108,206,217,78,255,118>>, <<191,231,207,165,100,188,119,80>>, <<191,233,26,137,77,225,8,55>>, <<191,234,76,45,202,158,123,113>>,
            <<191,235,99,95,117,92,72,134>>, <<191,236,95,5,130,48,234,150>>, <<191,237,62,34,217,74,69,7>>, <<191,237,255,215,21,121,137,53>>,
            <<191,238,163,95,101,226,0,207>>, <<191,239,40,23,81,232,43,223>>, <<191,239,141,121,94,156,25,19>>, <<191,239,211,31,148,248,104,129>>,
            <<191,239,248,195,232,111,45,6>>, <<191,239,254,64,125,93,103,209>>, <<191,239,227,143,207,30,73,54>>, <<191,239,168,204,181,151,241,94>>,
            <<191,239,78,50,74,60,27,38>>, <<191,238,212,27,172,151,211,247>>, <<191,238,59,3,166,174,1,120>>, <<191,237,131,132,49,121,0,78>>,
            <<191,236,174,85,218,15,91,75>>, <<191,235,188,79,8,7,136,110>>, <<191,234,174,99,37,213,99,245>>, <<191,233,133,161,171,249,226,241>>,
            <<191,232,67,53,15,251,201,254>>, <<191,230,232,97,152,59,140,53>>, <<191,229,118,132,21,208,132,5>>, <<191,227,239,16,133,183,40,211>>,
            <<191,226,83,144,154,177,161,53>>, <<191,224,165,162,49,82,113,183>>, <<191,221,205,235,95,127,120,5>>, <<191,218,50,152,165,163,158,40>>,
            <<191,214,124,236,212,132,91,7>>, <<191,210,176,163,11,99,6,180>>, <<191,205,163,26,81,106,35,127>>, <<191,197,199,31,229,79,213,254>>,
            <<191,187,170,124,178,139,138,163>>, <<191,167,85,204,237,164,206,253>>, <<63,145,129,175,65,44,156,252>>, <<63,180,103,87,61,65,137,0>>,
            <<63,194,44,222,171,236,74,201>>, <<63,202,19,202,37,168,154,9>>, <<63,208,240,61,193,242,250,159>>, <<63,212,197,141,79,172,180,64>>,
            <<63,216,133,248,202,133,215,208>>, <<63,220,45,186,67,199,223,246>>, <<63,223,185,36,154,251,159,110>>, <<63,225,146,83,152,56,90,219>>,
            <<63,227,54,104,189,141,10,38>>, <<63,228,199,43,63,18,122,62>>, <<63,230,67,8,13,103,175,154>>, <<63,231,168,129,29,147,137,168>>,
            <<63,232,246,46,233,65,102,197>>, <<63,234,42,193,216,87,124,215>>, <<63,235,69,3,146,124,60,238>>, <<63,236,67,216,55,54,163,235>>,
            <<63,237,38,63,123,111,186,86>>, <<63,237,235,85,171,54,115,89>>, <<63,238,146,84,142,194,18,218>>, <<63,239,26,148,49,205,66,251>>,
            <<63,239,131,139,140,129,27,202>>, <<63,239,204,209,13,70,97,201>>, <<63,239,246,27,2,242,47,185>>, <<63,239,255,63,230,227,112,240>>,
            <<63,239,232,54,134,198,133,198>>, <<63,239,177,22,13,213,24,249>>, <<63,239,90,21,237,136,216,102>>, <<63,238,227,141,165,216,143,102>>,
            <<63,238,77,244,109,55,141,112>>, <<63,237,153,224,184,176,14,15>>, <<63,236,200,7,164,145,35,125>>, <<63,235,217,60,62,72,55,106>>,
            <<63,234,206,110,176,29,129,53>>, <<63,233,168,171,79,168,247,173>>, <<63,232,105,25,143,242,61,113>>, <<63,231,16,250,216,75,152,58>>,
            <<63,229,161,169,65,18,82,38>>, <<63,228,28,150,55,153,201,146>>, <<63,226,131,73,10,159,90,134>>, <<63,224,215,93,96,188,148,18>>,
            <<63,222,53,3,52,199,150,16>>, <<63,218,156,234,66,14,93,63>>, <<63,214,234,13,74,59,252,35>>, <<63,211,32,36,153,152,56,192>>,
            <<63,206,133,255,84,2,11,219>>, <<63,198,173,2,155,173,41,219>>, <<63,189,122,111,29,206,84,124>>, <<63,170,250,102,136,244,27,181>>,
            <<191,132,108,204,209,201,138,148>>, <<191,178,149,213,30,237,193,140>>, <<191,193,69,175,191,178,49,108>>, <<191,201,47,21,222,253,105,2>>,
            <<191,208,127,147,243,143,72,173>>, <<191,212,87,5,37,149,68,176>>, <<191,216,26,1,111,78,231,162>>, <<191,219,196,192,77,113,175,233>>,
            <<191,223,83,145,157,188,243,131>>, <<191,225,97,112,170,67,168,150>>, <<191,227,7,157,139,6,69,95>>, <<191,228,154,166,215,238,75,138>>,
            <<191,230,24,247,55,119,2,154>>, <<191,231,129,14,39,123,241,254>>, <<191,232,209,129,127,240,75,64>>, <<191,234,8,254,223,26,241,134>>,
            <<191,235,38,76,253,233,99,1>>, <<191,236,40,76,235,3,60,101>>, <<191,237,13,251,43,97,37,207>>, <<191,237,214,112,191,69,10,193>>,
            <<191,238,128,228,10,141,112,184>>, <<191,239,12,169,159,121,185,140>>, <<191,239,121,52,235,19,209,6>>, <<191,239,198,24,194,145,179,205>>,
            <<191,239,243,7,209,32,153,152>>, <<191,239,255,212,229,171,119,141>>, <<191,239,236,115,32,78,113,251>>, <<191,239,184,245,255,73,175,52>>,
            <<191,239,101,145,75,102,113,129>>, <<191,238,242,152,227,226,50,214>>, <<191,238,96,128,106,20,56,249>>, <<191,237,175,218,205,34,64,205>>,
            <<191,236,225,89,182,57,126,138>>, <<191,235,245,204,213,224,91,232>>, <<191,234,238,33,19,20,211,107>>, <<191,233,203,95,157,9,56,198>>,
            <<191,232,142,172,224,111,144,231>>, <<191,231,57,71,97,94,246,133>>, <<191,229,204,134,122,251,160,15>>, <<191,228,73,217,6,35,44,150>>,
            <<191,226,178,195,232,120,174,101>>, <<191,225,8,224,141,67,202,32>>, <<191,222,155,182,147,87,6,92>>, <<191,219,6,227,91,215,254,140>>,
            <<191,215,86,225,138,110,190,238>>, <<191,211,143,102,140,10,106,106>>, <<191,207,104,126,210,137,170,32>>, <<191,199,146,153,231,137,66,163>>,
            <<191,191,73,255,126,224,39,179>>, <<191,174,158,166,106,183,254,86>>, <<63,103,87,220,204,119,176,1>>, <<63,176,196,21,48,213,199,199>>,
            <<63,192,94,71,97,171,175,234>>, <<63,200,74,13,214,97,117,247>>, <<63,208,14,179,70,63,153,230>>, <<63,211,232,57,85,205,185,58>>,
            <<63,215,173,185,235,172,196,50>>, <<63,219,91,105,252,147,134,165>>, <<63,222,237,150,112,187,153,195>>, <<63,225,48,83,238,52,199,59>>,
            <<63,226,216,147,14,79,124,183>>, <<63,228,109,221,234,43,115,139>>, <<63,229,238,156,227,100,74,228>>, <<63,231,89,77,5,169,36,209>>,
            <<63,232,172,129,139,233,97,15>>, <<63,233,230,229,79,49,238,199>>, <<63,235,7,60,29,201,90,250>>, <<63,236,12,99,249,50,54,111>>,
            <<63,236,245,86,57,211,164,23>>, <<63,237,193,40,151,34,240,133>>, <<63,238,111,14,19,68,86,123>>, <<63,238,254,87,201,54,25,148>>,
            <<63,239,110,117,156,182,123,197>>, <<63,239,190,246,203,51,195,180>>, <<63,239,239,138,93,52,127,186>>, <<63,239,255,255,119,197,243,19>>,
            <<63,239,240,69,141,158,219,71>>, <<63,239,192,108,111,197,3,154>>, <<63,239,112,164,61,165,7,45>>, <<63,239,1,61,52,172,41,209>>,
            <<63,238,114,167,95,149,0,245>>, <<63,237,197,114,37,184,41,29>>, <<63,236,250,75,186,210,27,74>>, <<63,236,18,0,111,207,136,179>>,
            <<63,235,13,121,229,80,45,112>>, <<63,233,237,190,32,174,242,107>>, <<63,232,179,238,132,123,132,119>>, <<63,231,97,70,173,110,149,54>>,
            <<63,229,247,27,52,253,80,186>>, <<63,228,118,216,90,203,125,223>>, <<63,226,226,0,150,84,156,143>>, <<63,225,58,43,18,60,125,197>>,
            <<63,223,2,4,37,157,23,68>>, <<63,219,112,130,146,141,168,237>>, <<63,215,195,104,43,42,12,170>>, <<63,211,254,103,112,179,31,59>>,
            <<63,208,37,74,237,218,219,230>>, <<63,200,119,226,205,79,84,82>>, <<63,192,140,147,232,1,230,216>>, <<63,177,33,64,59,54,185,225>>,
            <<63,113,129,227,168,124,241,231>>, <<191,173,228,58,255,248,151,182>>, <<191,190,237,81,38,240,163,167>>, <<191,199,100,181,5,141,52,165>>,
            <<191,207,59,58,98,218,226,38>>, <<191,211,121,43,80,211,92,22>>, <<191,215,65,35,167,190,2,26>>, <<191,218,241,184,175,130,187,31>>,
            <<191,222,135,52,103,35,212,221>>, <<191,224,254,254,7,98,134,74>>, <<191,226,169,73,227,219,252,11>>, <<191,228,64,209,10,188,103,124>>,
            <<191,229,195,249,158,11,106,117>>, <<191,231,49,62,60,82,151,174>>, <<191,232,135,47,136,58,201,198>>, <<191,233,196,117,154,5,146,156>>,
            <<191,234,231,209,89,110,32,98>>, <<191,235,240,29,190,150,110,59>>, <<191,236,220,80,248,189,185,94>>, <<191,237,171,125,121,151,204,223>>,
            <<191,238,92,210,228,56,103,129>>, <<191,238,239,158,222,162,88,243>>, <<191,239,99,77,197,39,126,78>>, <<191,239,183,107,62,229,114,18>>,
            <<191,239,235,162,178,201,90,145>>, <<191,239,255,191,156,165,78,43>>, <<191,239,243,173,194,1,170,121>>, <<191,239,199,121,70,117,72,226>>,
            <<191,239,123,78,159,112,12,145>>, <<191,239,15,122,103,132,37,34>>, <<191,238,132,105,17,90,224,235>>, <<191,237,218,166,122,162,191,254>>,
            <<191,237,18,221,95,100,38,40>>, <<191,236,45,214,174,74,130,183>>, <<191,235,44,120,190,142,97,162>>, <<191,234,15,198,104,75,184,103>>,
            <<191,232,216,222,0,45,127,70>>, <<191,231,136,248,55,116,68,14>>, <<191,230,33,102,225,121,96,95>>, <<191,228,163,147,159,235,95,224>>,
            <<191,227,16,254,119,24,202,158>>, <<191,225,107,60,75,183,167,33>>, <<191,223,103,234,151,91,125,73>>, <<191,219,217,198,134,231,74,225>>,
            <<191,216,47,159,195,125,134,161>>, <<191,212,109,37,214,100,146,4>>, <<191,208,150,32,191,202,206,230>>, <<191,201,92,218,82,111,49,36>>,
            <<191,193,115,241,6,107,115,68>>, <<191,178,242,244,72,114,212,125>>, <<191,135,87,189,190,149,238,148>>, <<63,170,63,232,52,55,100,230>>,
            <<63,189,29,172,174,217,223,60>>, <<63,198,127,14,103,69,164,69>>, <<63,206,88,166,90,103,220,22>>, <<63,211,9,220,135,255,184,216>>,
            <<63,214,212,64,12,167,2,9>>, <<63,218,135,173,197,195,163,163>>, <<63,222,32,108,213,119,215,106>>, <<63,224,205,111,153,225,234,94>>,
            <<63,226,121,194,168,239,152,36>>, <<63,228,19,128,207,117,142,213>>, <<63,229,153,13,245,58,184,186>>, <<63,231,8,226,80,177,249,0>>,
            <<63,232,97,139,241,3,146,204>>, <<63,233,161,176,50,29,110,140>>, <<63,234,200,13,25,84,152,225>>, <<63,235,211,122,153,57,18,179>>,
            <<63,236,194,235,187,86,54,192>>, <<63,237,149,111,174,180,108,167>>, <<63,238,74,50,186,11,240,236>>, <<63,238,224,127,16,181,64,126>>,
            <<63,239,87,189,137,128,231,156>>, <<63,239,175,118,54,190,191,119>>, <<63,239,231,80,222,219,229,78>>, <<63,239,255,21,85,29,232,186>>,
            <<63,239,246,171,178,34,17,41>>, <<63,239,206,28,107,231,228,206>>, <<63,239,133,144,77,78,182,118>>, <<63,239,29,80,77,14,212,226>>,
            <<63,238,149,197,68,87,163,32>>, <<63,237,239,119,133,92,76,93>>, <<63,237,43,14,82,57,79,39>>, <<63,236,73,79,52,188,152,36>>,
            <<63,235,75,29,55,185,104,212>>, <<63,234,49,120,2,175,240,139>>, <<63,232,253,122,216,174,33,108>>, <<63,231,176,91,123,108,94,176>>,
            <<63,230,75,104,243,196,199,33>>, <<63,228,208,10,64,189,202,156>>, <<63,227,63,188,238,123,226,210>>, <<63,225,156,19,150,132,156,216>>,
            <<63,223,205,104,149,171,18,211>>, <<63,220,66,173,218,204,129,181>>, <<63,216,155,134,235,127,123,69>>, <<63,212,219,160,76,206,21,193>>,
            <<63,209,6,191,103,207,86,157>>, <<63,202,65,125,125,103,143,236>>, <<63,194,91,20,25,50,150,146>>, <<63,180,196,105,80,54,31,157>>,
            <<63,146,247,30,3,76,201,88>>, <<191,166,155,62,27,41,225,235>>, <<191,187,77,167,97,18,154,233>>, <<191,197,153,28,247,82,228,171>>,
            <<191,205,117,173,100,182,51,37>>, <<191,210,154,78,109,131,177,157>>, <<191,214,103,16,132,141,108,59>>, <<191,218,29,74,160,4,72,134>>,
            <<191,221,185,65,17,139,114,253>>, <<191,224,155,169,74,131,226,231>>, <<191,226,73,253,251,156,124,206>>, <<191,227,229,237,207,11,105,226>>,
            <<191,229,109,218,119,177,83,89>>, <<191,230,224,57,201,1,161,86>>, <<191,232,59,151,67,114,34,251>>, <<191,233,126,149,139,30,24,134>>,
            <<191,234,167,239,199,35,73,186>>, <<191,235,182,122,232,88,77,250>>, <<191,236,169,38,214,19,44,94>>, <<191,237,126,255,127,209,200,228>>,
            <<191,238,55,45,210,177,16,248>>, <<191,238,208,248,145,187,207,152>>, <<191,239,75,197,16,55,244,233>>, <<191,239,167,23,205,54,128,171>>,
            <<191,239,226,148,239,201,235,227>>, <<191,239,254,0,163,102,20,158>>, <<191,239,249,63,84,12,173,64>>, <<191,239,212,85,202,9,195,249>>,
            <<191,239,143,105,37,36,110,220>>, <<191,239,42,190,183,72,119,155>>, <<191,238,166,187,190,206,148,95>>, <<191,238,3,229,0,169,72,29>>,
            <<191,237,66,222,66,220,224,95>>, <<191,236,100,105,167,200,196,207>>, <<191,235,105,102,234,231,219,96>>, <<191,234,82,210,127,204,65,203>>,
            <<191,233,33,196,148,56,210,214>>, <<191,231,215,111,246,87,164,89>>, <<191,230,117,32,224,41,53,224>>, <<191,228,252,59,169,98,6,178>>,
            <<191,227,110,59,97,7,103,248>>, <<191,225,204,176,80,51,138,87>>, <<191,224,25,62,103,128,17,107>>, <<191,220,171,55,49,88,235,235>>,
            <<191,217,7,28,60,81,236,50>>, <<191,213,73,213,100,128,192,137>>, <<191,209,119,37,111,90,131,37>>, <<191,203,37,201,85,207,21,87>>,
            <<191,195,65,250,31,157,219,219>>, <<191,182,149,153,70,120,68,228>>, <<191,154,66,30,19,253,90,232>>, <<63,162,246,72,210,178,212,60>>,
            <<63,185,125,71,68,220,173,28>>, <<63,196,178,227,178,117,78,9>>, <<63,204,146,82,116,165,70,24>>, <<63,210,42,130,116,98,237,10>>,
            <<63,213,249,150,122,147,94,45>>, <<63,217,178,144,160,24,67,0>>, <<63,221,81,178,114,128,10,143>>, <<63,224,105,171,190,211,51,71>>,
            <<63,226,25,252,122,193,57,1>>, <<63,227,184,24,161,16,119,71>>, <<63,229,66,95,181,29,79,156>>, <<63,230,183,69,44,122,140,237>>,
            <<63,232,21,81,253,194,138,239>>, <<63,233,91,38,25,199,184,240>>, <<63,234,135,121,205,168,239,180>>, <<63,235,153,31,12,102,24,26>>,
            <<63,236,143,2,158,168,197,235>>, <<63,237,104,45,55,144,24,222>>, <<63,238,35,196,109,104,237,134>>, <<63,238,193,11,149,88,136,123>>,
            <<63,239,63,100,129,28,152,98>>, <<63,239,158,80,30,34,3,138>>, <<63,239,221,110,245,82,30,167>>, <<63,239,252,129,139,22,15,171>>,
            <<63,239,251,104,159,47,171,39>>, <<63,239,218,37,76,39,159,81>>, <<63,239,152,217,6,49,78,227>>, <<63,239,55,197,121,133,112,22>>,
            <<63,238,183,76,72,85,87,79>>, <<63,238,23,238,168,153,79,2>>, <<63,237,90,76,226,28,188,141>>, <<63,236,127,37,173,74,233,150>>,
            <<63,235,135,85,115,94,51,15>>, <<63,234,115,213,112,179,22,169>>, <<63,233,69,186,186,29,128,38>>, <<63,231,254,53,38,60,224,81>>,
            <<63,230,158,142,27,231,9,120>>, <<63,229,40,39,70,221,128,255>>, <<63,227,156,121,52,25,205,196>>, <<63,225,253,17,215,23,92,205>>,
            <<63,224,75,146,249,151,53,94>>, <<63,221,19,97,46,224,206,83>>, <<63,217,114,94,80,38,252,90>>, <<63,213,183,195,174,244,140,116>>,
            <<63,209,231,81,96,154,139,65>>, <<63,204,9,186,228,95,47,229>>, <<63,196,40,160,25,191,117,215>>, <<63,184,102,126,32,21,228,108>>,
            <<63,160,198,99,104,4,13,181>>, <<191,158,162,40,243,95,29,161>>, <<191,183,172,146,98,167,110,200>>, <<191,195,204,101,150,92,251,234>>,
            <<191,203,174,152,126,90,48,22>>, <<191,209,186,122,16,110,168,156>>, <<191,213,139,211,90,210,238,248>>, <<191,217,71,129,40,243,248,195>>,
            <<191,220,233,194,80,191,101,85>>, <<191,224,55,119,157,18,124,101>>, <<191,225,233,190,198,6,161,109>>, <<191,227,138,1,221,243,84,174>>,
            <<191,229,22,158,62,25,185,11>>, <<191,230,142,5,3,82,220,164>>, <<191,231,238,188,159,60,235,152>>, <<191,233,55,98,83,244,95,157>>,
            <<191,234,102,171,152,219,45,186>>, <<191,235,123,103,103,6,238,79>>, <<191,236,116,127,108,8,52,104>>, <<191,237,80,249,33,213,208,150>>,
            <<191,238,15,246,202,194,244,172>>, <<191,238,176,184,80,130,200,52>>, <<191,239,50,156,5,88,234,235>>, <<191,239,149,31,70,180,183,84>>,
            <<191,239,215,223,0,147,223,219>>, <<191,239,250,152,17,39,245,167>>, <<191,239,253,39,140,90,224,6>>, <<191,239,223,138,222,238,66,167>>,
            <<191,239,161,223,209,18,134,4>>, <<191,239,68,100,104,114,228,248>>, <<191,238,199,118,169,212,154,225>>, <<191,238,43,148,58,135,251,17>>,
            <<191,237,113,89,226,10,128,87>>, <<191,236,153,130,236,88,233,148>>, <<191,235,164,232,109,144,34,105>>, <<191,234,148,128,103,154,4,199>>,
            <<191,233,105,92,210,194,8,247>>, <<191,232,36,170,138,42,117,61>>, <<191,230,199,176,29,55,1,26>>, <<191,229,83,204,135,29,215,200>>,
            <<191,227,202,117,205,232,97,197>>, <<191,226,45,55,138,71,207,222>>, <<191,224,125,177,89,183,22,58>>, <<191,221,123,42,120,245,109,128>>,
            <<191,217,221,75,194,69,179,123>>, <<191,214,37,105,190,140,222,2>>, <<191,210,87,65,198,127,4,19>>, <<191,204,237,79,50,253,182,21>>,
            <<191,197,15,3,8,125,189,53>>, <<191,186,55,17,210,230,172,64>>, <<191,164,107,127,251,155,246,151>>, <<63,151,87,90,95,157,69,127>>,
            <<63,181,219,142,195,252,41,243>>, <<63,194,229,165,161,158,64,123>>, <<63,202,202,130,119,54,208,164>>, <<63,209,74,54,182,65,33,54>>,
            <<63,213,29,200,146,89,26,81>>, <<63,216,220,29,158,168,58,62>>, <<63,220,129,114,5,247,223,91>>, <<63,224,5,13,140,57,186,146>>,
            <<63,225,185,69,125,221,209,74>>, <<63,227,91,170,30,252,183,71>>, <<63,228,234,150,164,44,194,21>>, <<63,230,100,121,214,187,228,67>>,
            <<63,231,199,215,168,51,191,14>>, <<63,233,19,74,176,150,182,94>>, <<63,234,69,133,149,213,1,248>>, <<63,235,93,84,91,16,158,164>>,
            <<63,236,89,157,150,94,152,41>>, <<63,237,57,99,139,206,170,84>>, <<63,237,251,197,44,155,230,14>>, <<63,238,159,254,249,134,38,110>>,
            <<63,239,37,107,199,112,169,181>>, <<63,239,139,133,101,127,196,79>>, <<63,239,209,229,36,15,6,118>>, <<63,239,248,68,59,247,177,231>>,
            <<63,239,254,124,21,191,229,97>>, <<63,239,228,134,112,106,202,182>>, <<63,239,170,125,103,194,197,12>>, <<63,239,80,155,90,23,75,19>>,
            <<63,238,215,58,173,136,205,1>>, <<63,238,62,213,117,29,202,76>>, <<63,237,136,4,245,252,95,48>>, <<63,236,179,129,13,67,231,208>>,
            <<63,235,194,31,119,33,207,162>>, <<63,234,180,210,247,219,44,206>>, <<63,233,140,170,103,163,220,134>>, <<63,232,74,207,162,56,73,185>>,
            <<63,230,240,134,91,76,25,121>>, <<63,229,127,42,216,250,168,70>>, <<63,227,248,48,149,129,112,235>>, <<63,226,93,32,201,163,172,149>>,
            <<63,224,175,152,225,47,241,0>>, <<63,221,226,145,182,105,184,231>>, <<63,218,71,227,47,14,116,143>>, <<63,214,146,198,38,157,98,51>>,
            <<63,210,198,245,44,189,139,131>>, <<63,205,208,131,76,198,129,57>>, <<63,197,245,31,237,158,194,250>>, <<63,188,7,78,85,206,114,30>>,
            <<63,168,16,88,165,102,230,25>>, <<191,144,12,62,42,211,25,140>>, <<191,180,10,66,115,106,196,244>>, <<191,193,254,166,211,168,139,189>>,
            <<191,201,230,19,85,206,126,25>>, <<191,208,217,185,219,56,141,188>>, <<191,212,175,119,143,33,47,75>>, <<191,216,112,103,102,93,74,80>>,
            <<191,220,24,194,237,23,122,29>>, <<191,223,164,220,103,232,217,84>>, <<191,225,136,145,67,126,0,252>>, <<191,227,45,17,254,77,129,4>>,
            <<191,228,190,73,121,197,242,92>>, <<191,230,58,164,48,224,114,220>>, <<191,231,160,163,154,2,61,139>>, <<191,232,238,223,167,184,53,202>>,
            <<191,234,36,8,50,213,145,47>>, <<191,235,62,230,76,136,230,200>>, <<191,236,62,93,119,19,197,185>>, <<191,237,33,108,195,234,175,241>>,
            <<191,237,231,47,214,29,10,36>>, <<191,238,142,223,200,1,166,4>>, <<191,239,23,211,243,64,163,117>>, <<191,239,129,130,154,113,169,129>>,
            <<191,239,203,129,115,163,163,103>>, <<191,239,245,134,19,66,232,91>>, <<191,239,255,102,54,242,41,65>>, <<191,239,233,23,240,10,227,46>>,
            <<191,239,178,177,173,154,157,71>>, <<191,239,92,106,37,210,236,53>>, <<191,238,230,152,31,2,209,208>>, <<191,238,81,178,24,80,239,208>>,
            <<191,237,158,77,210,142,75,135>>, <<191,236,205,31,185,153,99,34>>, <<191,235,222,250,46,233,52,9>>, <<191,234,212,204,181,246,190,171>>,
            <<191,233,175,163,3,89,112,134>>, <<191,232,112,163,239,137,76,81>>, <<191,231,25,16,78,85,39,17>>, <<191,229,170,65,172,55,131,71>>,
            <<191,228,37,168,242,206,49,3>>, <<191,226,140,204,245,210,195,102>>, <<191,224,225,72,234,8,128,54>>, <<191,222,73,149,143,86,170,109>>,
            <<191,218,178,35,51,255,200,152>>, <<191,214,255,215,123,110,143,118>>, <<191,211,54,106,31,214,112,156>>, <<191,206,179,84,62,21,129,34>>,
            <<191,198,218,243,203,209,71,210>>, <<191,189,215,45,160,212,130,65>>, <<191,171,180,225,70,231,184,50>>, <<63,129,129,217,45,101,131,238>>,
            <<63,178,56,179,124,116,44,93>>, <<63,193,23,108,44,188,178,199>>, <<63,201,1,78,17,221,4,251>>, <<63,208,105,4,245,114,192,198>>,
            <<63,212,64,225,192,16,45,131>>, <<63,216,4,95,230,78,102,71>>, <<63,219,175,182,98,71,147,167>>, <<63,223,63,52,121,62,94,140>>,
            <<63,225,87,162,184,226,123,47>>, <<63,226,254,58,22,220,173,4>>, <<63,228,145,183,82,60,27,119>>, <<63,230,16,132,156,227,24,167>>,
            <<63,231,121,32,247,10,164,144>>, <<63,232,202,33,178,119,189,40>>, <<63,234,2,51,223,62,125,22>>, <<63,235,32,29,160,164,47,41>>,
            <<63,236,34,191,104,201,43,8>>, <<63,237,9,21,25,221,34,143>>, <<63,237,210,55,11,187,88,241>>, <<63,238,125,90,244,231,11,103>>,
            <<63,239,9,212,181,254,53,136>>, <<63,239,119,23,6,213,214,217>>, <<63,239,196,180,4,145,189,214>>, <<63,239,242,93,160,40,220,206>>,
            <<63,239,255,229,236,230,254,166>>, <<63,239,237,63,78,156,252,118>>, <<63,239,186,124,135,80,232,250>>, <<63,239,103,208,164,96,120,87>>,
            <<63,238,245,142,203,40,169,172>>, <<63,238,100,41,229,102,46,19>>, <<63,237,180,52,45,162,216,33>>, <<63,236,230,94,156,36,61,102>>,
            <<63,235,251,120,52,239,86,179>>, <<63,234,244,109,55,148,77,24>>, <<63,233,210,70,49,147,228,173>>, <<63,232,150,38,244,77,15,100>>,
            <<63,231,65,77,111,126,226,135>>, <<63,229,213,16,113,133,163,137>>, <<63,228,82,222,78,148,168,2>>, <<63,226,188,59,112,72,11,66>>,
            <<63,225,18,192,207,0,8,98>>, <<63,222,176,52,173,31,232,144>>, <<63,219,28,10,111,186,220,117>>, <<63,215,108,156,82,66,215,9>>,
            <<63,211,165,159,45,25,226,249>>, <<63,207,149,191,20,144,16,243>>, <<63,199,192,123,166,183,12,31>>, <<63,191,166,169,173,53,176,204>>,
            <<63,175,89,13,194,168,118,138>>, <<191,87,87,222,89,238,141,5>>, <<191,176,102,231,235,119,55,46>>, <<191,192,47,248,173,226,54,176>>,
            <<191,200,28,53,164,61,8,95>>, <<191,207,240,50,247,143,7,153>>, <<191,211,210,8,148,239,211,158>>, <<191,215,152,8,133,197,75,17>>,
            <<191,219,70,77,194,232,67,241>>, <<191,222,217,36,158,139,80,218>>, <<191,225,38,122,128,200,110,4>>, <<191,226,207,35,4,117,88,246>>,
            <<191,228,100,224,193,203,122,179>>, <<191,229,230,27,166,220,53,221>>, <<191,231,81,80,66,180,154,241>>, <<191,232,165,17,75,7,240,184>>,
            <<191,233,224,9,11,146,150,48>>, <<191,235,0,250,189,196,88,45>>, <<191,236,6,195,199,88,154,128>>, <<191,236,240,92,222,155,126,103>>,
            <<191,237,188,219,19,54,133,103>>, <<191,238,107,112,186,122,36,114>>, <<191,238,251,110,62,54,157,56>>, <<191,239,108,66,205,84,51,47>>,
            <<191,239,189,124,237,121,16,63>>, <<191,239,238,202,237,42,83,203>>, <<191,239,255,251,53,245,166,222>>, <<191,239,240,252,126,80,127,239>>,
            <<191,239,193,221,218,251,24,233>>, <<191,239,114,206,175,213,132,105>>, <<191,239,4,30,128,54,39,197>>, <<191,238,118,60,158,241,157,120>>,
            <<191,237,201,183,190,100,55,227>>, <<191,236,255,61,96,238,4,103>>, <<191,236,23,153,42,113,112,143>>, <<191,235,19,180,19,132,56,21>>,
            <<191,233,244,147,127,32,114,25>>, <<191,232,187,88,51,193,138,180>>, <<191,231,105,61,56,245,102,43>>, <<191,229,255,150,154,133,249,209>>,
            <<191,228,127,208,18,121,212,168>>, <<191,226,235,107,155,67,150,238>>, <<191,225,67,255,235,144,139,67>>, <<191,223,22,109,186,120,15,95>>,
            <<191,219,133,151,130,8,67,182>>, <<191,215,217,19,65,90,168,48>>, <<191,212,20,146,226,172,164,183>>, <<191,208,59,224,111,151,191,69>>,
            <<191,200,165,180,130,238,64,76>>, <<191,192,186,222,58,188,145,209>>, <<191,177,126,104,254,52,144,149>>, <<191,119,87,214,150,123,210,70>>,
            <<63,173,41,203,155,56,19,45>>, <<63,190,144,158,177,187,139,16>>, <<63,199,54,205,6,221,99,60>>, <<63,207,13,241,203,136,227,144>>,
            <<63,211,98,237,126,105,246,98>>, <<63,215,43,98,173,21,19,166>>, <<63,218,220,138,109,140,12,196>>, <<63,222,114,174,43,64,142,214>>,
            <<63,224,245,25,62,172,225,220>>, <<63,226,159,205,99,180,171,157>>, <<63,228,55,198,93,147,247,74>>, <<63,229,187,105,219,216,63,177>>,
            <<63,231,41,50,1,107,91,80>>, <<63,232,127,174,236,173,183,175>>, <<63,233,189,136,41,116,87,204>>, <<63,234,225,126,11,119,46,180>>,
            <<63,235,234,106,239,211,37,5>>, <<63,236,215,68,100,92,102,225>>, <<63,237,167,28,51,152,32,171>>, <<63,238,89,33,84,79,248,60>>,
            <<63,238,236,160,187,206,115,172>>, <<63,239,97,6,17,240,186,112>>, <<63,239,181,220,70,88,181,121>>, <<63,239,234,206,6,41,113,182>>,
            <<63,239,255,166,17,215,87,44>>, <<63,239,244,79,114,181,252,125>>, <<63,239,200,213,144,13,152,146>>, <<63,239,125,100,35,162,254,46>>,
            <<63,239,18,71,13,189,143,42>>, <<63,238,135,234,8,215,135,194>>, <<63,237,222,216,61,69,36,80>>, <<63,237,23,187,181,63,223,85>>,
            <<63,236,51,92,177,226,90,53>>, <<63,235,50,160,225,192,253,218>>, <<63,234,22,138,121,233,243,242>>, <<63,232,224,55,50,52,165,137>>,
            <<63,231,144,223,37,230,23,105>>, <<63,230,41,211,153,202,250,73>>, <<63,228,172,125,169,3,88,93>>, <<63,227,26,92,217,212,213,134>>,
            <<63,225,117,5,155,240,208,12>>, <<63,223,124,63,99,101,59,182>>, <<63,219,238,201,11,220,110,188>>, <<63,216,69,58,223,249,229,65>>,
            <<63,212,131,67,207,140,110,67>>, <<63,208,172,171,87,37,43,66>>, <<63,201,138,155,102,28,44,121>>, <<63,193,162,47,250,193,173,157>>,
            <<63,179,80,16,236,160,251,223>>, <<63,138,66,171,144,104,107,30>>, <<191,169,133,102,97,129,104,184>>, <<191,188,192,230,96,77,245,139>>,
            <<191,198,81,23,52,183,191,201>>, <<191,206,43,73,87,79,52,228>>, <<191,210,243,145,238,3,136,241>>, <<191,214,190,111,197,150,61,12>>,
            <<191,218,114,109,193,242,245,21>>, <<191,222,11,210,116,36,88,247>>, <<191,224,195,127,150,202,140,36>>, <<191,226,112,57,210,7,216,174>>,
            <<191,228,10,104,187,150,232,172>>, <<191,229,144,111,201,213,217,168>>, <<191,231,0,198,184,156,17,88>>, <<191,232,89,251,19,190,131,192>>,
            <<191,233,154,177,171,164,129,15>>, <<191,234,193,167,242,117,70,170>>, <<191,235,205,181,64,127,217,19>>, <<191,236,189,203,254,150,159,109>>,
            <<191,237,144,250,181,50,167,245>>, <<191,238,70,108,255,78,7,230>>, <<191,238,221,108,96,0,255,28>>, <<191,239,85,96,250,10,242,173>>,
            <<191,239,173,210,40,142,229,10>>, <<191,239,230,102,248,105,144,87>>, <<191,239,254,230,129,167,57,241>>, <<191,239,247,56,32,191,78,193>>,
            <<191,239,207,99,143,92,24,3>>, <<191,239,135,144,220,149,183,231>>, <<191,239,32,8,68,168,57,171>>, <<191,238,153,49,232,77,37,211>>,
            <<191,237,243,149,100,1,221,52>>, <<191,237,47,217,71,163,189,100>>, <<191,236,78,194,110,235,148,137>>, <<191,235,81,51,59,112,161,197>>,
            <<191,234,56,42,176,250,84,219>>, <<191,233,4,195,117,5,220,68>>, <<191,231,184,50,178,129,79,200>>, <<191,230,83,198,226,218,103,54>>,
            <<191,228,216,230,125,153,184,136>>, <<191,227,73,14,143,220,78,248>>, <<191,225,165,209,61,22,172,149>>, <<191,223,225,168,85,69,62,46>>,
            <<191,220,87,157,175,92,15,52>>, <<191,216,177,17,198,108,42,201>>, <<191,212,241,176,131,149,112,30>>, <<191,209,29,62,201,207,66,121>>,
            <<191,202,111,45,86,246,154,14>>, <<191,194,137,71,21,85,216,207>>, <<191,181,33,120,159,231,221,21>>, <<191,148,108,138,63,137,198,136>>,
            <<63,165,224,172,70,200,165,85>>, <<63,186,240,206,109,189,183,251>>, <<63,197,107,23,41,198,111,13>>, <<63,205,72,60,140,181,154,142>>,
            <<63,210,131,247,86,23,253,110>>, <<63,214,81,49,57,161,51,18>>, <<63,218,7,249,33,6,19,169>>, <<63,221,164,146,207,77,143,233>>,
            <<63,224,145,174,46,23,200,90>>, <<63,226,64,104,237,170,40,240>>, <<63,227,220,200,114,181,78,112>>, <<63,229,101,45,255,196,44,145>>,
            <<63,230,216,14,238,180,13,94>>, <<63,232,51,246,61,158,194,161>>, <<63,233,119,134,6,0,122,236>>, <<63,234,161,120,220,160,124,117>>,
            <<63,235,176,163,24,218,144,240>>, <<63,236,163,244,1,255,235,190>>, <<63,237,122,118,225,160,160,58>>, <<63,238,51,83,249,169,140,1>>,
            <<63,238,205,209,93,95,148,189>>, <<63,239,73,83,172,93,123,145>>, <<63,239,165,94,174,216,145,89>>, <<63,239,225,149,210,143,19,64>>,
            <<63,239,253,188,135,226,106,184>>, <<63,239,249,182,126,191,200,160>>, <<63,239,213,135,195,25,215,149>>, <<63,239,145,84,184,214,210,142>>,
            <<63,239,45,97,247,55,37,134>>, <<63,238,170,20,3,217,106,86>>, <<63,238,7,238,237,161,9,63>>, <<63,237,71,149,199,229,87,11>>,
            <<63,236,105,202,6,110,154,130>>, <<63,235,111,106,186,229,249,242>>, <<63,234,89,115,180,124,20,181>>, <<63,233,40,252,130,167,196,59>>,
            <<63,231,223,55,91,252,3,78>>, <<63,230,125,111,234,47,47,191>>, <<63,229,5,9,252,138,27,96>>, <<63,227,119,128,34,13,255,3>>,
            <<63,225,214,98,44,185,21,225>>, <<63,224,35,83,159,105,42,141>>, <<63,220,192,20,15,224,250,45>>, <<63,217,28,150,142,9,94,165>>,
            <<63,213,95,215,143,134,176,152>>, <<63,209,141,153,81,45,14,224>>, <<63,203,83,103,93,77,246,102>>, <<63,195,112,32,137,231,204,136>>,
            <<63,182,242,154,12,44,243,117>>, <<63,155,183,122,201,156,208,43>>, <<191,162,59,169,105,38,202,95>>, <<191,185,32,92,225,137,171,177>>,
            <<191,196,132,207,226,250,250,47>>, <<191,204,100,206,94,221,197,145>>, <<191,210,20,31,41,212,86,179>>, <<191,213,227,168,116,138,18,69>>,
            <<191,217,157,45,236,211,95,203>>, <<191,221,60,240,148,31,94,130>>, <<191,224,95,165,170,68,74,160>>, <<191,226,16,91,85,162,196,227>>,
            <<191,227,174,230,26,173,231,78>>, <<191,229,57,165,13,128,190,118>>, <<191,230,175,11,43,31,50,9>>, <<191,232,13,160,232,192,76,219>>,
            <<191,233,84,5,173,128,228,202>>, <<191,234,128,241,53,2,166,8>>, <<191,235,147,52,217,146,169,47>>, <<191,236,137,188,196,139,253,7>>,
            <<191,237,99,145,3,195,136,218>>, <<191,238,31,214,130,230,150,71>>, <<191,238,189,207,231,208,247,65>>, <<191,239,60,222,80,253,136,239>>,
            <<191,239,156,129,245,81,22,253>>, <<191,239,220,90,164,159,60,11>>, <<191,239,252,40,40,103,237,145>>, <<191,239,251,202,132,108,79,136>>,
            <<191,239,219,66,22,217,245,208>>, <<191,239,154,175,151,236,44,35>>, <<191,239,58,83,249,3,165,228>>, <<191,238,186,144,35,85,174,120>>,
            <<191,238,27,228,150,116,147,69>>, <<191,237,94,240,231,19,63,93>>, <<191,236,132,115,30,134,0,241>>, <<191,235,141,70,251,162,13,218>>,
            <<191,234,122,101,21,187,179,88>>, <<191,233,76,225,226,161,199,212>>, <<191,232,5,236,160,145,147,222>>, <<191,230,166,206,37,59,41,39>>,
            <<191,229,48,231,147,8,69,126>>, <<191,227,165,176,245,243,38,39>>, <<191,226,6,183,201,82,13,106>>, <<191,224,85,157,104,19,178,14>>,
            <<191,221,40,42,209,254,117,236>>, <<191,217,135,199,209,58,177,133>>, <<191,213,205,183,133,6,179,78>>, <<191,209,253,185,119,147,84,37>>,
            <<191,204,55,70,130,22,244,100>>, <<191,196,86,185,88,178,235,84>>, <<191,184,195,111,38,125,249,14>>, <<191,161,129,7,146,165,178,123>>,
            <<63,157,44,211,207,75,174,224>>, <<63,183,79,151,196,92,102,98>>, <<63,195,158,68,94,51,53,239>>, <<63,203,129,1,194,44,238,201>>,
            <<63,209,164,10,221,50,147,56>>, <<63,213,117,214,226,155,194,191>>, <<63,217,50,13,136,136,104,165>>, <<63,220,212,237,27,69,39,111>>,
            <<63,224,45,102,177,183,12,242>>, <<63,225,224,17,169,194,189,222>>, <<63,227,128,194,76,27,18,240>>, <<63,229,13,213,131,213,219,24>>,
            <<63,230,133,187,246,69,233,73>>, <<63,231,230,251,148,160,151,86>>, <<63,233,48,49,24,56,30,72>>, <<63,234,96,17,103,204,38,16>>,
            <<63,235,117,106,228,137,202,249>>, <<63,236,111,38,157,107,73,97>>, <<63,237,76,73,103,195,7,222>>, <<63,238,11,244,219,215,67,16>>,
            <<63,238,173,104,52,144,157,96>>, <<63,239,48,1,17,90,100,82>>, <<63,239,147,60,25,113,219,239>>, <<63,239,214,181,127,255,236,93>>,
            <<63,239,250,41,104,120,164,7>>, <<63,239,253,116,42,219,120,186>>, <<63,239,224,146,119,143,175,180>>, <<63,239,163,161,90,184,211,183>>,
            <<63,239,70,222,30,255,224,74>>, <<63,238,202,166,15,238,138,160>>, <<63,238,47,118,28,26,161,105>>, <<63,237,117,234,87,127,221,213>>,
            <<63,236,158,189,94,134,168,231>>, <<63,235,170,199,154,85,87,253>>, <<63,234,154,254,103,41,46,82>>, <<63,233,112,115,29,145,123,215>>,
            <<63,232,44,81,255,133,107,45>>, <<63,230,207,225,10,104,253,223>>, <<63,229,92,126,175,48,106,24>>, <<63,227,211,160,113,236,94,140>>,
            <<63,226,54,209,114,33,16,199>>, <<63,224,135,176,221,98,26,237>>, <<63,221,143,224,155,133,218,6>>, <<63,217,242,164,43,127,9,13>>,
            <<63,214,59,78,246,168,150,50>>, <<63,210,109,157,200,24,177,116>>, <<63,205,26,199,207,116,42,207>>, <<63,197,61,14,130,202,55,166>>,
            <<63,186,147,241,228,229,188,206>>, <<63,165,38,23,137,83,149,196>>, <<191,149,225,243,196,51,243,160>>, <<191,181,126,133,31,244,237,74>>,
            <<191,194,183,119,154,48,202,135>>, <<191,202,156,217,172,66,127,182>>, <<191,209,51,187,228,244,123,243>>, <<191,213,7,189,241,19,120,215>>,
            <<191,216,198,153,88,110,29,222>>, <<191,220,108,137,190,173,82,21>>, <<191,223,245,227,215,24,103,55>>, <<191,225,175,140,138,162,237,98>>,
            <<191,227,82,93,160,112,239,97>>, <<191,228,225,191,244,120,130,213>>, <<191,230,92,33,217,139,161,233>>, <<191,231,192,6,193,199,74,159>>,
            <<191,233,12,8,189,80,151,102>>, <<191,234,62,217,226,82,150,55>>, <<191,235,87,69,156,210,158,108>>, <<191,236,84,49,229,9,240,190>>,
            <<191,237,52,160,91,11,196,6>>, <<191,237,247,175,70,154,245,30>>, <<191,238,156,154,122,46,9,84>>, <<191,239,34,188,24,60,216,247>>,
            <<191,239,137,141,58,17,242,169>>, <<191,239,208,166,119,119,116,83>>, <<191,239,247,192,78,183,56,175>>, <<191,239,254,179,108,133,159,140>>,
            <<191,239,229,120,211,142,161,167>>, <<191,239,172,41,227,125,107,126>>, <<191,239,83,0,63,119,106,67>>, <<191,238,218,85,148,36,113,96>>,
            <<191,238,66,163,61,126,81,77>>, <<191,237,140,129,204,194,131,231>>, <<191,236,184,168,111,0,216,58>>, <<191,235,199,236,52,225,24,97>>,
            <<191,234,187,63,60,89,100,10>>, <<191,233,147,175,189,44,108,139>>, <<191,232,82,102,249,36,182,188>>, <<191,230,248,168,17,29,224,57>>,
            <<191,229,135,206,192,9,52,69>>, <<191,228,1,77,253,51,129,199>>, <<191,226,102,174,135,44,224,172>>, <<191,224,185,141,88,200,255,5>>,
            <<191,221,247,52,19,138,228,12>>, <<191,218,93,42,57,111,190,223>>, <<191,214,168,156,119,240,148,116>>, <<191,210,221,68,206,154,244,214>>,
            <<191,205,253,232,80,192,230,137>>, <<191,198,35,29,10,32,207,88>>, <<191,188,100,28,62,129,182,106>>, <<191,168,202,225,41,161,2,255>>,
            <<63,141,45,149,227,224,231,43>>, <<63,179,173,42,255,20,93,186>>, <<63,193,208,108,150,141,162,196>>, <<63,201,184,89,19,237,220,249>>,
            <<63,208,195,51,182,159,9,232>>, <<63,212,153,95,14,27,156,19>>, <<63,216,90,210,193,228,76,134>>, <<63,220,3,199,217,133,118,227>>,
            <<63,223,144,143,255,37,153,162>>, <<63,225,126,204,153,161,242,236>>, <<63,227,35,184,177,251,78,15>>, <<63,228,181,100,242,6,151,208>>,
            <<63,230,50,61,95,76,217,139>>, <<63,231,152,194,241,196,82,168>>, <<63,232,231,141,21,11,127,89>>, <<63,234,29,75,19,15,64,122>>,
            <<63,235,56,197,102,175,145,183>>, <<63,236,56,222,245,14,162,36>>, <<63,237,28,150,44,78,120,249>>, <<63,237,227,6,6,157,88,249>>,
            <<63,238,139,102,240,140,12,122>>, <<63,239,21,15,145,198,172,63>>, <<63,239,127,117,119,101,171,240>>, <<63,239,202,45,159,44,78,47>>,
            <<63,239,244,236,227,40,12,26>>, <<63,239,255,136,69,68,248,163>>, <<63,239,233,245,26,138,255,150>>, <<63,239,180,73,21,216,142,54>>,
            <<63,239,94,186,50,15,206,130>>, <<63,238,233,158,123,204,115,79>>, <<63,238,85,107,186,216,179,138>>, <<63,237,162,182,251,184,100,75>>,
            <<63,236,210,51,249,193,113,244>>, <<63,235,228,180,106,88,138,245>>, <<63,234,219,39,42,7,111,64>>, <<63,233,182,151,76,65,132,118>>,
            <<63,232,120,43,14,199,230,223>>, <<63,231,33,34,177,187,97,132>>, <<63,229,178,215,53,133,145,17>>, <<63,228,46,184,255,221,202,189>>,
            <<63,226,150,78,105,69,201,216>>, <<63,224,235,50,52,115,200,222>>, <<63,222,94,35,226,104,93,121>>, <<63,218,199,88,152,197,4,67>>,
            <<63,215,21,158,157,88,224,192>>, <<63,211,76,173,23,195,194,148>>, <<63,206,224,165,18,154,36,81>>, <<63,199,8,225,241,149,122,3>>,
            <<63,190,51,232,43,149,152,151>>, <<63,172,111,88,85,66,89,53>>, <<191,125,45,198,105,129,45,192>>, <<191,177,219,143,109,106,84,194>>,
            <<191,192,233,38,83,178,208,43>>, <<191,200,211,130,241,37,133,83>>, <<191,208,82,115,200,117,93,165>>, <<191,212,42,187,168,199,50,87>>,
            <<191,215,238,187,43,92,162,26>>, <<191,219,154,168,200,53,106,117>>, <<191,223,42,211,44,149,96,223>>, <<191,225,77,210,120,226,7,96>>,
            <<191,226,244,212,27,219,204,56>>, <<191,228,136,197,16,5,8,178>>, <<191,230,8,15,18,221,97,74>>, <<191,231,113,48,167,46,90,48>>,
            <<191,232,194,190,152,190,244,77>>, <<191,233,251,101,105,157,184,95>>, <<191,235,25,234,167,145,114,212>>, <<191,236,29,46,40,89,91,89>>,
            <<191,237,4,43,43,126,248,144>>, <<191,237,205,249,96,149,151,133>>, <<191,238,121,205,208,224,32,114>>, <<191,239,6,251,171,114,7,76>>,
            <<191,239,116,244,242,254,47,74>>, <<191,239,195,75,12,164,222,93>>, <<191,239,241,175,47,49,23,203>>, <<191,239,255,242,178,85,159,102>>,
            <<191,239,238,7,61,153,208,70>>, <<191,239,187,254,214,199,41,29>>, <<191,239,106,11,207,201,14,133>>, <<191,238,248,128,148,16,229,166>>,
            <<191,238,103,207,85,177,138,60>>, <<191,237,184,137,154,133,119,216>>, <<191,236,235,95,169,211,13,100>>, <<191,236,1,31,219,2,65,231>>,
            <<191,234,250,181,198,22,38,92>>, <<191,233,217,41,86,186,136,226>>, <<191,232,157,157,194,212,151,186>>, <<191,231,73,80,101,161,8,200>>,
            <<191,229,221,151,128,134,154,114>>, <<191,228,91,224,226,221,187,217>>, <<191,226,197,176,122,7,156,30>>, <<191,225,28,158,203,70,239,168>>,
            <<191,222,196,174,177,196,118,78>>, <<191,219,49,45,232,90,241,1>>, <<191,215,130,83,252,86,34,136>>, <<191,211,187,213,49,13,58,144>>,
            <<191,207,194,251,34,232,190,151>>, <<191,199,238,90,60,251,156,254>>, <<191,192,1,167,210,206,209,60>>, <<191,176,9,184,119,127,89,122>>,
            <<61,78,230,84,77,169,128,140>>, <<63,176,9,184,119,127,85,21>>, <<63,192,1,167,210,206,207,13>>, <<63,199,238,90,60,251,154,212>>,
            <<63,207,194,251,34,232,188,117>>, <<63,211,187,213,49,13,72,189>>, <<63,215,130,83,252,86,48,100>>, <<63,219,49,45,232,90,240,2>>,
            <<63,222,196,174,177,196,117,87>>, <<63,225,28,158,203,70,239,49>>, <<63,226,197,176,122,7,155,172>>, <<63,228,91,224,226,221,193,152>>,
            <<63,229,221,151,128,134,159,227>>, <<63,231,73,80,101,161,8,103>>, <<63,232,157,157,194,212,151,96>>, <<63,233,217,41,86,186,136,143>>,
            <<63,234,250,181,198,22,42,94>>, <<63,236,1,31,219,2,73,97>>, <<63,236,235,95,169,211,13,40>>, <<63,237,184,137,154,133,119,164>>,
            <<63,238,103,207,85,177,138,16>>, <<63,238,248,128,148,16,229,130>>, <<63,239,106,11,207,201,15,240>>, <<63,239,187,254,214,199,42,18>>,
            <<63,239,238,7,61,153,208,61>>, <<63,239,255,242,178,85,159,102>>, <<63,239,241,175,47,49,23,211>>, <<63,239,195,75,12,164,222,110>>,
            <<63,239,116,244,242,254,45,236>>, <<63,239,6,251,171,114,5,121>>, <<63,238,121,205,208,224,32,157>>, <<63,237,205,249,96,149,151,184>>,
            <<63,237,4,43,43,126,248,203>>, <<63,236,29,46,40,89,87,202>>, <<63,235,25,234,167,145,106,157>>, <<63,233,251,101,105,157,184,177>>,
            <<63,232,194,190,152,190,244,166>>, <<63,231,113,48,167,46,90,144>>, <<63,230,8,15,18,221,103,126>>, <<63,228,136,197,16,5,2,252>>,
            <<63,226,244,212,27,219,198,56>>, <<63,225,77,210,120,226,7,214>>, <<63,223,42,211,44,149,97,213>>, <<63,219,154,168,200,53,107,115>>,
            <<63,215,238,187,43,92,163,31>>, <<63,212,42,187,168,199,36,51>>, <<63,208,82,115,200,117,94,181>>, <<63,200,211,130,241,37,135,124>>,
            <<63,192,233,38,83,178,210,90>>, <<63,177,219,143,109,106,89,38>>, <<63,125,45,198,105,125,116,49>>, <<191,172,111,88,85,67,80,6>>,
            <<191,190,51,232,43,149,148,56>>, <<191,199,8,225,241,149,119,217>>, <<191,206,224,165,18,154,34,46>>, <<191,211,76,173,23,195,178,70>>,
            <<191,215,21,158,157,88,238,165>>, <<191,218,199,88,152,197,17,203>>, <<191,222,94,35,226,104,92,130>>, <<191,224,235,50,52,115,200,103>>,
            <<191,226,150,78,105,69,201,102>>, <<191,228,46,184,255,221,214,187>>, <<191,229,178,215,53,133,156,108>>, <<191,231,33,34,177,187,97,34>>,
            <<191,232,120,43,14,199,230,132>>, <<191,233,182,151,76,65,132,34>>, <<191,234,219,39,42,7,110,243>>, <<191,235,228,180,106,88,142,156>>,
            <<191,236,210,51,249,193,120,171>>, <<191,237,162,182,251,184,100,21>>, <<191,238,85,107,186,216,179,94>>, <<191,238,233,158,123,204,115,42>>,
            <<191,239,94,186,50,15,204,210>>, <<191,239,180,73,21,216,143,57>>, <<191,239,233,245,26,139,0,34>>, <<191,239,255,136,69,68,248,161>>,
            <<191,239,244,236,227,40,12,33>>, <<191,239,202,45,159,44,78,64>>, <<191,239,127,117,119,101,169,54>>, <<191,239,21,15,145,198,168,146>>,
            <<191,238,139,102,240,140,12,164>>, <<191,237,227,6,6,157,89,44>>, <<191,237,28,150,44,78,124,134>>, <<191,236,56,222,245,14,162,103>>,
            <<191,235,56,197,102,175,141,204>>, <<191,234,29,75,19,15,55,141>>, <<191,232,231,141,21,11,127,178>>, <<191,231,152,194,241,196,83,7>>,
            <<191,230,50,61,95,76,217,240>>, <<191,228,181,100,242,6,158,84>>, <<191,227,35,184,177,251,72,23>>, <<191,225,126,204,153,161,243,97>>,
            <<191,223,144,143,255,37,154,151>>, <<191,220,3,199,217,133,119,225>>, <<191,216,90,210,193,228,77,139>>, <<191,212,153,95,14,27,126,210>>,
            <<191,208,195,51,182,158,236,21>>, <<191,201,184,89,19,237,223,32>>, <<191,193,208,108,150,141,164,241>>, <<191,179,173,42,255,20,161,237>>,
            <<191,141,45,149,227,225,10,96>>, <<63,168,202,225,41,161,122,14>>, <<63,188,100,28,62,130,49,64>>, <<63,198,35,29,10,32,205,45>>,
            <<63,205,253,232,80,192,228,101>>, <<63,210,221,68,206,154,243,201>>, <<63,214,168,156,119,240,177,90>>, <<63,218,93,42,57,111,204,114>>,
            <<63,221,247,52,19,138,227,19>>, <<63,224,185,141,88,200,254,141>>, <<63,226,102,174,135,44,224,57>>, <<63,228,1,77,253,51,129,89>>,
            <<63,229,135,206,192,9,63,179>>, <<63,230,248,168,17,29,234,251>>, <<63,232,82,102,249,36,182,96>>, <<63,233,147,175,189,44,108,55>>,
            <<63,234,187,63,60,89,95,87>>, <<63,235,199,236,52,225,24,27>>, <<63,236,184,168,111,0,219,131>>, <<63,237,140,129,204,194,137,213>>,
            <<63,238,66,163,61,126,81,32>>, <<63,238,218,85,148,36,113,59>>, <<63,239,83,0,63,119,106,38>>, <<63,239,172,41,227,125,109,179>>,
            <<63,239,229,120,211,142,162,64>>, <<63,239,254,179,108,133,159,138>>, <<63,239,247,192,78,183,57,17>>, <<63,239,208,166,119,119,116,98>>,
            <<63,239,137,141,58,17,242,193>>, <<63,239,34,188,24,60,213,102>>, <<63,238,156,154,122,46,4,211>>, <<63,237,247,175,70,154,245,79>>,
            <<63,237,52,160,91,11,196,63>>, <<63,236,84,49,229,9,244,184>>, <<63,235,87,69,156,210,158,181>>, <<63,234,62,217,226,82,145,244>>,
            <<63,233,12,8,189,80,151,189>>, <<63,231,192,6,193,199,74,253>>, <<63,230,92,33,217,139,162,78>>, <<63,228,225,191,244,120,131,64>>,
            <<63,227,82,93,160,112,227,17>>, <<63,225,175,140,138,162,231,45>>, <<63,223,245,227,215,24,104,43>>, <<63,220,108,137,190,173,97,103>>,
            <<63,216,198,153,88,110,30,226>>, <<63,213,7,189,241,19,121,225>>, <<63,209,51,187,228,244,94,47>>, <<63,202,156,217,172,66,67,67>>,
            <<63,194,183,119,154,48,204,180>>, <<63,181,126,133,31,244,241,172>>, <<63,149,225,243,196,52,5,58>>, <<191,165,38,23,137,84,12,221>>,
            <<191,186,147,241,228,229,248,21>>, <<191,197,61,14,130,202,53,122>>, <<191,205,26,199,207,116,40,170>>, <<191,210,109,157,200,24,176,103>>,
            <<191,214,59,78,246,168,149,42>>, <<191,217,242,164,43,127,37,76>>, <<191,221,143,224,155,133,231,61>>, <<191,224,135,176,221,98,26,117>>,
            <<191,226,54,209,114,33,9,191>>, <<191,227,211,160,113,236,94,29>>, <<191,229,92,126,175,48,105,175>>, <<191,230,207,225,10,105,8,181>>,
            <<191,232,44,81,255,133,117,76>>, <<191,233,112,115,29,145,123,129>>, <<191,234,154,254,103,41,46,4>>, <<191,235,170,199,154,85,87,182>>,
            <<191,236,158,189,94,134,172,60>>, <<191,237,117,234,87,127,224,190>>, <<191,238,47,118,28,26,158,147>>, <<191,238,202,166,15,238,138,121>>,
            <<191,239,70,222,30,255,224,44>>, <<191,239,163,161,90,184,211,161>>, <<191,239,224,146,119,143,177,14>>, <<191,239,253,116,42,219,120,234>>,
            <<191,239,250,41,104,120,164,12>>, <<191,239,214,181,127,255,237,56>>, <<191,239,147,60,25,113,220,6>>, <<191,239,48,1,17,90,100,114>>,
            <<191,238,173,104,52,144,152,251>>, <<191,238,11,244,219,215,67,65>>, <<191,237,76,73,103,195,8,23>>, <<191,236,111,38,157,107,73,162>>,
            <<191,235,117,106,228,137,203,65>>, <<191,234,96,17,103,204,33,216>>, <<191,233,48,49,24,56,25,176>>, <<191,231,230,251,148,160,157,6>>,
            <<191,230,133,187,246,69,233,173>>, <<191,229,13,213,131,213,219,130>>, <<191,227,128,194,76,27,19,96>>, <<191,225,224,17,169,194,177,13>>,
            <<191,224,45,102,177,183,6,133>>, <<191,220,212,237,27,69,40,106>>, <<191,217,50,13,136,136,105,167>>, <<191,213,117,214,226,155,195,200>>,
            <<191,209,164,10,221,50,132,230>>, <<191,203,129,1,194,44,178,110>>, <<191,195,158,68,94,51,56,28>>, <<191,183,79,151,196,92,106,196>>,
            <<191,157,44,211,207,75,192,121>>, <<63,161,129,7,146,165,169,175>>, <<63,184,195,111,38,126,52,96>>, <<63,196,86,185,88,179,8,192>>,
            <<63,204,55,70,130,22,211,8>>, <<63,209,253,185,119,147,83,23>>, <<63,213,205,183,133,6,178,69>>, <<63,217,135,199,209,58,176,131>>,
            <<63,221,40,42,209,254,145,110>>, <<63,224,85,157,104,19,184,117>>, <<63,226,6,183,201,82,12,245>>, <<63,227,165,176,245,243,37,184>>,
            <<63,229,48,231,147,8,69,20>>, <<63,230,166,206,37,59,46,106>>, <<63,232,5,236,160,145,152,202>>, <<63,233,76,225,226,161,199,126>>,
            <<63,234,122,101,21,187,179,9>>, <<63,235,141,70,251,162,13,146>>, <<63,236,132,115,30,134,0,177>>, <<63,237,94,240,231,19,66,82>>,
            <<63,238,27,228,150,116,149,203>>, <<63,238,186,144,35,85,174,80>>, <<63,239,58,83,249,3,165,197>>, <<63,239,154,175,151,236,44,13>>,
            <<63,239,219,66,22,217,245,194>>, <<63,239,251,202,132,108,80,7>>, <<63,239,252,40,40,103,237,150>>, <<63,239,220,90,164,159,60,25>>,
            <<63,239,156,129,245,81,23,19>>, <<63,239,60,222,80,253,137,13>>, <<63,238,189,207,231,208,245,47>>, <<63,238,31,214,130,230,147,195>>,
            <<63,237,99,145,3,195,137,18>>, <<63,236,137,188,196,139,253,70>>, <<63,235,147,52,217,146,169,119>>, <<63,234,128,241,53,2,166,87>>,
            <<63,233,84,5,173,128,224,61>>, <<63,232,13,160,232,192,71,241>>, <<63,230,175,11,43,31,50,108>>, <<63,229,57,165,13,128,190,223>>,
            <<63,227,174,230,26,173,231,189>>, <<63,226,16,91,85,162,184,34>>, <<63,224,95,165,170,68,61,89>>, <<63,221,60,240,148,31,95,124>>,
            <<63,217,157,45,236,211,96,206>>, <<63,213,227,168,116,138,19,77>>, <<63,210,20,31,41,212,87,193>>, <<63,204,100,206,94,221,168,131>>,
            <<63,196,132,207,226,250,220,197>>, <<63,185,32,92,225,137,176,19>>, <<63,162,59,169,105,38,211,43>>, <<191,155,183,122,201,156,190,146>>,
            <<191,182,242,154,12,44,239,19>>, <<191,195,112,32,137,231,233,252>>, <<191,203,83,103,93,78,19,131>>, <<191,209,141,153,81,45,13,210>>,
            <<191,213,95,215,143,134,175,143>>, <<191,217,28,150,142,9,93,162>>, <<191,220,192,20,15,225,7,125>>, <<191,224,35,83,159,105,55,228>>,
            <<191,225,214,98,44,185,21,108>>, <<191,227,119,128,34,13,254,147>>, <<191,229,5,9,252,138,26,245>>, <<191,230,125,111,234,47,47,91>>,
            <<191,231,223,55,91,252,8,68>>, <<191,233,40,252,130,167,200,213>>, <<191,234,89,115,180,124,20,101>>, <<191,235,111,106,186,229,249,170>>,
            <<191,236,105,202,6,110,154,65>>, <<191,237,71,149,199,229,86,210>>, <<191,238,7,238,237,161,11,209>>, <<191,238,170,20,3,217,106,45>>,
            <<191,239,45,97,247,55,37,103>>, <<191,239,145,84,184,214,210,119>>, <<191,239,213,135,195,25,215,134>>, <<191,239,249,182,126,191,200,235>>,
            <<191,239,253,188,135,226,106,91>>, <<191,239,225,149,210,143,19,76>>, <<191,239,165,94,174,216,145,110>>, <<191,239,73,83,172,93,123,175>>,
            <<191,238,205,209,93,95,148,227>>, <<191,238,51,83,249,169,137,138>>, <<191,237,122,118,225,160,157,84>>, <<191,236,163,244,1,255,235,252>>,
            <<191,235,176,163,24,218,145,55>>, <<191,234,161,120,220,160,124,195>>, <<191,233,119,134,6,0,123,66>>, <<191,232,51,246,61,158,189,193>>,
            <<191,230,216,14,238,180,13,192>>, <<191,229,101,45,255,196,44,250>>, <<191,227,220,200,114,181,78,222>>, <<191,226,64,104,237,170,41,100>>,
            <<191,224,145,174,46,23,193,250>>, <<191,221,164,146,207,77,116,134>>, <<191,218,7,249,33,6,20,170>>, <<191,214,81,49,57,161,52,26>>,
            <<191,210,131,247,86,23,254,124>>, <<191,205,72,60,140,181,187,217>>, <<191,197,107,23,41,198,81,172>>, <<191,186,240,206,109,189,124,183>>,
            <<191,165,224,172,70,200,174,33>>, <<63,148,108,138,63,137,180,238>>, <<63,181,33,120,159,231,216,178>>, <<63,194,137,71,21,86,21,245>>,
            <<63,202,111,45,86,246,214,133>>, <<63,209,29,62,201,207,65,106>>, <<63,212,241,176,131,149,111,20>>, <<63,216,177,17,198,108,41,197>>,
            <<63,220,87,157,175,92,14,55>>, <<63,223,225,168,85,69,75,26>>, <<63,225,165,209,61,22,185,120>>, <<63,227,73,14,143,220,78,135>>,
            <<63,228,216,230,125,153,184,30>>, <<63,230,83,198,226,218,102,209>>, <<63,231,184,50,178,129,74,10>>, <<63,233,4,195,117,5,224,233>>,
            <<63,234,56,42,176,250,84,139>>, <<63,235,81,51,59,112,161,124>>, <<63,236,78,194,110,235,148,72>>, <<63,237,47,217,71,163,189,43>>,
            <<63,237,243,149,100,1,226,164>>, <<63,238,153,49,232,77,42,89>>, <<63,239,32,8,68,168,57,138>>, <<63,239,135,144,220,149,183,207>>,
            <<63,239,207,99,143,92,23,244>>, <<63,239,247,56,32,191,78,187>>, <<63,239,254,230,129,167,57,210>>, <<63,239,230,102,248,105,143,31>>,
            <<63,239,173,210,40,142,229,30>>, <<63,239,85,96,250,10,242,201>>, <<63,238,221,108,96,0,255,65>>, <<63,238,70,108,255,78,10,171>>,
            <<63,237,144,250,181,50,165,27>>, <<63,236,189,203,254,150,159,171>>, <<63,235,205,181,64,127,217,89>>, <<63,234,193,167,242,117,70,247>>,
            <<63,233,154,177,171,164,129,99>>, <<63,232,89,251,19,190,121,186>>, <<63,231,0,198,184,156,6,155>>, <<63,229,144,111,201,213,218,16>>,
            <<63,228,10,104,187,150,233,26>>, <<63,226,112,57,210,7,223,170>>, <<63,224,195,127,150,202,140,156>>, <<63,222,11,210,116,36,75,207>>,
            <<63,218,114,109,193,242,216,242>>, <<63,214,190,111,197,150,62,19>>, <<63,210,243,145,238,3,137,254>>, <<63,206,43,73,87,79,55,7>>,
            <<63,198,81,23,52,183,130,238>>, <<63,188,192,230,96,77,186,82>>, <<63,169,133,102,97,129,113,131>>, <<191,138,66,171,144,104,71,233>>,
            <<191,179,80,16,236,160,247,124>>, <<191,193,162,47,250,193,171,111>>, <<191,201,138,155,102,28,105,7>>, <<191,208,172,171,87,37,73,24>>,
            <<191,212,131,67,207,140,109,56>>, <<191,216,69,58,223,249,228,60>>, <<191,219,238,201,11,220,95,89>>, <<191,223,124,63,99,101,58,193>>,
            <<191,225,117,5,155,240,214,74>>, <<191,227,26,92,217,212,213,21>>, <<191,228,172,125,169,3,87,242>>, <<191,230,41,211,153,202,249,228>>,
            <<191,231,144,223,37,230,23,10>>, <<191,232,224,55,50,52,175,65>>, <<191,234,22,138,121,233,248,67>>, <<191,235,50,160,225,192,253,144>>,
            <<191,236,51,92,177,226,89,243>>, <<191,237,23,187,181,63,223,26>>, <<191,237,222,216,61,69,36,29>>, <<191,238,135,234,8,215,140,98>>,
            <<191,239,18,71,13,189,146,219>>, <<191,239,125,100,35,162,254,21>>, <<191,239,200,213,144,13,152,130>>, <<191,239,244,79,114,181,252,8>>,
            <<191,239,255,166,17,215,87,45>>, <<191,239,234,206,6,41,113,45>>, <<191,239,181,220,70,88,181,140>>, <<191,239,97,6,17,240,186,140>>,
            <<191,238,236,160,187,206,115,209>>, <<191,238,89,33,84,79,248,105>>, <<191,237,167,28,51,152,26,220>>, <<191,236,215,68,100,92,99,167>>,
            <<191,235,234,106,239,211,37,74>>, <<191,234,225,126,11,119,51,88>>, <<191,233,189,136,41,116,88,32>>, <<191,232,127,174,236,173,184,10>>,
            <<191,231,41,50,1,107,80,167>>, <<191,229,187,105,219,216,52,90>>, <<191,228,55,198,93,147,247,183>>, <<191,226,159,205,99,180,172,16>>,
            <<191,224,245,25,62,172,226,84>>, <<191,222,114,174,43,64,129,187>>, <<191,218,220,138,109,139,255,62>>, <<191,215,43,98,173,21,20,172>>,
            <<191,211,98,237,126,105,247,110>>, <<191,207,13,241,203,136,229,178>>, <<191,199,54,205,6,221,101,102>>, <<191,190,144,158,177,187,16,89>>,
            <<191,173,41,203,155,55,156,44>>, <<63,119,87,214,150,123,139,220>>, <<63,177,126,104,254,52,76,87>>, <<63,192,186,222,58,188,143,163>>,
            <<63,200,165,180,130,238,62,35>>, <<63,208,59,224,111,151,221,41>>, <<63,212,20,146,226,172,163,172>>, <<63,215,217,19,65,90,167,42>>,
            <<63,219,133,151,130,8,66,184>>, <<63,223,22,109,186,120,14,105>>, <<63,225,67,255,235,144,145,137>>, <<63,226,235,107,155,67,156,240>>,
            <<63,228,127,208,18,121,212,60>>, <<63,229,255,150,154,133,249,107>>, <<63,231,105,61,56,245,101,203>>, <<63,232,187,88,51,193,138,91>>,
            <<63,233,244,147,127,32,123,34>>, <<63,235,19,180,19,132,60,14>>, <<63,236,23,153,42,113,112,75>>, <<63,236,255,61,96,238,0,201>>,
            <<63,237,201,183,190,100,55,175>>, <<63,238,118,60,158,241,157,77>>, <<63,239,4,30,128,54,43,147>>, <<63,239,114,206,175,213,132,79>>,
            <<63,239,193,221,218,251,24,216>>, <<63,239,240,252,126,80,127,230>>, <<63,239,255,251,53,245,166,222>>, <<63,239,238,202,237,42,83,79>>,
            <<63,239,189,124,237,121,15,76>>, <<63,239,108,66,205,84,52,205>>, <<63,238,251,110,62,54,157,91>>, <<63,238,107,112,186,122,36,158>>,
            <<63,237,188,219,19,54,133,155>>, <<63,236,240,92,222,155,119,207>>, <<63,236,6,195,199,88,150,231>>, <<63,235,0,250,189,196,88,121>>,
            <<63,233,224,9,11,146,150,131>>, <<63,232,165,17,75,7,241,18>>, <<63,231,81,80,66,180,149,215>>, <<63,229,230,27,166,220,42,153>>,
            <<63,228,100,224,193,203,123,31>>, <<63,226,207,35,4,117,89,104>>, <<63,225,38,122,128,200,110,123>>, <<63,222,217,36,158,139,81,208>>,
            <<63,219,70,77,194,232,54,118>>, <<63,215,152,8,133,197,61,55>>, <<63,211,210,8,148,239,227,224>>, <<63,207,240,50,247,143,9,187>>,
            <<63,200,28,53,164,61,10,136>>, <<63,192,47,248,173,226,56,223>>, <<63,176,102,231,235,118,187,214>>, <<63,87,87,222,89,239,166,177>>,
            <<191,175,89,13,194,168,109,193>>, <<191,191,166,169,173,53,172,110>>, <<191,199,192,123,166,183,9,246>>, <<191,207,149,191,20,144,45,212>>,
            <<191,211,165,159,45,26,0,98>>, <<191,215,108,156,82,66,214,3>>, <<191,219,28,10,111,186,219,118>>, <<191,222,176,52,173,31,231,153>>,
            <<191,225,18,192,207,0,7,234>>, <<191,226,188,59,112,72,17,76>>, <<191,228,82,222,78,148,173,195>>, <<191,229,213,16,113,133,157,73>>,
            <<191,231,65,77,111,126,226,38>>, <<191,232,150,38,244,77,15,10>>, <<191,233,210,70,49,147,228,90>>, <<191,234,244,109,55,148,85,107>>,
            <<191,235,251,120,52,239,86,111>>, <<191,236,230,94,156,36,61,41>>, <<191,237,180,52,45,162,215,237>>, <<191,238,100,41,229,102,45,231>>,
            <<191,238,245,142,203,40,171,142>>, <<191,239,103,208,164,96,121,197>>, <<191,239,186,124,135,80,232,232>>, <<191,239,237,63,78,156,252,108>>,
            <<191,239,255,229,236,230,254,165>>, <<191,239,242,93,160,40,220,214>>, <<191,239,196,180,4,145,188,241>>, <<191,239,119,23,6,213,213,126>>,
            <<191,239,9,212,181,254,53,170>>, <<191,238,125,90,244,231,11,146>>, <<191,237,210,55,11,187,89,36>>, <<191,237,9,21,25,221,28,16>>,
            <<191,236,34,191,104,201,35,172>>, <<191,235,32,29,160,164,47,116>>, <<191,234,2,51,223,62,125,104>>, <<191,232,202,33,178,119,189,129>>,
            <<191,231,121,32,247,10,164,240>>, <<191,230,16,132,156,227,19,65>>, <<191,228,145,183,82,60,21,194>>, <<191,226,254,58,22,220,173,117>>,
            <<191,225,87,162,184,226,123,165>>, <<191,223,63,52,121,62,95,129>>, <<191,219,175,182,98,71,148,165>>, <<191,216,4,95,230,78,88,119>>,
            <<191,212,64,225,192,16,46,143>>, <<191,208,105,4,245,114,193,214>>, <<191,201,1,78,17,221,7,36>>, <<191,193,23,108,44,188,180,245>>,
            <<191,178,56,179,124,115,177,20>>, <<191,129,129,217,45,97,167,44>>, <<63,171,180,225,70,231,175,104>>, <<63,189,215,45,160,212,125,226>>,
            <<63,198,218,243,203,209,69,168>>, <<63,206,179,84,62,21,127,0>>, <<63,211,54,106,31,214,126,210>>, <<63,214,255,215,123,110,157,94>>,
            <<63,218,178,35,51,255,199,152>>, <<63,222,73,149,143,86,169,117>>, <<63,224,225,72,234,8,127,191>>, <<63,226,140,204,245,210,194,243>>,
            <<63,228,37,168,242,206,54,204>>, <<63,229,170,65,172,55,130,223>>, <<63,231,25,16,78,85,38,175>>, <<63,232,112,163,239,137,75,246>>,
            <<63,233,175,163,3,89,112,50>>, <<63,234,212,204,181,246,194,186>>, <<63,235,222,250,46,233,59,161>>, <<63,236,205,31,185,153,98,228>>,
            <<63,237,158,77,210,142,75,82>>, <<63,238,81,178,24,80,239,163>>, <<63,238,230,152,31,2,209,171>>, <<63,239,92,106,37,210,237,176>>,
            <<63,239,178,177,173,154,158,77>>, <<63,239,233,23,240,10,227,36>>, <<63,239,255,102,54,242,41,63>>, <<63,239,245,134,19,66,232,98>>,
            <<63,239,203,129,115,163,161,168>>, <<63,239,129,130,154,113,168,51>>, <<63,239,23,211,243,64,163,151>>, <<63,238,142,223,200,1,166,46>>,
            <<63,237,231,47,214,29,10,86>>, <<63,237,33,108,195,234,176,44>>, <<63,236,62,93,119,19,194,57>>, <<63,235,62,230,76,136,222,173>>,
            <<63,234,36,8,50,213,145,128>>, <<63,232,238,223,167,184,54,35>>, <<63,231,160,163,154,2,61,234>>, <<63,230,58,164,48,224,121,2>>,
            <<63,228,190,73,121,197,236,176>>, <<63,227,45,17,254,77,129,117>>, <<63,225,136,145,67,126,1,114>>, <<63,223,164,220,103,232,218,73>>,
            <<63,220,24,194,237,23,123,26>>, <<63,216,112,103,102,93,45,194>>, <<63,212,175,119,143,33,33,50>>, <<63,208,217,185,219,56,142,204>>,
            <<63,201,230,19,85,206,128,64>>, <<63,193,254,166,211,168,141,235>>, <<63,180,10,66,115,106,201,88>>, <<63,144,12,62,42,210,43,47>>,
            <<191,168,16,88,165,103,221,6>>, <<191,188,7,78,85,206,109,190>>, <<191,197,245,31,237,158,192,207>>, <<191,205,208,131,76,198,127,21>>,
            <<191,210,198,245,44,189,123,42>>, <<191,214,146,198,38,157,112,36>>, <<191,218,71,227,47,14,115,142>>, <<191,221,226,145,182,105,183,238>>,
            <<191,224,175,152,225,47,240,136>>, <<191,226,93,32,201,163,172,34>>, <<191,227,248,48,149,129,124,253>>, <<191,229,127,42,216,250,179,184>>,
            <<191,230,240,134,91,76,25,23>>, <<191,232,74,207,162,56,73,93>>, <<191,233,140,170,103,163,220,49>>, <<191,234,180,210,247,219,44,129>>,
            <<191,235,194,31,119,33,211,87>>, <<191,236,179,129,13,67,238,165>>, <<191,237,136,4,245,252,94,250>>, <<191,238,62,213,117,29,202,30>>,
            <<191,238,215,58,173,136,204,219>>, <<191,239,80,155,90,23,76,155>>, <<191,239,170,125,103,194,198,31>>, <<191,239,228,134,112,106,202,171>>,
            <<191,239,254,124,21,191,229,95>>, <<191,239,248,68,59,247,177,237>>, <<191,239,209,229,36,15,6,133>>, <<191,239,139,133,101,127,193,182>>,
            <<191,239,37,107,199,112,166,42>>, <<191,238,159,254,249,134,38,150>>, <<191,237,251,197,44,155,230,63>>, <<191,237,57,99,139,206,173,208>>,
            <<191,236,89,157,150,94,152,106>>, <<191,235,93,84,91,16,154,199>>, <<191,234,69,133,149,213,2,72>>, <<191,233,19,74,176,150,182,181>>,
            <<191,231,199,215,168,51,191,108>>, <<191,230,100,121,214,187,228,168>>, <<191,228,234,150,164,44,188,114>>, <<191,227,91,170,30,252,177,89>>,
            <<191,225,185,69,125,221,209,191>>, <<191,224,5,13,140,57,187,12>>, <<191,220,129,114,5,247,224,87>>, <<191,216,220,29,158,168,59,66>>,
            <<191,213,29,200,146,88,253,37>>, <<191,209,74,54,182,65,3,118>>, <<191,202,202,130,119,54,210,203>>, <<191,194,229,165,161,158,66,168>>,
            <<191,181,219,142,195,252,110,26>>, <<191,151,87,90,95,157,87,25>>, <<63,164,107,127,251,156,109,177>>, <<63,186,55,17,210,230,167,223>>,
            <<63,197,15,3,8,125,187,10>>, <<63,204,237,79,50,253,179,240>>, <<63,210,87,65,198,127,3,5>>, <<63,214,37,105,190,140,250,255>>,
            <<63,217,221,75,194,69,193,28>>, <<63,221,123,42,120,245,108,134>>, <<63,224,125,177,89,183,21,193>>, <<63,226,45,55,138,71,207,106>>,
            <<63,227,202,117,205,232,97,87>>, <<63,229,83,204,135,29,227,76>>, <<63,230,199,176,29,55,11,243>>, <<63,232,36,170,138,42,116,224>>,
            <<63,233,105,92,210,194,8,161>>, <<63,234,148,128,103,154,0,4>>, <<63,235,164,232,109,144,38,42>>, <<63,236,153,130,236,88,236,235>>,
            <<63,237,113,89,226,10,128,32>>, <<63,238,43,148,58,135,250,226>>, <<63,238,199,118,169,212,154,186>>, <<63,239,68,100,104,114,228,219>>,
            <<63,239,161,223,209,18,136,90>>, <<63,239,223,138,222,238,67,81>>, <<63,239,253,39,140,90,224,2>>, <<63,239,250,152,17,39,245,246>>,
            <<63,239,215,223,0,147,223,233>>, <<63,239,149,31,70,180,183,106>>, <<63,239,50,156,5,88,231,123>>, <<63,238,176,184,80,130,200,92>>,
            <<63,238,15,246,202,194,244,221>>, <<63,237,80,249,33,213,208,206>>, <<63,236,116,127,108,8,56,82>>, <<63,235,123,103,103,6,234,126>>,
            <<63,234,102,171,152,219,41,132>>, <<63,233,55,98,83,244,95,243>>, <<63,231,238,188,159,60,235,246>>, <<63,230,142,5,3,82,221,8>>,
            <<63,229,22,158,62,25,185,117>>, <<63,227,138,1,221,243,72,114>>, <<63,225,233,190,198,6,155,65>>, <<63,224,55,119,157,18,124,222>>,
            <<63,220,233,194,80,191,116,151>>, <<63,217,71,129,40,243,249,198>>, <<63,213,139,211,90,210,240,1>>, <<63,209,186,122,16,110,138,236>>,
            <<63,203,174,152,126,90,50,60>>, <<63,195,204,101,150,92,254,22>>, <<63,183,172,146,98,167,115,42>>, <<63,158,162,40,243,95,47,57>>,
            <<191,160,198,99,104,4,132,215>>, <<191,184,102,126,32,22,31,192>>, <<191,196,40,160,25,191,115,171>>, <<191,204,9,186,228,95,45,191>>,
            <<191,209,231,81,96,154,138,50>>, <<191,213,183,195,174,244,139,107>>, <<191,217,114,94,80,39,24,180>>, <<191,221,19,97,46,224,219,153>>,
            <<191,224,75,146,249,151,52,228>>, <<191,225,253,17,215,23,85,187>>, <<191,227,156,121,52,25,205,85>>, <<191,229,40,39,70,221,134,149>>,
            <<191,230,158,142,27,231,20,102>>, <<191,231,254,53,38,60,223,244>>, <<191,233,69,186,186,29,127,207>>, <<191,234,115,213,112,179,22,90>>,
            <<191,235,135,85,115,94,50,199>>, <<191,236,127,37,173,74,236,249>>, <<191,237,90,76,226,28,191,133>>, <<191,238,23,238,168,153,76,26>>,
            <<191,238,183,76,72,85,87,39>>, <<191,239,55,197,121,133,111,247>>, <<191,239,152,217,6,49,78,205>>, <<191,239,218,37,76,39,160,204>>,
            <<191,239,251,104,159,47,171,34>>, <<191,239,252,129,139,22,15,175>>, <<191,239,221,110,245,82,31,112>>, <<191,239,158,80,30,34,3,160>>,
            <<191,239,63,100,129,28,150,199>>, <<191,238,193,11,149,88,132,54>>, <<191,238,35,196,109,104,237,181>>, <<191,237,104,45,55,144,25,21>>,
            <<191,236,143,2,158,168,198,42>>, <<191,235,153,31,12,102,24,97>>, <<191,234,135,121,205,168,235,137>>, <<191,233,91,38,25,199,180,101>>,
            <<191,232,21,81,253,194,144,145>>, <<191,230,183,69,44,122,141,81>>, <<191,229,66,95,181,29,80,6>>, <<191,227,184,24,161,16,119,182>>,
            <<191,226,25,252,122,193,44,68>>, <<191,224,105,171,190,211,51,192>>, <<191,221,81,178,114,128,11,138>>, <<191,217,178,144,160,24,68,2>>,
            <<191,213,249,150,122,147,95,54>>, <<191,210,42,130,116,98,222,192>>, <<191,204,146,82,116,165,9,218>>, <<191,196,178,227,178,117,80,52>>,
            <<191,185,125,71,68,220,177,125>>, <<191,162,246,72,210,178,221,8>>, <<63,154,66,30,19,253,73,79>>, <<63,182,149,153,70,120,128,66>>,
            <<63,195,65,250,31,157,249,81>>, <<63,203,37,201,85,206,243,235>>, <<63,209,119,37,111,90,130,22>>, <<63,213,73,213,100,128,191,128>>,
            <<63,217,7,28,60,82,8,163>>, <<63,220,171,55,49,89,7,139>>, <<63,224,25,62,103,128,16,241>>, <<63,225,204,176,80,51,137,226>>,
            <<63,227,110,59,97,7,103,136>>, <<63,228,252,59,169,98,6,71>>, <<63,230,117,32,224,41,59,47>>, <<63,231,215,111,246,87,169,81>>,
            <<63,233,33,196,148,56,210,126>>, <<63,234,82,210,127,204,65,123>>, <<63,235,105,102,234,231,219,24>>, <<63,236,100,105,167,200,196,142>>,
            <<63,237,66,222,66,220,227,99>>, <<63,238,3,229,0,169,71,237>>, <<63,238,166,187,190,206,145,234>>, <<63,239,42,190,183,72,119,123>>,
            <<63,239,143,105,37,36,110,197>>, <<63,239,212,85,202,9,197,145>>, <<63,239,249,63,84,12,173,224>>, <<63,239,254,0,163,102,20,161>>,
            <<63,239,226,148,239,201,235,239>>, <<63,239,167,23,205,54,128,191>>, <<63,239,75,197,16,55,245,6>>, <<63,238,208,248,145,187,205,150>>,
            <<63,238,55,45,210,177,14,132>>, <<63,237,126,255,127,209,201,27>>, <<63,236,169,38,214,19,44,157>>, <<63,235,182,122,232,88,78,64>>,
            <<63,234,167,239,199,35,74,8>>, <<63,233,126,149,139,30,20,6>>, <<63,232,59,151,67,114,35,87>>, <<63,230,224,57,201,1,161,185>>,
            <<63,229,109,218,119,177,83,194>>, <<63,227,229,237,207,11,106,81>>, <<63,226,73,253,251,156,112,32>>, <<63,224,155,169,74,131,213,179>>,
            <<63,221,185,65,17,139,115,246>>, <<63,218,29,74,160,4,73,136>>, <<63,214,103,16,132,141,109,66>>, <<63,210,154,78,109,131,178,171>>,
            <<63,205,117,173,100,182,22,37>>, <<63,197,153,28,247,82,199,76>>, <<63,187,77,167,97,18,159,73>>, <<63,166,155,62,27,41,234,182>>,
            <<191,146,247,30,3,76,183,190>>, <<191,180,196,105,80,54,154,206>>, <<191,194,91,20,25,50,180,15>>, <<191,202,65,125,125,103,141,197>>,
            <<191,209,6,191,103,207,85,142>>, <<191,212,219,160,76,206,20,183>>, <<191,216,155,134,235,127,122,65>>, <<191,220,66,173,218,204,143,20>>,
            <<191,223,205,104,149,171,45,164>>, <<191,225,156,19,150,132,156,99>>, <<191,227,63,188,238,123,226,97>>, <<191,228,208,10,64,189,202,49>>,
            <<191,230,75,104,243,196,198,188>>, <<191,231,176,91,123,108,99,178>>, <<191,232,253,122,216,174,28,21>>, <<191,234,49,120,2,175,240,59>>,
            <<191,235,75,29,55,185,104,139>>, <<191,236,73,79,52,188,151,226>>, <<191,237,43,14,82,57,85,130>>, <<191,237,239,119,133,92,78,255>>,
            <<191,238,149,197,68,87,162,247>>, <<191,239,29,80,77,14,212,193>>, <<191,239,133,144,77,78,182,93>>, <<191,239,206,28,107,231,228,191>>,
            <<191,239,246,171,178,34,17,132>>, <<191,239,255,21,85,29,232,127>>, <<191,239,231,80,222,219,229,89>>, <<191,239,175,118,54,190,191,138>>,
            <<191,239,87,189,137,128,231,185>>, <<191,238,224,127,16,181,64,163>>, <<191,238,74,50,186,11,238,133>>, <<191,237,149,111,174,180,108,221>>,
            <<191,236,194,235,187,86,54,253>>, <<191,235,211,122,153,57,18,249>>, <<191,234,200,13,25,84,153,47>>, <<191,233,161,176,50,29,101,76>>,
            <<191,232,97,139,241,3,141,248>>, <<191,231,8,226,80,177,249,98>>, <<191,229,153,13,245,58,185,34>>, <<191,228,19,128,207,117,143,66>>,
            <<191,226,121,194,168,239,152,151>>, <<191,224,205,111,153,225,228,7>>, <<191,222,32,108,213,119,188,39>>, <<191,218,135,173,197,195,164,164>>,
            <<191,214,212,64,12,167,3,16>>, <<191,211,9,220,135,255,185,229>>, <<191,206,88,166,90,103,191,35>>, <<191,198,127,14,103,69,134,239>>,
            <<191,189,29,172,174,217,227,155>>, <<191,170,63,232,52,55,109,177>>, <<63,135,87,189,190,149,203,95>>, <<63,178,242,244,72,114,208,25>>,
            <<63,193,115,241,6,107,176,125>>, <<63,201,92,218,82,111,109,183>>, <<63,208,150,32,191,202,205,213>>, <<63,212,109,37,214,100,144,249>>,
            <<63,216,47,159,195,125,133,156>>, <<63,219,217,198,134,231,73,228>>, <<63,223,103,234,151,91,138,68>>, <<63,225,107,60,75,183,166,171>>,
            <<63,227,16,254,119,24,202,44>>, <<63,228,163,147,159,235,95,117>>, <<63,230,33,102,225,121,95,249>>, <<63,231,136,248,55,116,73,27>>,
            <<63,232,216,222,0,45,131,247>>, <<63,234,15,198,104,75,184,21>>, <<63,235,44,120,190,142,97,88>>, <<63,236,45,214,174,74,130,117>>,
            <<63,237,18,221,95,100,37,237>>, <<63,237,218,166,122,162,197,141>>, <<63,238,132,105,17,90,229,145>>, <<63,239,15,122,103,132,37,0>>,
            <<63,239,123,78,159,112,12,120>>, <<63,239,199,121,70,117,72,210>>, <<63,239,243,173,194,1,170,113>>, <<63,239,255,191,156,165,78,28>>,
            <<63,239,235,162,178,201,90,155>>, <<63,239,183,107,62,229,114,37>>, <<63,239,99,77,197,39,126,106>>, <<63,238,239,158,222,162,89,23>>,
            <<63,238,92,210,228,56,101,39>>, <<63,237,171,125,121,151,202,20>>, <<63,236,220,80,248,189,185,155>>, <<63,235,240,29,190,150,110,127>>,
            <<63,234,231,209,89,110,32,175>>, <<63,233,196,117,154,5,146,239>>, <<63,232,135,47,136,58,191,218>>, <<63,231,49,62,60,82,141,9>>,
            <<63,229,195,249,158,11,106,220>>, <<63,228,64,209,10,188,103,233>>, <<63,226,169,73,227,220,2,253>>, <<63,224,254,254,7,98,127,250>>,
            <<63,222,135,52,103,35,199,197>>, <<63,218,241,184,175,130,188,30>>, <<63,215,65,35,167,190,3,32>>, <<63,211,121,43,80,211,93,34>>,
            <<63,207,59,58,98,218,228,72>>, <<63,199,100,181,5,140,247,227>>, <<63,190,237,81,38,240,104,126>>, <<63,173,228,58,255,248,160,128>>,
            <<191,113,129,227,168,124,171,124>>, <<191,177,33,64,59,54,181,125>>, <<191,192,140,147,232,1,228,170>>, <<191,200,119,226,205,79,144,251>>,
            <<191,208,37,74,237,218,218,213>>, <<191,211,254,103,112,179,30,47>>, <<191,215,195,104,43,42,11,164>>, <<191,219,112,130,146,141,153,122>>,
            <<191,223,2,4,37,157,36,77>>, <<191,225,58,43,18,60,132,12>>, <<191,226,226,0,150,84,156,29>>, <<191,228,118,216,90,203,125,115>>,
            <<191,229,247,27,52,253,80,83>>, <<191,231,97,70,173,110,148,214>>, <<191,232,179,238,132,123,142,73>>, <<191,233,237,190,32,174,246,201>>,
            <<191,235,13,121,229,80,45,37>>, <<191,236,18,0,111,207,136,111>>, <<191,236,250,75,186,210,27,14>>, <<191,237,197,114,37,184,40,233>>,
            <<191,238,114,167,95,149,5,182>>, <<191,239,1,61,52,172,41,174>>, <<191,239,112,164,61,165,7,18>>, <<191,239,192,108,111,197,3,137>>,
            <<191,239,240,69,141,158,218,191>>, <<191,239,255,255,119,197,243,18>>, <<191,239,239,138,93,52,127,65>>, <<191,239,190,246,203,51,195,197>>,
            <<191,239,110,117,156,182,123,223>>, <<191,238,254,87,201,54,25,183>>, <<191,238,111,14,19,68,86,167>>, <<191,237,193,40,151,34,234,214>>,
            <<191,236,245,86,57,211,160,235>>, <<191,236,12,99,249,50,54,179>>, <<191,235,7,60,29,201,95,142>>, <<191,233,230,229,79,49,239,25>>,
            <<191,232,172,129,139,233,92,80>>, <<191,231,89,77,5,169,26,64>>, <<191,229,238,156,227,100,75,74>>, <<191,228,109,221,234,43,115,247>>,
            <<191,226,216,147,14,79,125,41>>, <<191,225,48,83,238,52,199,178>>, <<191,222,237,150,112,187,140,184>>, <<191,219,91,105,252,147,121,45>>,
            <<191,215,173,185,235,172,197,56>>, <<191,211,232,57,85,205,186,69>>, <<191,208,14,179,70,63,154,247>>, <<191,200,74,13,214,97,120,32>>,
            <<191,192,94,71,97,171,114,159>>, <<191,176,196,21,48,213,204,44>>, <<191,103,87,220,204,120,60,214>>, <<63,174,158,166,106,183,117,199>>,
            <<63,191,73,255,126,224,35,85>>, <<63,199,146,153,231,137,95,237>>, <<63,207,104,126,210,137,230,9>>, <<63,211,143,102,140,10,105,94>>,
            <<63,215,86,225,138,110,189,231>>, <<63,219,6,227,91,215,253,141>>, <<63,222,155,182,147,87,5,101>>, <<63,225,8,224,141,67,208,110>>,
            <<63,226,178,195,232,120,180,113>>, <<63,228,73,217,6,35,44,41>>, <<63,229,204,134,122,251,159,168>>, <<63,231,57,71,97,94,246,36>>,
            <<63,232,142,172,224,111,144,141>>, <<63,233,203,95,157,9,65,235>>, <<63,234,238,33,19,20,211,31>>, <<63,235,245,204,213,224,91,164>>,
            <<63,236,225,89,182,57,122,220>>, <<63,237,175,218,205,34,64,152>>, <<63,238,96,128,106,20,59,80>>, <<63,238,242,152,227,226,54,196>>,
            <<63,239,101,145,75,102,113,102>>, <<63,239,184,245,255,73,175,33>>, <<63,239,236,115,32,78,113,241>>, <<63,239,255,212,229,171,119,141>>,
            <<63,239,243,7,209,32,153,44>>, <<63,239,198,24,194,145,178,235>>, <<63,239,121,52,235,19,210,146>>, <<63,239,12,169,159,121,185,174>>,
            <<63,238,128,228,10,141,112,227>>, <<63,237,214,112,191,69,5,44>>, <<63,237,13,251,43,97,31,85>>, <<63,236,40,76,235,3,60,168>>,
            <<63,235,38,76,253,233,99,75>>, <<63,234,8,254,223,26,241,216>>, <<63,232,209,129,127,240,75,153>>, <<63,231,129,14,39,123,236,240>>,
            <<63,230,24,247,55,118,247,110>>, <<63,228,154,166,215,238,75,245>>, <<63,227,7,157,139,6,69,208>>, <<63,225,97,112,170,67,169,12>>,
            <<63,223,83,145,157,188,244,120>>, <<63,219,196,192,77,113,162,124>>, <<63,216,26,1,111,78,232,167>>, <<63,212,87,5,37,149,84,230>>,
            <<63,208,127,147,243,143,73,189>>, <<63,201,47,21,222,253,107,42>>, <<63,193,69,175,191,177,244,48>>, <<63,178,149,213,30,237,70,70>>,
            <<63,132,108,204,209,201,173,201>>, <<191,170,250,102,136,244,18,235>>, <<191,189,122,111,29,206,80,29>>, <<191,198,173,2,155,173,39,176>>,
            <<191,206,133,255,84,2,40,204>>, <<191,211,32,36,153,152,86,61>>, <<191,214,234,13,74,59,251,28>>, <<191,218,156,234,66,14,92,62>>,
            <<191,222,53,3,52,199,149,23>>, <<191,224,215,93,96,188,147,154>>, <<191,226,131,73,10,159,96,154>>, <<191,228,28,150,55,153,201,37>>,
            <<191,229,161,169,65,18,75,217>>, <<191,231,16,250,216,75,151,217>>, <<191,232,105,25,143,242,61,22>>, <<191,233,168,171,79,169,0,232>>,
            <<191,234,206,110,176,29,137,165>>, <<191,235,217,60,62,72,55,37>>, <<191,236,200,7,164,145,35,63>>, <<191,237,153,224,184,176,13,218>>,
            <<191,238,77,244,109,55,141,67>>, <<191,238,227,141,165,216,145,88>>, <<191,239,90,21,237,136,217,228>>, <<191,239,177,22,13,213,24,230>>,
            <<191,239,232,54,134,198,133,187>>, <<191,239,255,63,230,227,112,238>>, <<191,239,246,27,2,242,46,247>>, <<191,239,204,209,13,70,96,244>>,
            <<191,239,131,139,140,129,27,226>>, <<191,239,26,148,49,205,67,29>>, <<191,238,146,84,142,194,19,4>>, <<191,237,235,85,171,54,115,139>>,
            <<191,237,38,63,123,111,179,247>>, <<191,236,67,216,55,54,156,172>>, <<191,235,69,3,146,124,61,55>>, <<191,234,42,193,216,87,125,40>>,
            <<191,232,246,46,233,65,103,29>>, <<191,231,168,129,29,147,138,6>>, <<191,230,67,8,13,103,170,64>>, <<191,228,199,43,63,18,128,191>>,
            <<191,227,54,104,189,141,10,151>>, <<191,225,146,83,152,56,91,80>>, <<191,223,185,36,154,251,160,99>>, <<191,220,45,186,67,199,196,56>>,
            <<191,216,133,248,202,133,202,12>>, <<191,212,197,141,79,172,181,75>>, <<191,208,240,61,193,242,251,175>>, <<191,202,19,202,37,168,156,48>>,
            <<191,194,44,222,171,236,76,246>>, <<191,180,103,87,61,65,13,203>>, <<191,145,129,175,65,42,174,169>>, <<63,167,85,204,237,164,198,50>>,
            <<63,187,170,124,178,139,134,67>>, <<63,197,199,31,229,79,211,211>>, <<63,205,163,26,81,106,33,91>>, <<63,210,176,163,11,99,20,244>>,
            <<63,214,124,236,212,132,75,5>>, <<63,218,50,152,165,163,157,39>>, <<63,221,205,235,95,127,119,12>>, <<63,224,165,162,49,82,113,63>>,
            <<63,226,83,144,154,177,173,224>>, <<63,227,239,16,133,183,46,167>>, <<63,229,118,132,21,208,131,156>>, <<63,230,232,97,152,59,139,210>>,
            <<63,232,67,53,15,251,201,163>>, <<63,233,133,161,171,249,226,156>>, <<63,234,174,99,37,213,104,18>>, <<63,235,188,79,8,7,144,35>>,
            <<63,236,174,85,218,15,91,13>>, <<63,237,131,132,49,121,0,23>>, <<63,238,59,3,166,174,1,73>>, <<63,238,212,27,172,151,213,246>>,
            <<63,239,78,50,74,60,28,178>>, <<63,239,168,204,181,151,241,74>>, <<63,239,227,143,207,30,73,42>>, <<63,239,254,64,125,93,103,206>>,
            <<63,239,248,195,232,111,45,12>>, <<63,239,211,31,148,248,102,228>>, <<63,239,141,121,94,156,23,213>>, <<63,239,40,23,81,232,43,255>>,
            <<63,238,163,95,101,226,0,247>>, <<63,237,255,215,21,121,137,102>>, <<63,237,62,34,217,74,69,64>>, <<63,236,95,5,130,48,231,35>>,
            <<63,235,99,95,117,92,72,207>>, <<63,234,76,45,202,158,123,194>>, <<63,233,26,137,77,225,8,142>>, <<63,231,207,165,100,188,119,174>>,
            <<63,230,108,206,217,78,250,38>>, <<63,228,243,106,139,137,120,192>>, <<63,227,100,244,10,66,253,76>>, <<63,225,194,252,21,124,72,65>>,
            <<63,224,15,39,11,83,3,209>>, <<63,220,150,86,130,115,159,207>>, <<63,216,241,158,150,61,138,29>>, <<63,213,51,208,100,119,141,19>>,
            <<63,209,96,175,58,183,125,115>>, <<63,202,248,39,177,193,71,26>>, <<63,195,19,209,37,121,95,230>>, <<63,182,56,149,127,157,132,180>>,
            <<63,152,204,189,224,25,240,216>>, <<191,163,176,229,182,117,252,13>>, <<191,185,218,46,68,26,78,49>>, <<191,196,224,244,193,1,65,180>>,
            <<191,204,191,210,189,94,244,40>>, <<191,210,64,227,84,68,144,164>>, <<191,214,15,129,148,55,215,186>>, <<191,217,199,239,232,48,248,18>>,
            <<191,221,102,112,106,93,139,31>>, <<191,224,115,175,164,107,45,30>>, <<191,226,35,155,55,101,104,229>>, <<191,227,193,72,135,225,153,198>>,
            <<191,229,75,23,136,180,169,22>>, <<191,230,191,124,40,53,24,172>>, <<191,232,28,255,222,146,115,65>>, <<191,233,98,67,38,131,131,243>>,
            <<191,234,141,254,222,208,21,137>>, <<191,235,159,5,147,82,229,88>>, <<191,236,148,68,172,40,199,146>>, <<191,237,108,197,129,219,233,245>>,
            <<191,238,39,174,85,117,211,232>>, <<191,238,196,67,43,126,65,115>>, <<191,239,65,230,137,10,219,53>>, <<191,239,160,26,18,33,120,118>>,
            <<191,239,222,127,8,205,220,159>>, <<191,239,252,214,172,106,209,159>>, <<191,239,251,2,120,191,5,105>>, <<191,239,217,4,68,174,29,76>>,
            <<191,239,150,254,64,95,25,119>>, <<191,239,53,50,210,217,251,143>>, <<191,238,180,4,87,63,32,29>>, <<191,238,19,244,185,219,159,108>>,
            <<191,237,85,164,245,126,19,71>>, <<191,236,121,212,113,143,70,61>>, <<191,235,129,96,65,145,135,223>>, <<191,234,109,66,70,200,67,208>>,
            <<191,233,62,144,52,231,174,148>>, <<191,231,246,122,122,200,230,209>>, <<191,230,150,75,16,59,216,40>>, <<191,229,31,100,42,42,128,255>>,
            <<191,227,147,62,214,91,192,1>>, <<191,225,243,105,128,59,61,8>>, <<191,224,65,134,96,36,181,95>>, <<191,220,254,147,173,138,81,4>>,
            <<191,217,92,241,108,113,153,207>>, <<191,213,161,204,245,63,65,11>>, <<191,209,208,230,231,229,37,244>>, <<191,203,220,43,139,197,188,0>>,
            <<191,195,250,132,44,65,247,247>>, <<191,184,9,137,218,175,126,92>>, <<191,160,11,189,2,21,82,33>>, <<63,160,11,189,2,21,190,61>>,
            <<63,184,9,137,218,175,116,125>>, <<63,195,250,132,44,65,243,17>>, <<63,203,220,43,139,197,183,41>>, <<63,209,208,230,231,229,35,146>>,
            <<63,213,161,204,245,63,92,212>>, <<63,217,92,241,108,113,151,136>>, <<63,220,254,147,173,138,78,206>>, <<63,224,65,134,96,36,187,50>>,
            <<63,225,243,105,128,59,60,1>>, <<63,227,147,62,214,91,197,90>>, <<63,229,31,100,42,42,140,21>>, <<63,230,150,75,16,59,215,72>>,
            <<63,231,246,122,122,200,229,255>>, <<63,233,62,144,52,231,173,208>>, <<63,234,109,66,70,200,67,29>>, <<63,235,129,96,65,145,139,84>>,
            <<63,236,121,212,113,143,73,83>>, <<63,237,85,164,245,126,21,250>>, <<63,238,19,244,185,219,158,255>>, <<63,238,180,4,87,63,31,196>>,
            <<63,239,53,50,210,217,251,73>>, <<63,239,150,254,64,95,27,211>>, <<63,239,217,4,68,174,29,45>>, <<63,239,251,2,120,191,5,94>>,
            <<63,239,252,214,172,106,209,111>>, <<63,239,222,127,8,205,220,187>>, <<63,239,160,26,18,33,119,110>>, <<63,239,65,230,137,10,216,12>>,
            <<63,238,196,67,43,126,65,202>>, <<63,238,39,174,85,117,212,82>>, <<63,237,108,197,129,219,234,114>>, <<63,236,148,68,172,40,200,32>>,
            <<63,235,159,5,147,82,225,239>>, <<63,234,141,254,222,208,17,195>>, <<63,233,98,67,38,131,127,213>>, <<63,232,28,255,222,146,116,18>>,
            <<63,230,191,124,40,53,25,139>>, <<63,229,75,23,136,180,170,2>>, <<63,227,193,72,135,225,142,42>>, <<63,226,35,155,55,101,105,235>>,
            <<63,224,115,175,164,107,46,46>>, <<63,221,102,112,106,93,141,83>>, <<63,217,199,239,232,48,250,87>>, <<63,214,15,129,148,55,203,9>>,
            <<63,210,64,227,84,68,116,89>>, <<63,204,191,210,189,94,248,254>>, <<63,196,224,244,193,1,70,153>>, <<63,185,218,46,68,26,88,15>>,
            <<63,163,176,229,182,118,15,224>>, <<191,152,204,189,224,26,201,28>>, <<191,182,56,149,127,157,122,211>>, <<191,195,19,209,37,121,122,164>>,
            <<191,202,248,39,177,193,66,65>>, <<191,209,96,175,58,183,123,16>>, <<191,213,51,208,100,119,168,237>>, <<191,216,241,158,150,61,165,76>>,
            <<191,220,150,86,130,115,157,151>>, <<191,224,15,39,11,83,2,190>>, <<191,225,194,252,21,124,71,57>>, <<191,227,100,244,10,66,252,79>>,
            <<191,228,243,106,139,137,125,221>>, <<191,230,108,206,217,79,4,173>>, <<191,231,207,165,100,188,118,218>>, <<191,233,26,137,77,225,7,201>>,
            <<191,234,76,45,202,158,123,13>>, <<191,235,99,95,117,92,72,42>>, <<191,236,95,5,130,48,234,68>>, <<191,237,62,34,217,74,68,191>>,
            <<191,237,255,215,21,121,139,192>>, <<191,238,163,95,101,226,0,156>>, <<191,239,40,23,81,232,43,183>>, <<191,239,141,121,94,156,26,74>>,
            <<191,239,211,31,148,248,104,111>>, <<191,239,248,195,232,111,44,254>>, <<191,239,254,64,125,93,103,213>>, <<191,239,227,143,207,30,73,69>>,
            <<191,239,168,204,181,151,241,120>>, <<191,239,78,50,74,60,27,75>>, <<191,238,212,27,172,151,210,1>>, <<191,238,59,3,166,174,1,177>>,
            <<191,237,131,132,49,121,0,146>>, <<191,236,174,85,218,15,91,153>>, <<191,235,188,79,8,7,144,193>>, <<191,234,174,99,37,213,100,87>>,
            <<191,233,133,161,171,249,227,91>>, <<191,232,67,53,15,251,202,114>>, <<191,230,232,97,152,59,140,176>>, <<191,229,118,132,21,208,132,136>>,
            <<191,227,239,16,133,183,35,27>>, <<191,226,83,144,154,177,161,198>>, <<191,224,165,162,49,82,114,78>>, <<191,221,205,235,95,127,121,61>>,
            <<191,218,50,152,165,163,159,106>>, <<191,214,124,236,212,132,77,87>>, <<191,210,176,163,11,99,8,6>>, <<191,205,163,26,81,106,7,13>>,
            <<191,197,199,31,229,79,216,182>>, <<191,187,170,124,178,139,144,31>>, <<191,167,85,204,237,164,218,3>>, <<63,145,129,175,65,44,134,236>>,
            <<63,180,103,87,61,65,131,128>>, <<63,194,44,222,171,236,72,14>>, <<63,202,19,202,37,168,151,86>>, <<63,208,240,61,193,242,249,75>>,
            <<63,212,197,141,79,172,178,242>>, <<63,216,133,248,202,133,229,81>>, <<63,220,45,186,67,199,222,185>>, <<63,223,185,36,154,251,158,60>>,
            <<63,225,146,83,152,56,90,71>>, <<63,227,54,104,189,141,9,153>>, <<63,228,199,43,63,18,127,205>>, <<63,230,67,8,13,103,175,27>>,
            <<63,231,168,129,29,147,142,148>>, <<63,232,246,46,233,65,102,87>>, <<63,234,42,193,216,87,124,113>>, <<63,235,69,3,146,124,60,145>>,
            <<63,236,67,216,55,54,163,152>>, <<63,237,38,63,123,111,186,14>>, <<63,237,235,85,171,54,115,26>>, <<63,238,146,84,142,194,18,166>>,
            <<63,239,26,148,49,205,66,210>>, <<63,239,131,139,140,129,27,171>>, <<63,239,204,209,13,70,98,154>>, <<63,239,246,27,2,242,47,177>>,
            <<63,239,255,63,230,227,112,242>>, <<63,239,232,54,134,198,133,211>>, <<63,239,177,22,13,213,25,18>>, <<63,239,90,21,237,136,218,36>>,
            <<63,238,227,141,165,216,143,148>>, <<63,238,77,244,109,55,141,169>>, <<63,237,153,224,184,176,14,82>>, <<63,236,200,7,164,145,35,202>>,
            <<63,235,217,60,62,72,55,193>>, <<63,234,206,110,176,29,129,150>>, <<63,233,168,171,79,168,248,22>>, <<63,232,105,25,143,242,61,227>>,
            <<63,231,16,250,216,75,152,181>>, <<63,229,161,169,65,18,76,195>>, <<63,228,28,150,55,153,202,27>>, <<63,226,131,73,10,159,84,144>>,
            <<63,224,215,93,96,188,148,168>>, <<63,222,53,3,52,199,151,71>>, <<63,218,156,234,66,14,94,128>>, <<63,214,234,13,74,59,253,109>>,
            <<63,211,32,36,153,152,58,17>>, <<63,206,133,255,84,2,14,137>>, <<63,198,173,2,155,173,44,146>>, <<63,189,122,111,29,206,89,247>>,
            <<63,170,250,102,136,244,38,185>>, <<191,132,108,204,209,201,94,115>>, <<191,178,149,213,30,237,188,12>>, <<191,193,69,175,191,178,46,176>>,
            <<191,201,47,21,222,253,102,77>>, <<191,208,127,147,243,143,71,87>>, <<191,212,87,5,37,149,82,141>>, <<191,216,26,1,111,78,230,91>>,
            <<191,219,196,192,77,113,189,21>>, <<191,223,83,145,157,188,242,79>>, <<191,225,97,112,170,67,168,2>>, <<191,227,7,157,139,6,68,209>>,
            <<191,228,154,166,215,238,75,2>>, <<191,230,24,247,55,119,2,27>>, <<191,231,129,14,39,123,241,134>>, <<191,232,209,129,127,240,74,209>>,
            <<191,234,8,254,223,26,241,31>>, <<191,235,38,76,253,233,98,163>>, <<191,236,40,76,235,3,60,17>>, <<191,237,13,251,43,97,37,133>>,
            <<191,237,214,112,191,69,10,130>>, <<191,238,128,228,10,141,112,131>>, <<191,239,12,169,159,121,185,97>>, <<191,239,121,52,235,19,210,88>>,
            <<191,239,198,24,194,145,178,197>>, <<191,239,243,7,209,32,153,142>>, <<191,239,255,212,229,171,119,143>>, <<191,239,236,115,32,78,114,7>>,
            <<191,239,184,245,255,73,175,75>>, <<191,239,101,145,75,102,113,163>>, <<191,238,242,152,227,226,51,3>>, <<191,238,96,128,106,20,57,48>>,
            <<191,237,175,218,205,34,65,14>>, <<191,236,225,89,182,57,123,100>>, <<191,235,245,204,213,224,92,62>>, <<191,234,238,33,19,20,211,203>>,
            <<191,233,203,95,157,9,57,46>>, <<191,232,142,172,224,111,145,89>>, <<191,231,57,71,97,94,246,254>>, <<191,229,204,134,122,251,160,144>>,
            <<191,228,73,217,6,35,38,239>>, <<191,226,178,195,232,120,174,245>>, <<191,225,8,224,141,67,202,181>>, <<191,222,155,182,147,87,7,146>>,
            <<191,219,6,227,91,215,255,204>>, <<191,215,86,225,138,110,192,54>>, <<191,211,143,102,140,10,107,186>>, <<191,207,104,126,210,137,172,204>>,
            <<191,199,146,153,231,137,69,89>>, <<191,191,73,255,126,224,45,45>>, <<191,174,158,166,106,183,137,148>>, <<63,103,87,220,204,118,255,120>>,
            <<63,176,196,21,48,213,194,70>>, <<63,192,94,71,97,171,173,46>>, <<63,200,74,13,214,97,115,66>>, <<63,208,14,179,70,63,152,144>>,
            <<63,211,232,57,85,205,183,234>>, <<63,215,173,185,235,172,209,200>>, <<63,219,91,105,252,147,133,102>>, <<63,222,237,150,112,187,152,142>>,
            <<63,225,48,83,238,52,198,166>>, <<63,226,216,147,14,79,124,40>>, <<63,228,109,221,234,43,115,3>>, <<63,229,238,156,227,100,74,99>>,
            <<63,231,89,77,5,169,36,88>>, <<63,232,172,129,139,233,96,158>>, <<63,233,230,229,79,49,238,95>>, <<63,235,7,60,29,201,94,228>>,
            <<63,236,12,99,249,50,54,26>>, <<63,236,245,86,57,211,160,100>>, <<63,237,193,40,151,34,240,68>>, <<63,238,111,14,19,68,86,69>>,
            <<63,238,254,87,201,54,25,104>>, <<63,239,110,117,156,182,123,164>>, <<63,239,190,246,203,51,196,159>>, <<63,239,239,138,93,52,127,175>>,
            <<63,239,255,255,119,197,243,19>>, <<63,239,240,69,141,158,218,211>>, <<63,239,192,108,111,197,3,176>>, <<63,239,112,164,61,165,7,78>>,
            <<63,239,1,61,52,172,41,253>>, <<63,238,114,167,95,149,1,43>>, <<63,237,197,114,37,184,41,94>>, <<63,236,250,75,186,210,27,148>>,
            <<63,236,18,0,111,207,133,48>>, <<63,235,13,121,229,80,45,207>>, <<63,233,237,190,32,174,242,210>>, <<63,232,179,238,132,123,132,231>>,
            <<63,231,97,70,173,110,149,175>>, <<63,229,247,27,52,253,81,58>>, <<63,228,118,216,90,203,126,103>>, <<63,226,226,0,150,84,157,29>>,
            <<63,225,58,43,18,60,126,90>>, <<63,223,2,4,37,157,24,121>>, <<63,219,112,130,146,141,155,184>>, <<63,215,195,104,43,42,13,241>>,
            <<63,211,254,103,112,179,32,138>>, <<63,208,37,74,237,218,221,59>>, <<63,200,119,226,205,79,87,7>>, <<63,192,140,147,232,1,233,149>>,
            <<63,177,33,64,59,54,191,98>>, <<63,113,129,227,168,121,74,46>>, <<191,173,228,58,255,248,140,178>>, <<191,190,237,81,38,240,158,46>>,
            <<191,199,100,181,5,141,49,239>>, <<191,207,59,58,98,218,223,121>>, <<191,211,121,43,80,211,90,197>>, <<191,215,65,35,167,190,0,209>>,
            <<191,218,241,184,175,130,185,222>>, <<191,222,135,52,103,35,211,167>>, <<191,224,254,254,7,98,133,180>>, <<191,226,169,73,227,220,1,251>>,
            <<191,228,64,209,10,188,102,243>>, <<191,229,195,249,158,11,105,244>>, <<191,231,49,62,60,82,140,46>>, <<191,232,135,47,136,58,201,84>>,
            <<191,233,196,117,154,5,146,51>>, <<191,234,231,209,89,110,32,3>>, <<191,235,240,29,190,150,113,203>>, <<191,236,220,80,248,189,185,18>>,
            <<191,237,171,125,121,151,204,156>>, <<191,238,92,210,228,56,105,208>>, <<191,238,239,158,222,162,88,198>>, <<191,239,99,77,197,39,126,44>>,
            <<191,239,183,107,62,229,113,250>>, <<191,239,235,162,178,201,90,133>>, <<191,239,255,191,156,165,78,42>>, <<191,239,243,173,194,1,170,130>>,
            <<191,239,199,121,70,117,72,7>>, <<191,239,123,78,159,112,12,177>>, <<191,239,15,122,103,132,37,77>>, <<191,238,132,105,17,90,225,32>>,
            <<191,237,218,166,122,162,192,61>>, <<191,237,18,221,95,100,38,114>>, <<191,236,45,214,174,74,131,11>>, <<191,235,44,120,190,142,98,0>>,
            <<191,234,15,198,104,75,184,206>>, <<191,232,216,222,0,45,127,181>>, <<191,231,136,248,55,116,63,26>>, <<191,230,33,102,225,121,96,223>>,
            <<191,228,163,147,159,235,96,103>>, <<191,227,16,254,119,24,203,43>>, <<191,225,107,60,75,183,167,181>>, <<191,223,103,234,151,91,126,124>>,
            <<191,219,217,198,134,231,76,31>>, <<191,216,47,159,195,125,121,24>>, <<191,212,109,37,214,100,147,82>>, <<191,208,150,32,191,202,208,59>>,
            <<191,201,92,218,82,111,51,216>>, <<191,193,115,241,6,107,118,0>>, <<191,178,242,244,72,114,217,253>>, <<191,135,87,189,190,150,26,182>>,
            <<63,170,63,232,52,55,89,226>>, <<63,189,29,172,174,217,217,193>>, <<63,198,127,14,103,69,161,142>>, <<63,206,88,166,90,103,248,127>>,
            <<63,211,9,220,135,255,183,135>>, <<63,214,212,64,12,167,0,191>>, <<63,218,135,173,197,195,162,98>>, <<63,222,32,108,213,119,185,247>>,
            <<63,224,205,111,153,225,233,200>>, <<63,226,121,194,168,239,151,148>>, <<63,228,19,128,207,117,148,134>>, <<63,229,153,13,245,58,184,56>>,
            <<63,231,8,226,80,177,248,134>>, <<63,232,97,139,241,3,151,136>>, <<63,233,161,176,50,29,110,34>>, <<63,234,200,13,25,84,152,129>>,
            <<63,235,211,122,153,57,18,92>>, <<63,236,194,235,187,86,54,114>>, <<63,237,149,111,174,180,108,100>>, <<63,238,74,50,186,11,240,179>>,
            <<63,238,224,127,16,181,66,105>>, <<63,239,87,189,137,128,231,121>>, <<63,239,175,118,54,190,191,94>>, <<63,239,231,80,222,219,229,64>>,
            <<63,239,255,21,85,29,232,183>>, <<63,239,246,171,178,34,17,49>>, <<63,239,206,28,107,231,228,226>>, <<63,239,133,144,77,78,182,148>>,
            <<63,239,29,80,77,14,213,11>>, <<63,238,149,197,68,87,163,84>>, <<63,237,239,119,133,92,73,200>>, <<63,237,43,14,82,57,79,112>>,
            <<63,236,73,79,52,188,152,119>>, <<63,235,75,29,55,185,105,48>>, <<63,234,49,120,2,175,240,241>>, <<63,232,253,122,216,174,28,219>>,
            <<63,231,176,91,123,108,95,39>>, <<63,230,75,104,243,196,193,226>>, <<63,228,208,10,64,189,203,34>>, <<63,227,63,188,238,123,227,95>>,
            <<63,225,156,19,150,132,157,108>>, <<63,223,205,104,149,171,20,6>>, <<63,220,66,173,218,204,130,242>>, <<63,216,155,134,235,127,124,139>>,
            <<63,212,219,160,76,206,23,15>>, <<63,209,6,191,103,207,87,242>>, <<63,202,65,125,125,103,146,159>>, <<63,194,91,20,25,50,121,161>>,
            <<63,180,196,105,80,54,37,29>>, <<63,146,247,30,3,76,223,104>>, <<191,166,155,62,27,41,214,229>>, <<191,187,77,167,97,18,149,108>>,
            <<191,197,153,28,247,82,194,104>>, <<191,205,117,173,100,182,48,118>>, <<191,210,154,78,109,131,191,154>>, <<191,214,103,16,132,141,106,240>>,
            <<191,218,29,74,160,4,71,68>>, <<191,221,185,65,17,139,113,196>>, <<191,224,155,169,74,131,226,80>>, <<191,226,73,253,251,156,124,61>>,
            <<191,227,229,237,207,11,105,88>>, <<191,229,109,218,119,177,82,214>>, <<191,230,224,57,201,1,160,219>>, <<191,232,59,151,67,114,34,135>>,
            <<191,233,126,149,139,30,28,241>>, <<191,234,167,239,199,35,73,89>>, <<191,235,182,122,232,88,77,162>>, <<191,236,169,38,214,19,44,16>>,
            <<191,237,126,255,127,209,200,159>>, <<191,238,55,45,210,177,16,189>>, <<191,238,208,248,145,187,207,104>>, <<191,239,75,197,16,55,244,196>>,
            <<191,239,167,23,205,54,128,145>>, <<191,239,226,148,239,201,235,212>>, <<191,239,254,0,163,102,20,154>>, <<191,239,249,63,84,12,173,71>>,
            <<191,239,212,85,202,9,196,11>>, <<191,239,143,105,37,36,110,249>>, <<191,239,42,190,183,72,119,195>>, <<191,238,166,187,190,206,146,70>>,
            <<191,238,3,229,0,169,72,91>>, <<191,237,66,222,66,220,221,106>>, <<191,236,100,105,167,200,197,32>>, <<191,235,105,102,234,231,219,187>>,
            <<191,234,82,210,127,204,66,47>>, <<191,233,33,196,148,56,211,67>>, <<191,231,215,111,246,87,164,206>>, <<191,230,117,32,224,41,54,94>>,
            <<191,228,252,59,169,98,7,55>>, <<191,227,110,59,97,7,104,132>>, <<191,225,204,176,80,51,138,234>>, <<191,224,25,62,103,128,18,3>>,
            <<191,220,171,55,49,88,237,38>>, <<191,217,7,28,60,81,237,119>>, <<191,213,73,213,100,128,193,214>>, <<191,209,119,37,111,90,132,121>>,
            <<191,203,37,201,85,206,248,195>>, <<191,195,65,250,31,157,254,56>>, <<191,182,149,153,70,120,10,163>>, <<191,154,66,30,19,253,112,247>>,
            <<63,162,246,72,210,178,201,53>>, <<63,185,125,71,68,220,167,158>>, <<63,196,178,227,178,117,75,80>>, <<63,204,146,82,116,165,67,104>>,
            <<63,210,42,130,116,98,235,183>>, <<63,213,249,150,122,147,92,225>>, <<63,217,178,144,160,24,65,188>>, <<63,221,81,178,114,128,9,85>>,
            <<63,224,105,171,190,211,50,175>>, <<63,226,25,252,122,193,56,112>>, <<63,227,184,24,161,16,118,188>>, <<63,229,66,95,181,29,79,24>>,
            <<63,230,183,69,44,122,140,113>>, <<63,232,21,81,253,194,143,192>>, <<63,233,91,38,25,199,184,133>>, <<63,234,135,121,205,168,239,81>>,
            <<63,235,153,31,12,102,23,192>>, <<63,236,143,2,158,168,197,155>>, <<63,237,104,45,55,144,24,152>>, <<63,238,35,196,109,104,237,74>>,
            <<63,238,193,11,149,88,136,75>>, <<63,239,63,100,129,28,152,60>>, <<63,239,158,80,30,34,3,111>>, <<63,239,221,110,245,82,31,83>>,
            <<63,239,252,129,139,22,15,166>>, <<63,239,251,104,159,47,171,45>>, <<63,239,218,37,76,39,159,98>>, <<63,239,152,217,6,49,78,255>>,
            <<63,239,55,197,121,133,112,61>>, <<63,238,183,76,72,85,87,128>>, <<63,238,23,238,168,153,76,134>>, <<63,237,90,76,226,28,188,211>>,
            <<63,236,127,37,173,74,233,230>>, <<63,235,135,85,115,94,51,105>>, <<63,234,115,213,112,179,23,12>>, <<63,233,69,186,186,29,128,146>>,
            <<63,231,254,53,38,60,224,198>>, <<63,230,158,142,27,231,9,245>>, <<63,229,40,39,70,221,129,131>>, <<63,227,156,121,52,25,206,80>>,
            <<63,225,253,17,215,23,86,193>>, <<63,224,75,146,249,151,53,246>>, <<63,221,19,97,46,224,221,207>>, <<63,217,114,94,80,38,253,158>>,
            <<63,213,183,195,174,244,141,192>>, <<63,209,231,81,96,154,140,148>>, <<63,204,9,186,228,95,50,150>>, <<63,196,40,160,25,191,88,247>>,
            <<63,184,102,126,32,21,233,234>>, <<63,160,198,99,104,4,24,188>>, <<191,158,162,40,243,95,7,146>>, <<191,183,172,146,98,167,105,74>>,
            <<191,195,204,101,150,92,249,48>>, <<191,203,174,152,126,90,45,101>>, <<191,209,186,122,16,110,167,73>>, <<191,213,139,211,90,210,237,171>>,
            <<191,217,71,129,40,243,247,127>>, <<191,220,233,194,80,191,114,96>>, <<191,224,55,119,157,18,123,204>>, <<191,225,233,190,198,6,160,219>>,
            <<191,227,138,1,221,243,84,34>>, <<191,229,22,158,62,25,184,134>>, <<191,230,142,5,3,82,220,39>>, <<191,231,238,188,159,60,235,35>>,
            <<191,233,55,98,83,244,100,29>>, <<191,234,102,171,152,219,45,86>>, <<191,235,123,103,103,6,237,244>>, <<191,236,116,127,108,8,55,193>>,
            <<191,237,80,249,33,213,208,79>>, <<191,238,15,246,202,194,244,112>>, <<191,238,176,184,80,130,200,2>>, <<191,239,50,156,5,88,234,196>>,
            <<191,239,149,31,70,180,183,55>>, <<191,239,215,223,0,147,223,201>>, <<191,239,250,152,17,39,245,235>>, <<191,239,253,39,140,90,224,11>>,
            <<191,239,223,138,222,238,66,183>>, <<191,239,161,223,209,18,134,31>>, <<191,239,68,100,104,114,229,30>>, <<191,238,199,118,169,212,155,17>>,
            <<191,238,43,148,58,135,251,76>>, <<191,237,113,89,226,10,125,122>>, <<191,236,153,130,236,88,233,227>>, <<191,235,164,232,109,144,34,194>>,
            <<191,234,148,128,103,154,0,181>>, <<191,233,105,92,210,194,9,98>>, <<191,232,36,170,138,42,117,177>>, <<191,230,199,176,29,55,12,210>>,
            <<191,229,83,204,135,29,216,75>>, <<191,227,202,117,205,232,98,80>>, <<191,226,45,55,138,71,208,111>>, <<191,224,125,177,89,183,15,246>>,
            <<191,221,123,42,120,245,110,185>>, <<191,217,221,75,194,69,180,190>>, <<191,214,37,105,190,140,223,77>>, <<191,210,87,65,198,127,5,101>>,
            <<191,204,237,79,50,253,184,197>>, <<191,197,15,3,8,125,191,238>>, <<191,186,55,17,210,230,177,189>>, <<191,164,107,127,251,156,1,157>>,
            <<63,151,87,90,95,157,47,112>>, <<63,181,219,142,195,252,100,56>>, <<63,194,229,165,161,158,61,193>>, <<63,202,202,130,119,54,205,242>>,
            <<63,209,74,54,182,65,31,226>>, <<63,213,29,200,146,89,25,3>>, <<63,216,220,29,158,168,56,249>>, <<63,220,129,114,5,247,222,31>>,
            <<63,224,5,13,140,57,192,230>>, <<63,225,185,69,125,221,208,183>>, <<63,227,91,170,30,252,182,187>>, <<63,228,234,150,164,44,199,158>>,
            <<63,230,100,121,214,187,227,197>>, <<63,231,199,215,168,51,190,152>>, <<63,233,19,74,176,150,181,240>>, <<63,234,69,133,149,213,1,147>>,
            <<63,235,93,84,91,16,158,72>>, <<63,236,89,157,150,94,151,215>>, <<63,237,57,99,139,206,173,79>>, <<63,237,251,197,44,155,229,209>>,
            <<63,238,159,254,249,134,38,58>>, <<63,239,37,107,199,112,169,141>>, <<63,239,139,133,101,127,196,49>>, <<63,239,209,229,36,15,6,99>>,
            <<63,239,248,68,59,247,177,223>>, <<63,239,254,124,21,191,229,61>>, <<63,239,228,134,112,106,202,197>>, <<63,239,170,125,103,194,197,37>>,
            <<63,239,80,155,90,23,73,145>>, <<63,238,215,58,173,136,205,48>>, <<63,238,62,213,117,29,202,134>>, <<63,237,136,4,245,252,95,116>>,
            <<63,236,179,129,13,67,239,49>>, <<63,235,194,31,119,33,207,250>>, <<63,234,180,210,247,219,45,48>>, <<63,233,140,170,103,163,216,31>>,
            <<63,232,74,207,162,56,74,44>>, <<63,230,240,134,91,76,25,244>>, <<63,229,127,42,216,250,168,201>>, <<63,227,248,48,149,129,113,117>>,
            <<63,226,93,32,201,163,173,38>>, <<63,224,175,152,225,47,241,151>>, <<63,221,226,145,182,105,186,31>>, <<63,218,71,227,47,14,117,209>>,
            <<63,214,146,198,38,157,99,126>>, <<63,210,198,245,44,189,125,137>>, <<63,205,208,131,76,198,131,232>>, <<63,197,245,31,237,158,197,177>>,
            <<63,188,7,78,85,206,119,154>>, <<63,168,16,88,165,102,241,31>>, <<191,144,12,62,42,211,3,124>>, <<191,180,10,66,115,106,191,116>>,
            <<191,193,254,166,211,168,168,177>>, <<191,201,230,19,85,206,123,101>>, <<191,208,217,185,219,56,140,104>>, <<191,212,175,119,143,33,61,33>>,
            <<191,216,112,103,102,93,73,10>>, <<191,220,24,194,237,23,120,224>>, <<191,223,164,220,103,232,216,33>>, <<191,225,136,145,67,126,0,104>>,
            <<191,227,45,17,254,77,128,119>>, <<191,228,190,73,121,197,241,214>>, <<191,230,58,164,48,224,120,30>>, <<191,231,160,163,154,2,61,20>>,
            <<191,232,238,223,167,184,53,92>>, <<191,234,36,8,50,213,144,201>>, <<191,235,62,230,76,136,230,107>>, <<191,236,62,93,119,19,197,102>>,
            <<191,237,33,108,195,234,175,168>>, <<191,237,231,47,214,29,12,190>>, <<191,238,142,223,200,1,165,208>>, <<191,239,23,211,243,64,163,76>>,
            <<191,239,129,130,154,113,170,201>>, <<191,239,203,129,115,163,163,83>>, <<191,239,245,134,19,66,232,82>>, <<191,239,255,102,54,242,41,67>>,
            <<191,239,233,23,240,10,227,59>>, <<191,239,178,177,173,154,158,120>>, <<191,239,92,106,37,210,236,88>>, <<191,238,230,152,31,2,207,233>>,
            <<191,238,81,178,24,80,240,9>>, <<191,237,158,77,210,142,75,202>>, <<191,236,205,31,185,153,99,111>>, <<191,235,222,250,46,233,52,96>>,
            <<191,234,212,204,181,246,191,11>>, <<191,233,175,163,3,89,112,240>>, <<191,232,112,163,239,137,76,195>>, <<191,231,25,16,78,85,39,139>>,
            <<191,229,170,65,172,55,131,201>>, <<191,228,37,168,242,206,43,85>>, <<191,226,140,204,245,210,195,246>>, <<191,224,225,72,234,8,128,204>>,
            <<191,222,73,149,143,86,171,164>>, <<191,218,178,35,51,255,201,217>>, <<191,214,255,215,123,110,144,192>>, <<191,211,54,106,31,214,113,237>>,
            <<191,206,179,84,62,21,100,191>>, <<191,198,218,243,203,209,74,137>>, <<191,189,215,45,160,212,135,188>>, <<191,171,180,225,70,231,195,54>>,
            <<63,129,129,217,45,101,87,204>>, <<63,178,56,179,124,116,38,221>>, <<63,193,23,108,44,188,176,11>>, <<63,201,1,78,17,221,2,71>>,
            <<63,208,105,4,245,114,191,112>>, <<63,212,64,225,192,16,44,53>>, <<63,216,4,95,230,78,115,212>>, <<63,219,175,182,98,71,146,104>>,
            <<63,223,63,52,121,62,93,87>>, <<63,225,87,162,184,226,122,155>>, <<63,226,254,58,22,220,172,118>>, <<63,228,145,183,82,60,26,240>>,
            <<63,230,16,132,156,227,24,39>>, <<63,231,121,32,247,10,169,136>>, <<63,232,202,33,178,119,188,184>>, <<63,234,2,51,223,62,124,175>>,
            <<63,235,32,29,160,164,46,203>>, <<63,236,34,191,104,201,42,180>>, <<63,237,9,21,25,221,34,68>>, <<63,237,210,55,11,187,88,177>>,
            <<63,238,125,90,244,231,11,50>>, <<63,239,9,212,181,254,53,93>>, <<63,239,119,23,6,213,213,68>>, <<63,239,196,180,4,145,190,183>>,
            <<63,239,242,93,160,40,220,196>>, <<63,239,255,229,236,230,254,167>>, <<63,239,237,63,78,156,252,130>>, <<63,239,186,124,135,80,233,17>>,
            <<63,239,103,208,164,96,120,121>>, <<63,238,245,142,203,40,169,216>>, <<63,238,100,41,229,102,46,75>>, <<63,237,180,52,45,162,216,99>>,
            <<63,236,230,94,156,36,61,178>>, <<63,235,251,120,52,239,87,9>>, <<63,234,244,109,55,148,77,119>>, <<63,233,210,70,49,147,229,22>>,
            <<63,232,150,38,244,77,15,213>>, <<63,231,65,77,111,126,227,0>>, <<63,229,213,16,113,133,158,49>>, <<63,228,82,222,78,148,168,138>>,
            <<63,226,188,59,112,72,5,85>>, <<63,225,18,192,207,0,8,247>>, <<63,222,176,52,173,31,233,198>>, <<63,219,28,10,111,186,221,181>>,
            <<63,215,108,156,82,66,216,82>>, <<63,211,165,159,45,25,228,73>>, <<63,207,149,191,20,144,19,160>>, <<63,199,192,123,166,183,14,213>>,
            <<63,191,166,169,173,53,182,69>>, <<63,175,89,13,194,168,129,142>>, <<191,87,87,222,89,237,43,243>>, <<191,176,102,231,235,119,49,173>>,
            <<191,192,47,248,173,226,51,244>>, <<191,200,28,53,164,61,5,169>>, <<191,207,240,50,247,143,4,237>>, <<191,211,210,8,148,239,225,133>>,
            <<191,215,152,8,133,197,73,201>>, <<191,219,70,77,194,232,81,43>>, <<191,222,217,36,158,139,79,164>>, <<191,225,38,122,128,200,109,111>>,
            <<191,226,207,35,4,117,88,103>>, <<191,228,100,224,193,203,122,43>>, <<191,229,230,27,166,220,53,92>>, <<191,231,81,80,66,180,154,120>>,
            <<191,232,165,17,75,7,240,71>>, <<191,233,224,9,11,146,149,200>>, <<191,235,0,250,189,196,87,207>>, <<191,236,6,195,199,88,150,78>>,
            <<191,236,240,92,222,155,126,28>>, <<191,237,188,219,19,54,133,38>>, <<191,238,107,112,186,122,36,59>>, <<191,238,251,110,62,54,157,11>>,
            <<191,239,108,66,205,84,52,145>>, <<191,239,189,124,237,121,16,40>>, <<191,239,238,202,237,42,83,191>>, <<191,239,255,251,53,245,166,221>>,
            <<191,239,240,252,126,80,127,250>>, <<191,239,193,221,218,251,24,255>>, <<191,239,114,206,175,213,132,138>>, <<191,239,4,30,128,54,39,241>>,
            <<191,238,118,60,158,241,157,174>>, <<191,237,201,183,190,100,56,35>>, <<191,236,255,61,96,238,1,80>>, <<191,236,23,153,42,113,112,227>>,
            <<191,235,19,180,19,132,52,48>>, <<191,233,244,147,127,32,114,128>>, <<191,232,187,88,51,193,139,36>>, <<191,231,105,61,56,245,102,163>>,
            <<191,229,255,150,154,133,250,82>>, <<191,228,127,208,18,121,207,11>>, <<191,226,235,107,155,67,151,124>>, <<191,225,67,255,235,144,139,216>>,
            <<191,223,22,109,186,120,16,148>>, <<191,219,133,151,130,8,68,245>>, <<191,215,217,19,65,90,169,119>>, <<191,212,20,146,226,172,166,7>>,
            <<191,208,59,224,111,151,192,155>>, <<191,200,165,180,130,238,67,1>>, <<191,192,186,222,58,188,148,141>>, <<191,177,126,104,254,52,86,60>>,
            <<191,119,87,214,150,124,42,138>>, <<63,173,41,203,155,56,135,244>>, <<63,190,144,158,177,187,133,150>>, <<63,199,54,205,6,221,96,133>>,
            <<63,207,13,241,203,136,224,227>>, <<63,211,98,237,126,105,245,17>>, <<63,215,43,98,173,21,33,71>>, <<63,218,220,138,109,140,11,132>>,
            <<63,222,114,174,43,64,141,160>>, <<63,224,245,25,62,172,225,71>>, <<63,226,159,205,99,180,171,14>>, <<63,228,55,198,93,147,246,193>>,
            <<63,229,187,105,219,216,51,113>>, <<63,231,41,50,1,107,90,214>>, <<63,232,127,174,236,173,183,62>>, <<63,233,189,136,41,116,87,99>>,
            <<63,234,225,126,11,119,50,172>>, <<63,235,234,106,239,211,36,175>>, <<63,236,215,68,100,92,102,149>>, <<63,237,167,28,51,152,32,104>>,
            <<63,238,89,33,84,79,248,4>>, <<63,238,236,160,187,206,115,127>>, <<63,239,97,6,17,240,186,78>>, <<63,239,181,220,70,88,182,116>>,
            <<63,239,234,206,6,41,113,170>>, <<63,239,255,166,17,215,87,42>>, <<63,239,244,79,114,181,252,25>>, <<63,239,200,213,144,13,152,167>>,
            <<63,239,125,100,35,162,254,77>>, <<63,239,18,71,13,189,143,84>>, <<63,238,135,234,8,215,135,247>>, <<63,237,222,216,61,69,36,143>>,
            <<63,237,23,187,181,63,223,159>>, <<63,236,51,92,177,226,86,193>>, <<63,235,50,160,225,192,254,55>>, <<63,234,22,138,121,233,244,88>>,
            <<63,232,224,55,50,52,165,248>>, <<63,231,144,223,37,230,23,225>>, <<63,230,41,211,153,202,250,201>>, <<63,228,172,125,169,3,88,228>>,
            <<63,227,26,92,217,212,214,19>>, <<63,225,117,5,155,240,208,160>>, <<63,223,124,63,99,101,60,234>>, <<63,219,238,201,11,220,97,148>>,
            <<63,216,69,58,223,249,230,135>>, <<63,212,131,67,207,140,111,145>>, <<63,208,172,171,87,37,44,151>>, <<63,201,138,155,102,28,47,45>>,
            <<63,193,162,47,250,193,176,88>>, <<63,179,80,16,236,161,1,96>>, <<63,138,66,171,144,102,151,74>>, <<191,169,133,102,97,129,93,179>>,
            <<191,188,192,230,96,77,240,16>>, <<191,198,81,23,52,183,189,17>>, <<191,206,43,73,87,79,50,53>>, <<191,210,243,145,238,3,135,160>>,
            <<191,214,190,111,197,150,59,194>>, <<191,218,114,109,193,242,214,176>>, <<191,222,11,210,116,36,87,191>>, <<191,224,195,127,150,202,139,142>>,
            <<191,226,112,57,210,7,222,167>>, <<191,228,10,104,187,150,232,35>>, <<191,229,144,111,201,213,217,37>>, <<191,231,0,198,184,156,16,221>>,
            <<191,232,89,251,19,190,131,77>>, <<191,233,154,177,171,164,128,165>>, <<191,234,193,167,242,117,70,73>>, <<191,235,205,181,64,127,220,178>>,
            <<191,236,189,203,254,150,159,32>>, <<191,237,144,250,181,50,167,177>>, <<191,238,70,108,255,78,10,68>>, <<191,238,221,108,96,0,254,238>>,
            <<191,239,85,96,250,10,242,137>>, <<191,239,173,210,40,142,228,241>>, <<191,239,230,102,248,105,144,73>>, <<191,239,254,230,129,167,57,238>>,
            <<191,239,247,56,32,191,78,201>>, <<191,239,207,99,143,92,23,55>>, <<191,239,135,144,220,149,184,5>>, <<191,239,32,8,68,168,57,212>>,
            <<191,238,153,49,232,77,38,7>>, <<191,237,243,149,100,1,221,114>>, <<191,237,47,217,71,163,189,173>>, <<191,236,78,194,110,235,148,220>>,
            <<191,235,81,51,59,112,162,33>>, <<191,234,56,42,176,250,85,65>>, <<191,233,4,195,117,5,220,178>>, <<191,231,184,50,178,129,74,223>>,
            <<191,230,83,198,226,218,103,180>>, <<191,228,216,230,125,153,185,14>>, <<191,227,73,14,143,220,79,133>>, <<191,225,165,209,61,22,173,40>>,
            <<191,223,225,168,85,69,63,96>>, <<191,220,87,157,175,92,16,112>>, <<191,216,177,17,198,108,29,76>>, <<191,212,241,176,131,149,113,108>>,
            <<191,209,29,62,201,207,67,205>>, <<191,202,111,45,86,246,156,193>>, <<191,194,137,71,21,85,219,138>>, <<191,181,33,120,159,231,226,148>>,
            <<191,148,108,138,63,137,220,152>>, <<63,165,224,172,70,200,154,79>>, <<63,186,240,206,109,189,114,218>>, <<63,197,107,23,41,198,108,85>>,
            <<63,205,72,60,140,181,183,5>>, <<63,210,131,247,86,23,252,28>>, <<63,214,81,49,57,161,49,199>>, <<63,218,7,249,33,6,18,103>>,
            <<63,221,164,146,207,77,142,176>>, <<63,224,145,174,46,23,199,195>>, <<63,226,64,104,237,170,40,95>>, <<63,227,220,200,114,181,84,43>>,
            <<63,229,101,45,255,196,44,14>>, <<63,230,216,14,238,180,12,226>>, <<63,232,51,246,61,158,199,105>>, <<63,233,119,134,6,0,122,129>>,
            <<63,234,161,120,220,160,124,19>>, <<63,235,176,163,24,218,144,151>>, <<63,236,163,244,1,255,235,111>>, <<63,237,122,118,225,160,159,246>>,
            <<63,238,51,83,249,169,139,198>>, <<63,238,205,209,93,95,150,184>>, <<63,239,73,83,172,93,123,108>>, <<63,239,165,94,174,216,145,63>>,
            <<63,239,225,149,210,143,19,49>>, <<63,239,253,188,135,226,106,180>>, <<63,239,249,182,126,191,200,167>>, <<63,239,213,135,195,25,215,166>>,
            <<63,239,145,84,184,214,210,171>>, <<63,239,45,97,247,55,37,174>>, <<63,238,170,20,3,217,106,136>>, <<63,238,7,238,237,161,6,184>>,
            <<63,237,71,149,199,229,87,83>>, <<63,236,105,202,6,110,154,211>>, <<63,235,111,106,186,229,250,77>>, <<63,234,89,115,180,124,21,25>>,
            <<63,233,40,252,130,167,196,168>>, <<63,231,223,55,91,252,3,196>>, <<63,230,125,111,234,47,42,140>>, <<63,229,5,9,252,138,27,229>>,
            <<63,227,119,128,34,13,255,143>>, <<63,225,214,98,44,185,22,116>>, <<63,224,35,83,159,105,43,38>>, <<63,220,192,20,15,224,251,104>>,
            <<63,217,28,150,142,9,95,234>>, <<63,213,95,215,143,134,177,229>>, <<63,209,141,153,81,45,16,52>>, <<63,203,83,103,93,78,24,91>>,
            <<63,195,112,32,137,231,175,161>>, <<63,182,242,154,12,44,248,243>>, <<63,155,183,122,201,156,230,58>>, <<191,162,59,169,105,38,191,88>>,
            <<191,185,32,92,225,137,166,52>>, <<191,196,132,207,226,250,247,118>>, <<191,204,100,206,94,221,194,225>>, <<191,210,20,31,41,212,100,186>>,
            <<191,213,227,168,116,138,16,249>>, <<191,217,157,45,236,211,94,136>>, <<191,221,60,240,148,31,93,72>>, <<191,224,95,165,170,68,74,8>>,
            <<191,226,16,91,85,162,196,81>>, <<191,227,174,230,26,173,230,195>>, <<191,229,57,165,13,128,189,242>>, <<191,230,175,11,43,31,49,141>>,
            <<191,232,13,160,232,192,76,102>>, <<191,233,84,5,173,128,233,66>>, <<191,234,128,241,53,2,165,165>>, <<191,235,147,52,217,146,168,214>>,
            <<191,236,137,188,196,139,252,183>>, <<191,237,99,145,3,195,136,148>>, <<191,238,31,214,130,230,150,11>>, <<191,238,189,207,231,208,247,16>>,
            <<191,239,60,222,80,253,136,200>>, <<191,239,156,129,245,81,22,225>>, <<191,239,220,90,164,159,59,251>>, <<191,239,252,40,40,103,237,140>>,
            <<191,239,251,202,132,108,79,142>>, <<191,239,219,66,22,217,245,224>>, <<191,239,154,175,151,236,44,63>>, <<191,239,58,83,249,3,166,10>>,
            <<191,238,186,144,35,85,174,169>>, <<191,238,27,228,150,116,147,129>>, <<191,237,94,240,231,19,60,118>>, <<191,236,132,115,30,134,1,65>>,
            <<191,235,141,70,251,162,14,52>>, <<191,234,122,101,21,187,179,187>>, <<191,233,76,225,226,161,200,64>>, <<191,232,5,236,160,145,148,83>>,
            <<191,230,166,206,37,59,41,164>>, <<191,229,48,231,147,8,70,2>>, <<191,227,165,176,245,243,38,178>>, <<191,226,6,183,201,82,13,251>>,
            <<191,224,85,157,104,19,185,134>>, <<191,221,40,42,209,254,119,38>>, <<191,217,135,199,209,58,178,201>>, <<191,213,205,183,133,6,180,154>>,
            <<191,209,253,185,119,147,85,120>>, <<191,204,55,70,130,22,215,222>>, <<191,196,86,185,88,178,238,13>>, <<191,184,195,111,38,125,190,217>>,
            <<191,161,129,7,146,165,189,130>>, <<63,157,44,211,207,75,152,210>>, <<63,183,79,151,196,92,96,227>>, <<63,195,158,68,94,51,51,54>>,
            <<63,203,129,1,194,44,236,24>>, <<63,209,164,10,221,50,145,229>>, <<63,213,117,214,226,155,193,114>>, <<63,217,50,13,136,136,103,96>>,
            <<63,220,212,237,27,69,38,52>>, <<63,224,45,102,177,183,5,115>>, <<63,225,224,17,169,194,189,75>>, <<63,227,128,194,76,27,18,100>>,
            <<63,229,13,213,131,213,218,147>>, <<63,230,133,187,246,69,232,204>>, <<63,231,230,251,148,160,156,51>>, <<63,233,48,49,24,56,29,219>>,
            <<63,234,96,17,103,204,37,172>>, <<63,235,117,106,228,137,202,158>>, <<63,236,111,38,157,107,73,16>>, <<63,237,76,73,103,195,7,151>>,
            <<63,238,11,244,219,215,66,212>>, <<63,238,173,104,52,144,157,46>>, <<63,239,48,1,17,90,100,43>>, <<63,239,147,60,25,113,219,211>>,
            <<63,239,214,181,127,255,237,25>>, <<63,239,250,41,104,120,164,0>>, <<63,239,253,116,42,219,120,140>>, <<63,239,224,146,119,143,175,196>>,
            <<63,239,163,161,90,184,211,209>>, <<63,239,70,222,30,255,224,111>>, <<63,238,202,166,15,238,138,208>>, <<63,238,47,118,28,26,158,252>>,
            <<63,237,117,234,87,127,222,26>>, <<63,236,158,189,94,134,169,54>>, <<63,235,170,199,154,85,88,86>>, <<63,234,154,254,103,41,46,181>>,
            <<63,233,112,115,29,145,124,66>>, <<63,232,44,81,255,133,118,28>>, <<63,230,207,225,10,104,254,91>>, <<63,229,92,126,175,48,106,155>>,
            <<63,227,211,160,113,236,95,22>>, <<63,226,54,209,114,33,10,196>>, <<63,224,135,176,221,98,27,132>>, <<63,221,143,224,155,133,205,14>>,
            <<63,217,242,164,43,127,10,79>>, <<63,214,59,78,246,168,151,125>>, <<63,210,109,157,200,24,178,198>>, <<63,205,26,199,207,116,45,127>>,
            <<63,197,61,14,130,202,26,208>>, <<63,186,147,241,228,229,194,74>>, <<63,165,38,23,137,83,160,202>>, <<191,149,225,243,196,51,221,144>>,
            <<191,181,126,133,31,244,231,202>>, <<191,194,183,119,154,48,199,204>>, <<191,202,156,217,172,66,62,105>>, <<191,209,51,187,228,244,122,159>>,
            <<191,213,7,189,241,19,119,138>>, <<191,216,198,153,88,110,28,153>>, <<191,220,108,137,190,173,95,46>>, <<191,223,245,227,215,24,102,5>>,
            <<191,225,175,140,138,162,236,207>>, <<191,227,82,93,160,112,238,213>>, <<191,228,225,191,244,120,130,80>>, <<191,230,92,33,217,139,161,107>>,
            <<191,231,192,6,193,199,74,41>>, <<191,233,12,8,189,80,155,242>>, <<191,234,62,217,226,82,149,210>>, <<191,235,87,69,156,210,158,16>>,
            <<191,236,84,49,229,9,244,36>>, <<191,237,52,160,91,11,195,190>>, <<191,237,247,175,70,154,244,224>>, <<191,238,156,154,122,46,9,32>>,
            <<191,239,34,188,24,60,216,206>>, <<191,239,137,141,58,17,242,139>>, <<191,239,208,166,119,119,116,64>>, <<191,239,247,192,78,183,57,3>>,
            <<191,239,254,179,108,133,159,143>>, <<191,239,229,120,211,142,161,181>>, <<191,239,172,41,227,125,107,152>>, <<191,239,83,0,63,119,106,103>>,
            <<191,238,218,85,148,36,113,143>>, <<191,238,66,163,61,126,81,135>>, <<191,237,140,129,204,194,135,61>>, <<191,236,184,168,111,0,216,136>>,
            <<191,235,199,236,52,225,24,184>>, <<191,234,187,63,60,89,96,5>>, <<191,233,147,175,189,44,108,245>>, <<191,232,82,102,249,36,183,47>>,
            <<191,230,248,168,17,29,224,180>>, <<191,229,135,206,192,9,52,199>>, <<191,228,1,77,253,51,130,80>>, <<191,226,102,174,135,44,225,61>>,
            <<191,224,185,141,88,200,248,201>>, <<191,221,247,52,19,138,229,68>>, <<191,218,93,42,57,111,192,32>>, <<191,214,168,156,119,240,149,190>>,
            <<191,210,221,68,206,154,246,39>>, <<191,205,253,232,80,192,233,55>>, <<191,198,35,29,10,32,210,16>>, <<191,188,100,28,62,130,59,27>>,
            <<191,168,202,225,41,161,14,5>>, <<63,141,45,149,227,224,187,10>>, <<63,179,173,42,255,20,152,9>>, <<63,193,208,108,150,141,160,8>>,
            <<63,201,184,89,19,237,218,69>>, <<63,208,195,51,182,159,8,147>>, <<63,212,153,95,14,27,154,197>>, <<63,216,90,210,193,228,75,64>>,
            <<63,220,3,199,217,133,117,166>>, <<63,223,144,143,255,37,166,90>>, <<63,225,126,204,153,161,242,88>>, <<63,227,35,184,177,251,77,130>>,
            <<63,228,181,100,242,6,157,98>>, <<63,230,50,61,95,76,217,12>>, <<63,231,152,194,241,196,82,49>>, <<63,232,231,141,21,11,126,235>>,
            <<63,234,29,75,19,15,64,20>>, <<63,235,56,197,102,175,145,90>>, <<63,236,56,222,245,14,161,209>>, <<63,237,28,150,44,78,124,2>>,
            <<63,237,227,6,6,157,88,186>>, <<63,238,139,102,240,140,12,69>>, <<63,239,21,15,145,198,172,21>>, <<63,239,127,117,119,101,171,208>>,
            <<63,239,202,45,159,44,78,27>>, <<63,239,244,236,227,40,12,17>>, <<63,239,255,136,69,68,248,143>>, <<63,239,233,245,26,139,0,57>>,
            <<63,239,180,73,21,216,142,78>>, <<63,239,94,186,50,15,205,16>>, <<63,238,233,158,123,204,115,124>>, <<63,238,85,107,186,216,179,195>>,
            <<63,237,162,182,251,184,100,141>>, <<63,236,210,51,249,193,114,65>>, <<63,235,228,180,106,88,139,76>>, <<63,234,219,39,42,7,111,160>>,
            <<63,233,182,151,76,65,128,28>>, <<63,232,120,43,14,199,231,81>>, <<63,231,33,34,177,187,97,254>>, <<63,229,178,215,53,133,145,146>>,
            <<63,228,46,184,255,221,203,70>>, <<63,226,150,78,105,69,202,104>>, <<63,224,235,50,52,115,201,116>>, <<63,222,94,35,226,104,94,176>>,
            <<63,218,199,88,152,197,20,11>>, <<63,215,21,158,157,88,226,9>>, <<63,211,76,173,23,195,180,163>>, <<63,206,224,165,18,154,38,254>>,
            <<63,199,8,225,241,149,124,185>>, <<63,190,51,232,43,149,158,17>>, <<63,172,111,88,85,66,100,57>>, <<191,125,45,198,105,128,213,124>>,
            <<191,177,219,143,109,106,79,65>>, <<191,192,233,38,83,178,237,40>>, <<191,200,211,130,241,37,130,158>>, <<191,208,82,115,200,117,92,79>>,
            <<191,212,42,187,168,199,64,55>>, <<191,215,238,187,43,92,160,210>>, <<191,219,154,168,200,53,105,55>>, <<191,223,42,211,44,149,95,170>>,
            <<191,225,77,210,120,226,6,203>>, <<191,226,244,212,27,219,203,170>>, <<191,228,136,197,16,5,8,43>>, <<191,230,8,15,18,221,102,152>>,
            <<191,231,113,48,167,46,89,184>>, <<191,232,194,190,152,190,243,221>>, <<191,233,251,101,105,157,183,248>>, <<191,235,25,234,167,145,114,119>>,
            <<191,236,29,46,40,89,91,5>>, <<191,237,4,43,43,126,248,69>>, <<191,237,205,249,96,149,154,46>>, <<191,238,121,205,208,224,32,60>>,
            <<191,239,6,251,171,114,5,44>>, <<191,239,116,244,242,254,48,162>>, <<191,239,195,75,12,164,222,72>>, <<191,239,241,175,47,49,23,192>>,
            <<191,239,255,242,178,85,159,103>>, <<191,239,238,7,61,153,208,82>>, <<191,239,187,254,214,199,41,52>>, <<191,239,106,11,207,201,14,166>>,
            <<191,238,248,128,148,16,227,207>>, <<191,238,103,207,85,177,138,115>>, <<191,237,184,137,154,133,120,25>>, <<191,236,235,95,169,211,13,175>>,
            <<191,236,1,31,219,2,66,61>>, <<191,234,250,181,198,22,38,187>>, <<191,233,217,41,86,186,137,74>>, <<191,232,157,157,194,212,152,43>>,
            <<191,231,73,80,101,161,9,65>>, <<191,229,221,151,128,134,160,203>>, <<191,228,91,224,226,221,182,53>>, <<191,226,197,176,122,7,156,173>>,
            <<191,225,28,158,203,70,240,61>>, <<191,222,196,174,177,196,119,131>>, <<191,219,49,45,232,90,242,65>>, <<191,215,130,83,252,86,35,208>>,
            <<191,211,187,213,49,13,59,224>>, <<191,207,194,251,34,232,162,67>>, <<191,199,238,90,60,251,159,180>>, <<191,192,1,167,210,206,211,249>>,
            <<191,176,9,184,119,127,94,251>>, <<61,76,36,48,169,119,160,152>>, <<63,176,9,184,119,127,79,148>>, <<63,192,1,167,210,206,204,81>>,
            <<63,199,238,90,60,251,152,31>>, <<63,207,194,251,34,232,185,201>>, <<63,211,187,213,49,13,71,109>>, <<63,215,130,83,252,86,61,253>>,
            <<63,219,49,45,232,90,238,194>>, <<63,222,196,174,177,196,116,33>>, <<63,225,28,158,203,70,238,156>>, <<63,226,197,176,122,7,155,29>>,
            <<63,228,91,224,226,221,193,16>>, <<63,229,221,151,128,134,159,98>>, <<63,231,73,80,101,161,13,107>>, <<63,232,157,157,194,212,150,240>>,
            <<63,233,217,41,86,186,136,39>>, <<63,234,250,181,198,22,37,178>>, <<63,236,1,31,219,2,73,12>>, <<63,236,235,95,169,211,12,220>>,
            <<63,237,184,137,154,133,119,98>>, <<63,238,103,207,85,177,137,217>>, <<63,238,248,128,148,16,229,86>>, <<63,239,106,11,207,201,15,206>>,
            <<63,239,187,254,214,199,43,3>>, <<63,239,238,7,61,153,208,49>>, <<63,239,255,242,178,85,159,101>>, <<63,239,241,175,47,49,23,222>>,
            <<63,239,195,75,12,164,222,132>>, <<63,239,116,244,242,254,46,13>>, <<63,239,6,251,171,114,5,164>>, <<63,238,121,205,208,224,32,211>>,
            <<63,237,205,249,96,149,151,248>>, <<63,237,4,43,43,126,249,22>>, <<63,236,29,46,40,89,91,241>>, <<63,235,25,234,167,145,106,251>>,
            <<63,233,251,101,105,157,185,24>>, <<63,232,194,190,152,190,245,22>>, <<63,231,113,48,167,46,91,8>>, <<63,230,8,15,18,221,98,49>>,
            <<63,228,136,197,16,5,3,131>>, <<63,226,244,212,27,219,192,84>>, <<63,225,77,210,120,226,8,107>>, <<63,223,42,211,44,149,99,9>>,
            <<63,219,154,168,200,53,108,178>>, <<63,215,238,187,43,92,164,102>>, <<63,212,42,187,168,199,37,130>>, <<63,208,82,115,200,117,96,10>>,
            <<63,200,211,130,241,37,138,48>>, <<63,192,233,38,83,178,213,22>>, <<63,177,219,143,109,106,94,167>>, <<63,125,45,198,105,121,204,124>>,
            <<191,172,111,88,85,67,69,2>>, <<191,190,51,232,43,149,142,190>>, <<191,199,8,225,241,149,117,34>>, <<191,206,224,165,18,154,31,129>>,
            <<191,211,76,173,23,195,192,55>>, <<191,215,21,158,157,88,237,92>>, <<191,218,199,88,152,197,31,19>>, <<191,222,94,35,226,104,91,75>>,
            <<191,224,235,50,52,115,199,209>>, <<191,226,150,78,105,69,200,214>>, <<191,228,46,184,255,221,201,199>>, <<191,229,178,215,53,133,155,234>>,
            <<191,231,33,34,177,187,96,168>>, <<191,232,120,43,14,199,230,19>>, <<191,233,182,151,76,65,131,185>>, <<191,234,219,39,42,7,110,147>>,
            <<191,235,228,180,106,88,146,49>>, <<191,236,210,51,249,193,120,94>>, <<191,237,162,182,251,184,99,211>>, <<191,238,85,107,186,216,179,37>>,
            <<191,238,233,158,123,204,114,253>>, <<191,239,94,186,50,15,206,67>>, <<191,239,180,73,21,216,143,33>>, <<191,239,233,245,26,139,0,21>>,
            <<191,239,255,136,69,68,248,160>>, <<191,239,244,236,227,40,12,42>>, <<191,239,202,45,159,44,78,84>>, <<191,239,127,117,119,101,172,40>>,
            <<191,239,21,15,145,198,168,188>>, <<191,238,139,102,240,140,12,216>>, <<191,237,227,6,6,157,89,107>>, <<191,237,28,150,44,78,121,125>>,
            <<191,236,56,222,245,14,162,186>>, <<191,235,56,197,102,175,137,244>>, <<191,234,29,75,19,15,55,243>>, <<191,232,231,141,21,11,128,33>>,
            <<191,231,152,194,241,196,83,126>>, <<191,230,50,61,95,76,218,112>>, <<191,228,181,100,242,6,152,194>>, <<191,227,35,184,177,251,72,164>>,
            <<191,225,126,204,153,161,243,245>>, <<191,223,144,143,255,37,155,202>>, <<191,220,3,199,217,133,121,30>>, <<191,216,90,210,193,228,78,209>>,
            <<191,212,153,95,14,27,128,32>>, <<191,208,195,51,182,158,237,106>>, <<191,201,184,89,19,237,225,212>>, <<191,193,208,108,150,141,167,173>>,
            <<191,179,173,42,255,20,103,157>>, <<191,141,45,149,227,225,54,129>>, <<63,168,202,225,41,161,238,226>>, <<63,188,100,28,62,130,43,196>>,
            <<63,198,35,29,10,32,202,118>>, <<63,205,253,232,80,192,225,183>>, <<63,210,221,68,206,154,242,119>>, <<63,214,168,156,119,240,161,25>>,
            <<63,218,93,42,57,111,203,49>>, <<63,221,247,52,19,138,225,219>>, <<63,224,185,141,88,200,253,246>>, <<63,226,102,174,135,44,223,169>>,
            <<63,228,1,77,253,51,128,207>>, <<63,229,135,206,192,9,63,48>>, <<63,230,248,168,17,29,234,128>>, <<63,232,82,102,249,36,181,238>>,
            <<63,233,147,175,189,44,107,205>>, <<63,234,187,63,60,89,99,92>>, <<63,235,199,236,52,225,23,195>>, <<63,236,184,168,111,0,219,53>>,
            <<63,237,140,129,204,194,137,146>>, <<63,238,66,163,61,126,80,230>>, <<63,238,218,85,148,36,113,12>>, <<63,239,83,0,63,119,106,2>>,
            <<63,239,172,41,227,125,108,117>>, <<63,239,229,120,211,142,162,50>>, <<63,239,254,179,108,133,159,134>>, <<63,239,247,192,78,183,56,189>>,
            <<63,239,208,166,119,119,116,117>>, <<63,239,137,141,58,17,242,223>>, <<63,239,34,188,24,60,213,143>>, <<63,238,156,154,122,46,5,7>>,
            <<63,237,247,175,70,154,245,141>>, <<63,237,52,160,91,11,196,136>>, <<63,236,84,49,229,9,241,82>>, <<63,235,87,69,156,210,159,17>>,
            <<63,234,62,217,226,82,146,89>>, <<63,233,12,8,189,80,152,43>>, <<63,231,192,6,193,199,75,116>>, <<63,230,92,33,217,139,162,204>>,
            <<63,228,225,191,244,120,131,198>>, <<63,227,82,93,160,112,227,157>>, <<63,225,175,140,138,162,231,192>>, <<63,223,245,227,215,24,105,93>>,
            <<63,220,108,137,190,173,84,77>>, <<63,216,198,153,88,110,32,40>>, <<63,213,7,189,241,19,123,47>>, <<63,209,51,187,228,244,95,132>>,
            <<63,202,156,217,172,66,69,246>>, <<63,194,183,119,154,48,207,111>>, <<63,181,126,133,31,244,247,44>>, <<63,149,225,243,196,51,27,89>>,
            <<191,165,38,23,137,83,129,242>>, <<191,186,147,241,228,229,242,152>>, <<191,197,61,14,130,202,50,194>>, <<191,205,26,199,207,116,37,251>>,
            <<191,210,109,157,200,24,175,20>>, <<191,214,59,78,246,168,147,223>>, <<191,217,242,164,43,127,36,9>>, <<191,221,143,224,155,133,230,4>>,
            <<191,224,135,176,221,98,25,221>>, <<191,226,54,209,114,33,15,194>>, <<191,227,211,160,113,236,93,146>>, <<191,229,92,126,175,48,105,43>>,
            <<191,230,207,225,10,105,8,57>>, <<191,232,44,81,255,133,116,217>>, <<191,233,112,115,29,145,123,22>>, <<191,234,154,254,103,41,45,162>>,
            <<191,235,170,199,154,85,91,99>>, <<191,236,158,189,94,134,168,89>>, <<191,237,117,234,87,127,224,121>>, <<191,238,47,118,28,26,161,0>>,
            <<191,238,202,166,15,238,138,73>>, <<191,239,70,222,30,255,224,6>>, <<191,239,163,161,90,184,211,135>>, <<191,239,224,146,119,143,176,255>>,
            <<191,239,253,116,42,219,120,229>>, <<191,239,250,41,104,120,164,19>>, <<191,239,214,181,127,255,236,125>>, <<191,239,147,60,25,113,220,35>>,
            <<191,239,48,1,17,90,100,154>>, <<191,238,173,104,52,144,153,45>>, <<191,238,11,244,219,215,67,126>>, <<191,237,76,73,103,195,8,94>>,
            <<191,236,111,38,157,107,73,243>>, <<191,235,117,106,228,137,199,128>>, <<191,234,96,17,103,204,34,60>>, <<191,233,48,49,24,56,26,29>>,
            <<191,231,230,251,148,160,152,41>>, <<191,230,133,187,246,69,234,42>>, <<191,229,13,213,131,213,220,7>>, <<191,227,128,194,76,27,19,235>>,
            <<191,225,224,17,169,194,177,160>>, <<191,224,45,102,177,183,7,29>>, <<191,220,212,237,27,69,41,165>>, <<191,217,50,13,136,136,92,55>>,
            <<191,213,117,214,226,155,197,21>>, <<191,209,164,10,221,50,149,154>>, <<191,203,129,1,194,44,181,32>>, <<191,195,158,68,94,51,58,214>>,
            <<191,183,79,151,196,92,112,66>>, <<191,157,44,211,207,75,214,136>>, <<63,161,129,7,146,165,158,168>>, <<63,184,195,111,38,126,46,226>>,
            <<63,196,86,185,88,179,6,7>>, <<63,204,55,70,130,22,239,141>>, <<63,209,253,185,119,147,81,196>>, <<63,213,205,183,133,6,176,249>>,
            <<63,217,135,199,209,58,175,63>>, <<63,221,40,42,209,254,144,52>>, <<63,224,85,157,104,19,183,222>>, <<63,226,6,183,201,82,12,99>>,
            <<63,227,165,176,245,243,43,125>>, <<63,229,48,231,147,8,68,144>>, <<63,230,166,206,37,59,40,71>>, <<63,232,5,236,160,145,157,158>>,
            <<63,233,76,225,226,161,199,18>>, <<63,234,122,101,21,187,178,165>>, <<63,235,141,70,251,162,13,56>>, <<63,236,132,115,30,134,0,97>>,
            <<63,237,94,240,231,19,66,12>>, <<63,238,27,228,150,116,149,144>>, <<63,238,186,144,35,85,176,91>>, <<63,239,58,83,249,3,165,159>>,
            <<63,239,154,175,151,236,43,241>>, <<63,239,219,66,22,217,245,178>>, <<63,239,251,202,132,108,80,2>>, <<63,239,252,40,40,103,237,155>>,
            <<63,239,220,90,164,159,60,41>>, <<63,239,156,129,245,81,21,240>>, <<63,239,60,222,80,253,137,51>>, <<63,238,189,207,231,208,245,96>>,
            <<63,238,31,214,130,230,145,76>>, <<63,237,99,145,3,195,137,88>>, <<63,236,137,188,196,139,253,150>>, <<63,235,147,52,217,146,169,208>>,
            <<63,234,128,241,53,2,166,186>>, <<63,233,84,5,173,128,224,169>>, <<63,232,13,160,232,192,72,101>>, <<63,230,175,11,43,31,45,68>>,
            <<63,229,57,165,13,128,191,100>>, <<63,227,174,230,26,173,232,72>>, <<63,226,16,91,85,162,197,233>>, <<63,224,95,165,170,68,61,241>>,
            <<63,221,60,240,148,31,96,182>>, <<63,217,157,45,236,211,98,17>>, <<63,213,227,168,116,138,20,153>>, <<63,210,20,31,41,212,89,20>>,
            <<63,204,100,206,94,221,171,51>>, <<63,196,132,207,226,250,191,231>>, <<63,185,32,92,225,137,181,144>>, <<63,162,59,169,105,38,222,50>>,
            <<191,155,183,122,201,156,168,131>>, <<191,182,242,154,12,44,233,148>>, <<191,195,112,32,137,231,231,66>>, <<191,203,83,103,93,78,16,209>>,
            <<191,209,141,153,81,45,27,225>>, <<191,213,95,215,143,134,174,66>>, <<191,217,28,150,142,9,92,93>>, <<191,220,192,20,15,224,247,246>>,
            <<191,224,35,83,159,105,55,76>>, <<191,225,214,98,44,185,20,218>>, <<191,227,119,128,34,13,254,7>>, <<191,229,5,9,252,138,26,112>>,
            <<191,230,125,111,234,47,46,221>>, <<191,231,223,55,91,252,7,207>>, <<191,233,40,252,130,167,205,90>>, <<191,234,89,115,180,124,20,1>>,
            <<191,235,111,106,186,229,249,79>>, <<191,236,105,202,6,110,153,240>>, <<191,237,71,149,199,229,86,139>>, <<191,238,7,238,237,161,11,148>>,
            <<191,238,170,20,3,217,105,251>>, <<191,239,45,97,247,55,39,12>>, <<191,239,145,84,184,214,210,90>>, <<191,239,213,135,195,25,215,116>>,
            <<191,239,249,182,126,191,201,52>>, <<191,239,253,188,135,226,106,95>>, <<191,239,225,149,210,143,19,91>>, <<191,239,165,94,174,216,145,136>>,
            <<191,239,73,83,172,93,123,212>>, <<191,238,205,209,93,95,149,19>>, <<191,238,51,83,249,169,137,197>>, <<191,237,122,118,225,160,154,124>>,
            <<191,236,163,244,1,255,236,75>>, <<191,235,176,163,24,218,145,143>>, <<191,234,161,120,220,160,125,37>>, <<191,233,119,134,6,0,123,172>>,
            <<191,232,51,246,61,158,190,53>>, <<191,230,216,14,238,180,14,60>>, <<191,229,101,45,255,196,45,125>>, <<191,227,220,200,114,181,79,105>>,
            <<191,226,64,104,237,170,41,245>>, <<191,224,145,174,46,23,187,185>>, <<191,221,164,146,207,77,117,191>>, <<191,218,7,249,33,6,21,237>>,
            <<191,214,81,49,57,161,53,101>>, <<191,210,131,247,86,23,255,206>>, <<191,205,72,60,140,181,159,98>>, <<191,197,107,23,41,198,84,100>>,
            <<191,186,240,206,109,189,66,142>>, <<191,165,224,172,70,200,185,39>>, <<63,148,108,138,63,137,158,222>>, <<63,181,33,120,159,231,211,51>>,
            <<63,194,137,71,21,85,211,231>>, <<63,202,111,45,86,246,211,211>>, <<63,209,29,62,201,207,64,21>>, <<63,212,241,176,131,149,109,199>>,
            <<63,216,177,17,198,108,40,128>>, <<63,220,87,157,175,92,12,250>>, <<63,223,225,168,85,69,87,199>>, <<63,225,165,209,61,22,184,229>>,
            <<63,227,73,14,143,220,77,250>>, <<63,228,216,230,125,153,183,152>>, <<63,230,83,198,226,218,102,83>>, <<63,231,184,50,178,129,78,243>>,
            <<63,233,4,195,117,5,224,123>>, <<63,234,56,42,176,250,88,188>>, <<63,235,81,51,59,112,161,32>>, <<63,236,78,194,110,235,147,245>>,
            <<63,237,47,217,71,163,188,226>>, <<63,237,243,149,100,1,226,102>>, <<63,238,153,49,232,77,42,37>>, <<63,239,32,8,68,168,57,97>>,
            <<63,239,135,144,220,149,183,177>>, <<63,239,207,99,143,92,23,224>>, <<63,239,247,56,32,191,78,179>>, <<63,239,254,230,129,167,57,179>>,
            <<63,239,230,102,248,105,143,45>>, <<63,239,173,210,40,142,229,55>>, <<63,239,85,96,250,10,242,237>>, <<63,238,221,108,96,0,255,112>>,
            <<63,238,70,108,255,78,8,77>>, <<63,237,144,250,181,50,165,95>>, <<63,236,189,203,254,150,159,249>>, <<63,235,205,181,64,127,217,176>>,
            <<63,234,193,167,242,117,71,88>>, <<63,233,154,177,171,164,129,205>>, <<63,232,89,251,19,190,122,45>>, <<63,231,0,198,184,156,7,21>>,
            <<63,229,144,111,201,213,218,146>>, <<63,228,10,104,187,150,233,164>>, <<63,226,112,57,210,7,217,177>>, <<63,224,195,127,150,202,141,50>>,
            <<63,222,11,210,116,36,62,230>>, <<63,218,114,109,193,242,218,51>>, <<63,214,190,111,197,150,63,93>>, <<63,210,243,145,238,3,139,80>>,
            <<63,206,43,73,87,79,57,181>>, <<63,198,81,23,52,183,165,40>>, <<63,188,192,230,96,77,191,205>>, <<63,169,133,102,97,129,124,136>>,
            <<191,138,66,171,144,104,27,200>>, <<191,179,80,16,236,160,241,252>>, <<191,193,162,47,250,193,168,179>>, <<191,201,138,155,102,28,102,83>>,
            <<191,208,172,171,87,37,71,195>>, <<191,212,131,67,207,140,107,234>>, <<191,216,69,58,223,249,226,245>>, <<191,219,238,201,11,220,108,129>>,
            <<191,223,124,63,99,101,57,142>>, <<191,225,117,5,155,240,220,106>>, <<191,227,26,92,217,212,212,135>>, <<191,228,172,125,169,3,87,107>>,
            <<191,230,41,211,153,202,249,100>>, <<191,231,144,223,37,230,22,147>>, <<191,232,224,55,50,52,174,210>>, <<191,234,22,138,121,233,247,220>>,
            <<191,235,50,160,225,192,253,51>>, <<191,236,51,92,177,226,89,159>>, <<191,237,23,187,181,63,222,209>>, <<191,237,222,216,61,69,35,222>>,
            <<191,238,135,234,8,215,140,45>>, <<191,239,18,71,13,189,146,177>>, <<191,239,125,100,35,162,253,245>>, <<191,239,200,213,144,13,152,109>>,
            <<191,239,244,79,114,181,252,108>>, <<191,239,255,166,17,215,87,47>>, <<191,239,234,206,6,41,113,58>>, <<191,239,181,220,70,88,181,163>>,
            <<191,239,97,6,17,240,186,174>>, <<191,238,236,160,187,206,115,254>>, <<191,238,89,33,84,79,248,161>>, <<191,237,167,28,51,152,27,30>>,
            <<191,236,215,68,100,92,99,243>>, <<191,235,234,106,239,211,37,160>>, <<191,234,225,126,11,119,47,96>>, <<191,233,189,136,41,116,88,137>>,
            <<191,232,127,174,236,173,184,123>>, <<191,231,41,50,1,107,81,33>>, <<191,229,187,105,219,216,52,219>>, <<191,228,55,198,93,147,248,64>>,
            <<191,226,159,205,99,180,172,160>>, <<191,224,245,25,62,172,220,33>>, <<191,222,114,174,43,64,145,5>>, <<191,218,220,138,109,140,0,127>>,
            <<191,215,43,98,173,21,21,246>>, <<191,211,98,237,126,105,248,190>>, <<191,207,13,241,203,136,232,95>>, <<191,199,54,205,6,221,104,28>>,
            <<191,190,144,158,177,187,21,211>>, <<191,173,41,203,155,55,167,48>>, <<63,119,87,214,150,123,51,152>>, <<63,177,126,104,254,52,134,176>>,
            <<63,192,186,222,58,188,140,231>>, <<63,200,165,180,130,238,59,110>>, <<63,208,59,224,111,151,219,211>>, <<63,212,20,146,226,172,162,93>>,
            <<63,215,217,19,65,90,165,227>>, <<63,219,133,151,130,8,65,121>>, <<63,223,22,109,186,120,27,49>>, <<63,225,67,255,235,144,144,244>>,
            <<63,226,235,107,155,67,156,98>>, <<63,228,127,208,18,121,211,180>>, <<63,229,255,150,154,133,248,235>>, <<63,231,105,61,56,245,101,83>>,
            <<63,232,187,88,51,193,137,235>>, <<63,233,244,147,127,32,122,187>>, <<63,235,19,180,19,132,59,176>>, <<63,236,23,153,42,113,111,247>>,
            <<63,236,255,61,96,238,3,225>>, <<63,237,201,183,190,100,55,111>>, <<63,238,118,60,158,241,157,22>>, <<63,239,4,30,128,54,43,103>>,
            <<63,239,114,206,175,213,132,47>>, <<63,239,193,221,218,251,24,194>>, <<63,239,240,252,126,80,127,220>>, <<63,239,255,251,53,245,166,218>>,
            <<63,239,238,202,237,42,83,91>>, <<63,239,189,124,237,121,15,99>>, <<63,239,108,66,205,84,51,107>>, <<63,238,251,110,62,54,157,135>>,
            <<63,238,107,112,186,122,36,212>>, <<63,237,188,219,19,54,133,220>>, <<63,236,240,92,222,155,120,26>>, <<63,236,6,195,199,88,151,60>>,
            <<63,235,0,250,189,196,88,216>>, <<63,233,224,9,11,146,146,54>>, <<63,232,165,17,75,7,241,130>>, <<63,231,81,80,66,180,155,202>>,
            <<63,229,230,27,166,220,43,26>>, <<63,228,100,224,193,203,123,167>>, <<63,226,207,35,4,117,89,247>>, <<63,225,38,122,128,200,111,16>>,
            <<63,222,217,36,158,139,83,6>>, <<63,219,70,77,194,232,55,182>>, <<63,215,152,8,133,197,62,128>>, <<63,211,210,8,148,239,213,249>>,
            <<63,207,240,50,247,143,12,102>>, <<63,200,28,53,164,61,13,61>>, <<63,192,47,248,173,226,59,155>>, <<63,176,102,231,235,118,193,87>>,
            <<63,87,87,222,89,241,7,194>>, <<191,175,89,13,194,168,98,190>>, <<191,191,166,169,173,53,230,119>>, <<191,199,192,123,166,183,7,64>>,
            <<191,207,149,191,20,144,43,40>>, <<191,211,165,159,45,25,255,17>>, <<191,215,108,156,82,66,212,186>>, <<191,219,28,10,111,186,218,54>>,
            <<191,222,176,52,173,31,230,99>>, <<191,225,18,192,207,0,7,85>>, <<191,226,188,59,112,72,16,189>>, <<191,228,82,222,78,148,173,59>>,
            <<191,229,213,16,113,133,162,161>>, <<191,231,65,77,111,126,225,173>>, <<191,232,150,38,244,77,14,153>>, <<191,233,210,70,49,147,227,242>>,
            <<191,234,244,109,55,148,85,12>>, <<191,235,251,120,52,239,86,25>>, <<191,236,230,94,156,36,60,222>>, <<191,237,180,52,45,162,218,165>>,
            <<191,238,100,41,229,102,45,176>>, <<191,238,245,142,203,40,171,97>>, <<191,239,103,208,164,96,123,44>>, <<191,239,186,124,135,80,232,209>>,
            <<191,239,237,63,78,156,252,96>>, <<191,239,255,229,236,230,254,164>>, <<191,239,242,93,160,40,220,224>>, <<191,239,196,180,4,145,189,6>>,
            <<191,239,119,23,6,213,213,158>>, <<191,239,9,212,181,254,51,227>>, <<191,238,125,90,244,231,11,200>>, <<191,237,210,55,11,187,89,100>>,
            <<191,237,9,21,25,221,35,20>>, <<191,236,34,191,104,201,36,0>>, <<191,235,32,29,160,164,47,210>>, <<191,234,2,51,223,62,125,207>>,
            <<191,232,202,33,178,119,189,240>>, <<191,231,121,32,247,10,165,104>>, <<191,230,16,132,156,227,19,193>>, <<191,228,145,183,82,60,16,41>>,
            <<191,226,254,58,22,220,174,3>>, <<191,225,87,162,184,226,124,58>>, <<191,223,63,52,121,62,96,182>>, <<191,219,175,182,98,71,149,227>>,
            <<191,216,4,95,230,78,89,190>>, <<191,212,64,225,192,16,47,222>>, <<191,208,105,4,245,114,179,180>>, <<191,201,1,78,17,221,9,216>>,
            <<191,193,23,108,44,188,183,177>>, <<191,178,56,179,124,115,182,149>>, <<191,129,129,217,45,97,211,78>>, <<63,171,180,225,70,231,164,100>>,
            <<63,189,215,45,160,212,120,103>>, <<63,198,218,243,203,209,66,241>>, <<63,206,179,84,62,21,124,82>>, <<63,211,54,106,31,214,125,130>>,
            <<63,214,255,215,123,110,171,3>>, <<63,218,178,35,51,255,198,87>>, <<63,222,73,149,143,86,168,62>>, <<63,224,225,72,234,8,127,41>>,
            <<63,226,140,204,245,210,194,100>>, <<63,228,37,168,242,206,54,67>>, <<63,229,170,65,172,55,130,93>>, <<63,231,25,16,78,85,43,191>>,
            <<63,232,112,163,239,137,75,132>>, <<63,233,175,163,3,89,111,201>>, <<63,234,212,204,181,246,198,182>>, <<63,235,222,250,46,233,59,74>>,
            <<63,236,205,31,185,153,98,151>>, <<63,237,158,77,210,142,75,15>>, <<63,238,81,178,24,80,239,107>>, <<63,238,230,152,31,2,209,125>>,
            <<63,239,92,106,37,210,237,141>>, <<63,239,178,177,173,154,159,77>>, <<63,239,233,23,240,10,227,22>>, <<63,239,255,102,54,242,41,61>>,
            <<63,239,245,134,19,66,232,107>>, <<63,239,203,129,115,163,163,139>>, <<63,239,129,130,154,113,168,82>>, <<63,239,23,211,243,64,163,192>>,
            <<63,238,142,223,200,1,166,98>>, <<63,237,231,47,214,29,10,149>>, <<63,237,33,108,195,234,176,117>>, <<63,236,62,93,119,19,190,201>>,
            <<63,235,62,230,76,136,223,10>>, <<63,234,36,8,50,213,145,230>>, <<63,232,238,223,167,184,54,145>>, <<63,231,160,163,154,2,62,97>>,
            <<63,230,58,164,48,224,115,192>>, <<63,228,190,73,121,197,237,55>>, <<63,227,45,17,254,77,123,155>>, <<63,225,136,145,67,126,2,5>>,
            <<63,223,164,220,103,232,219,124>>, <<63,220,24,194,237,23,124,87>>, <<63,216,112,103,102,93,47,8>>, <<63,212,175,119,143,33,34,128>>,
            <<63,208,217,185,219,56,144,33>>, <<63,201,230,19,85,206,130,244>>, <<63,193,254,166,211,168,144,166>>, <<63,180,10,66,115,106,206,216>>,
            <<63,144,12,62,42,209,65,71>>, <<191,168,16,88,165,103,210,1>>, <<191,188,7,78,85,206,104,67>>, <<191,197,245,31,237,158,190,23>>,
            <<191,205,208,131,76,198,124,103>>, <<191,210,198,245,44,189,137,36>>, <<191,214,146,198,38,157,110,218>>, <<191,218,71,227,47,14,128,227>>,
            <<191,221,226,145,182,105,182,181>>, <<191,224,175,152,225,47,239,242>>, <<191,226,93,32,201,163,171,145>>, <<191,227,248,48,149,129,124,115>>,
            <<191,229,127,42,216,250,179,53>>, <<191,230,240,134,91,76,24,155>>, <<191,232,74,207,162,56,72,234>>, <<191,233,140,170,103,163,219,199>>,
            <<191,234,180,210,247,219,44,32>>, <<191,235,194,31,119,33,214,250>>, <<191,236,179,129,13,67,238,87>>, <<191,237,136,4,245,252,94,182>>,
            <<191,238,62,213,117,29,201,229>>, <<191,238,215,58,173,136,204,172>>, <<191,239,80,155,90,23,74,209>>, <<191,239,170,125,103,194,198,5>>,
            <<191,239,228,134,112,106,202,156>>, <<191,239,254,124,21,191,229,91>>, <<191,239,248,68,59,247,177,244>>, <<191,239,209,229,36,15,6,152>>,
            <<191,239,139,133,101,127,193,212>>, <<191,239,37,107,199,112,166,82>>, <<191,238,159,254,249,134,38,202>>, <<191,237,251,197,44,155,230,125>>,
            <<191,237,57,99,139,206,170,213>>, <<191,236,89,157,150,94,152,188>>, <<191,235,93,84,91,16,150,253>>, <<191,234,69,133,149,213,2,173>>,
            <<191,233,19,74,176,150,183,35>>, <<191,231,199,215,168,51,191,226>>, <<191,230,100,121,214,187,229,38>>, <<191,228,234,150,164,44,188,247>>,
            <<191,227,91,170,30,252,177,229>>, <<191,225,185,69,125,221,210,82>>, <<191,224,5,13,140,57,187,165>>, <<191,220,129,114,5,247,225,147>>,
            <<191,216,220,29,158,168,60,135>>, <<191,213,29,200,146,88,254,115>>, <<191,209,74,54,182,65,4,202>>, <<191,202,202,130,119,54,213,125>>,
            <<191,194,229,165,161,158,69,99>>, <<191,181,219,142,195,252,51,213>>, <<191,151,87,90,95,157,109,41>>, <<63,164,107,127,251,156,226,145>>,
            <<63,186,55,17,210,230,162,99>>, <<63,197,15,3,8,125,184,81>>, <<63,204,237,79,50,253,177,64>>, <<63,210,87,65,198,127,1,179>>,
            <<63,214,37,105,190,140,249,180>>, <<63,217,221,75,194,69,191,217>>, <<63,221,123,42,120,245,107,77>>, <<63,224,125,177,89,183,21,42>>,
            <<63,226,45,55,138,71,206,217>>, <<63,227,202,117,205,232,96,204>>, <<63,229,83,204,135,29,226,201>>, <<63,230,199,176,29,55,11,119>>,
            <<63,232,36,170,138,42,116,109>>, <<63,233,105,92,210,194,8,54>>, <<63,234,148,128,103,154,4,22>>, <<63,235,164,232,109,144,33,201>>,
            <<63,236,153,130,236,88,236,156>>, <<63,237,113,89,226,10,127,219>>, <<63,238,43,148,58,135,250,167>>, <<63,238,199,118,169,212,154,138>>,
            <<63,239,68,100,104,114,228,181>>, <<63,239,161,223,209,18,136,64>>, <<63,239,223,138,222,238,67,65>>, <<63,239,253,39,140,90,223,254>>,
            <<63,239,250,152,17,39,245,178>>, <<63,239,215,223,0,147,223,250>>, <<63,239,149,31,70,180,183,135>>, <<63,239,50,156,5,88,231,162>>,
            <<63,238,176,184,80,130,200,142>>, <<63,238,15,246,202,194,245,25>>, <<63,237,80,249,33,213,209,21>>, <<63,236,116,127,108,8,52,250>>,
            <<63,235,123,103,103,6,234,216>>, <<63,234,102,171,152,219,41,232>>, <<63,233,55,98,83,244,96,96>>, <<63,231,238,188,159,60,236,107>>,
            <<63,230,142,5,3,82,221,134>>, <<63,229,22,158,62,25,185,250>>, <<63,227,138,1,221,243,72,253>>, <<63,225,233,190,198,6,155,211>>,
            <<63,224,55,119,157,18,125,118>>, <<63,220,233,194,80,191,103,140>>, <<63,217,71,129,40,243,251,10>>, <<63,213,139,211,90,210,241,78>>,
            <<63,209,186,122,16,110,140,63>>, <<63,203,174,152,126,90,52,238>>, <<63,195,204,101,150,93,0,208>>, <<63,183,172,146,98,167,120,168>>,
            <<63,158,162,40,243,94,69,101>>, <<191,160,198,99,104,4,121,208>>, <<191,184,102,126,32,22,26,66>>, <<191,196,40,160,25,191,112,242>>,
            <<191,204,9,186,228,95,43,14>>, <<191,209,231,81,96,154,136,223>>, <<191,213,183,195,174,244,138,31>>, <<191,217,114,94,80,39,23,112>>,
            <<191,221,19,97,46,224,218,95>>, <<191,224,75,146,249,151,52,76>>, <<191,225,253,17,215,23,91,198>>, <<191,227,156,121,52,25,204,202>>,
            <<191,229,40,39,70,221,128,16>>, <<191,230,158,142,27,231,19,233>>, <<191,231,254,53,38,60,223,127>>, <<191,233,69,186,186,29,127,99>>,
            <<191,234,115,213,112,179,21,246>>, <<191,235,135,85,115,94,54,129>>, <<191,236,127,37,173,74,236,169>>, <<191,237,90,76,226,28,191,62>>,
            <<191,238,23,238,168,153,78,151>>, <<191,238,183,76,72,85,86,246>>, <<191,239,55,197,121,133,111,208>>, <<191,239,152,217,6,49,78,177>>,
            <<191,239,218,37,76,39,160,187>>, <<191,239,251,104,159,47,171,28>>, <<191,239,252,129,139,22,15,180>>, <<191,239,221,110,245,82,30,196>>,
            <<191,239,158,80,30,34,3,187>>, <<191,239,63,100,129,28,150,237>>, <<191,238,193,11,149,88,132,103>>, <<191,238,35,196,109,104,237,240>>,
            <<191,237,104,45,55,144,25,91>>, <<191,236,143,2,158,168,198,122>>, <<191,235,153,31,12,102,20,174>>, <<191,234,135,121,205,168,235,236>>,
            <<191,233,91,38,25,199,180,209>>, <<191,232,21,81,253,194,139,192>>, <<191,230,183,69,44,122,141,205>>, <<191,229,66,95,181,29,80,138>>,
            <<191,227,184,24,161,16,120,65>>, <<191,226,25,252,122,193,44,213>>, <<191,224,105,171,190,211,52,87>>, <<191,221,81,178,114,128,12,195>>,
            <<191,217,178,144,160,24,54,158>>, <<191,213,249,150,122,147,96,129>>, <<191,210,42,130,116,98,224,19>>, <<191,204,146,82,116,165,12,139>>,
            <<191,196,178,227,178,117,82,237>>, <<191,185,125,71,68,220,182,250>>, <<191,162,246,72,210,178,232,14>>, <<63,154,66,30,19,253,51,63>>,
            <<63,182,149,153,70,120,122,195>>, <<63,195,65,250,31,157,246,151>>, <<63,203,37,201,85,207,16,126>>, <<63,209,119,37,111,90,128,195>>,
            <<63,213,73,213,100,128,190,51>>, <<63,217,7,28,60,81,233,234>>, <<63,220,171,55,49,89,6,79>>, <<63,224,25,62,103,128,16,89>>,
            <<63,225,204,176,80,51,137,79>>, <<63,227,110,59,97,7,109,87>>, <<63,228,252,59,169,98,5,194>>, <<63,230,117,32,224,41,58,177>>,
            <<63,231,215,111,246,87,174,49>>, <<63,233,33,196,148,56,210,17>>, <<63,234,82,210,127,204,65,22>>, <<63,235,105,102,234,231,218,188>>,
            <<63,236,100,105,167,200,196,60>>, <<63,237,66,222,66,220,227,28>>, <<63,238,3,229,0,169,71,175>>, <<63,238,166,187,190,206,148,4>>,
            <<63,239,42,190,183,72,119,83>>, <<63,239,143,105,37,36,110,168>>, <<63,239,212,85,202,9,197,126>>, <<63,239,249,63,84,12,173,217>>,
            <<63,239,254,0,163,102,20,165>>, <<63,239,226,148,239,201,235,254>>, <<63,239,167,23,205,54,127,173>>, <<63,239,75,197,16,55,245,43>>,
            <<63,238,208,248,145,187,205,197>>, <<63,238,55,45,210,177,12,27>>, <<63,237,126,255,127,209,201,95>>, <<63,236,169,38,214,19,44,235>>,
            <<63,235,182,122,232,88,78,153>>, <<63,234,167,239,199,35,74,106>>, <<63,233,126,149,139,30,20,112>>, <<63,232,59,151,67,114,35,202>>,
            <<63,230,224,57,201,1,156,156>>, <<63,229,109,218,119,177,84,69>>, <<63,227,229,237,207,11,106,219>>, <<63,226,73,253,251,156,112,177>>,
            <<63,224,155,169,74,131,214,73>>, <<63,221,185,65,17,139,117,47>>, <<63,218,29,74,160,4,74,202>>, <<63,214,103,16,132,141,110,141>>,
            <<63,210,154,78,109,131,179,252>>, <<63,205,117,173,100,182,24,212>>, <<63,197,153,28,247,82,170,121>>, <<63,187,77,167,97,18,164,197>>,
            <<63,166,155,62,27,41,245,188>>, <<191,146,247,30,3,76,161,174>>, <<191,180,196,105,80,54,21,187>>, <<191,194,91,20,25,50,177,85>>,
            <<191,202,65,125,125,103,139,18>>, <<191,209,6,191,103,207,99,166>>, <<191,212,219,160,76,206,19,105>>, <<191,216,155,134,235,127,120,251>>,
            <<191,220,66,173,218,204,156,50>>, <<191,223,205,104,149,171,44,114>>, <<191,225,156,19,150,132,155,207>>, <<191,227,63,188,238,123,225,212>>,
            <<191,228,208,10,64,189,201,171>>, <<191,230,75,104,243,196,198,61>>, <<191,231,176,91,123,108,99,60>>, <<191,232,253,122,216,174,32,166>>,
            <<191,234,49,120,2,175,239,213>>, <<191,235,75,29,55,185,104,47>>, <<191,236,73,79,52,188,151,144>>, <<191,237,43,14,82,57,85,58>>,
            <<191,237,239,119,133,92,78,193>>, <<191,238,149,197,68,87,162,195>>, <<191,239,29,80,77,14,214,118>>, <<191,239,133,144,77,78,182,63>>,
            <<191,239,206,28,107,231,228,171>>, <<191,239,246,171,178,34,17,221>>, <<191,239,255,21,85,29,232,130>>, <<191,239,231,80,222,219,229,103>>,
            <<191,239,175,118,54,190,191,163>>, <<191,239,87,189,137,128,231,220>>, <<191,238,224,127,16,181,64,209>>, <<191,238,74,50,186,11,238,190>>,
            <<191,237,149,111,174,180,106,20>>, <<191,236,194,235,187,86,55,75>>, <<191,235,211,122,153,57,19,80>>, <<191,234,200,13,25,84,153,143>>,
            <<191,233,161,176,50,29,101,181>>, <<191,232,97,139,241,3,142,107>>, <<191,231,8,226,80,177,249,221>>, <<191,229,153,13,245,58,185,164>>,
            <<191,228,19,128,207,117,143,204>>, <<191,226,121,194,168,239,153,39>>, <<191,224,205,111,153,225,221,207>>, <<191,222,32,108,213,119,189,95>>,
            <<191,218,135,173,197,195,165,229>>, <<191,214,212,64,12,167,4,90>>, <<191,211,9,220,135,255,187,54>>, <<191,206,88,166,90,103,224,232>>,
            <<191,198,127,14,103,69,137,166>>, <<191,189,29,172,174,217,169,129>>, <<191,170,63,232,52,55,120,182>>, <<63,135,87,189,190,149,159,62>>,
            <<63,178,242,244,72,114,202,153>>, <<63,193,115,241,6,107,173,194>>, <<63,201,92,218,82,111,107,3>>, <<63,208,150,32,191,202,204,128>>,
            <<63,212,109,37,214,100,143,170>>, <<63,216,47,159,195,125,132,85>>, <<63,219,217,198,134,231,72,166>>, <<63,223,103,234,151,91,151,2>>,
            <<63,225,107,60,75,183,166,23>>, <<63,227,16,254,119,24,201,159>>, <<63,228,163,147,159,235,94,238>>, <<63,230,33,102,225,121,95,122>>,
            <<63,231,136,248,55,116,72,163>>, <<63,232,216,222,0,45,131,136>>, <<63,234,15,198,104,75,188,83>>, <<63,235,44,120,190,142,96,251>>,
            <<63,236,45,214,174,74,130,33>>, <<63,237,18,221,95,100,37,163>>, <<63,237,218,166,122,162,197,78>>, <<63,238,132,105,17,90,229,92>>,
            <<63,239,15,122,103,132,36,214>>, <<63,239,123,78,159,112,12,88>>, <<63,239,199,121,70,117,72,189>>, <<63,239,243,173,194,1,170,103>>,
            <<63,239,255,191,156,165,78,14>>, <<63,239,235,162,178,201,90,167>>, <<63,239,183,107,62,229,114,60>>, <<63,239,99,77,197,39,126,140>>,
            <<63,238,239,158,222,162,89,68>>, <<63,238,92,210,228,56,101,95>>, <<63,237,171,125,121,151,202,86>>, <<63,236,220,80,248,189,185,231>>,
            <<63,235,240,29,190,150,110,214>>, <<63,234,231,209,89,110,33,14>>, <<63,233,196,117,154,5,147,88>>, <<63,232,135,47,136,58,192,75>>,
            <<63,231,49,62,60,82,141,130>>, <<63,229,195,249,158,11,107,94>>, <<63,228,64,209,10,188,104,113>>, <<63,226,169,73,227,219,253,13>>,
            <<63,224,254,254,7,98,135,87>>, <<63,222,135,52,103,35,186,235>>, <<63,218,241,184,175,130,189,94>>, <<63,215,65,35,167,190,4,105>>,
            <<63,211,121,43,80,211,94,114>>, <<63,207,59,58,98,218,230,245>>, <<63,199,100,181,5,140,250,153>>, <<63,190,237,81,38,240,109,248>>,
            <<63,173,228,58,255,248,171,131>>, <<191,113,129,227,168,124,83,56>>, <<191,177,33,64,59,54,175,252>>, <<191,192,140,147,232,1,225,238>>,
            <<191,200,119,226,205,79,142,70>>, <<191,208,37,74,237,218,217,127>>, <<191,211,254,103,112,179,28,224>>, <<191,215,195,104,43,42,10,92>>,
            <<191,219,112,130,146,141,166,176>>, <<191,223,2,4,37,157,35,24>>, <<191,225,58,43,18,60,138,53>>, <<191,226,226,0,150,84,155,142>>,
            <<191,228,118,216,90,203,124,235>>, <<191,229,247,27,52,253,79,211>>, <<191,231,97,70,173,110,148,94>>, <<191,232,179,238,132,123,141,217>>,
            <<191,233,237,190,32,174,246,97>>, <<191,235,13,121,229,80,44,199>>, <<191,236,18,0,111,207,136,27>>, <<191,236,250,75,186,210,26,195>>,
            <<191,237,197,114,37,184,40,169>>, <<191,238,114,167,95,149,5,128>>, <<191,239,1,61,52,172,41,131>>, <<191,239,112,164,61,165,6,242>>,
            <<191,239,192,108,111,197,3,115>>, <<191,239,240,69,141,158,219,51>>, <<191,239,255,255,119,197,243,18>>, <<191,239,239,138,93,52,127,77>>,
            <<191,239,190,246,203,51,195,220>>, <<191,239,110,117,156,182,124,1>>, <<191,238,254,87,201,54,25,227>>, <<191,238,111,14,19,68,86,221>>,
            <<191,237,193,40,151,34,235,23>>, <<191,236,245,86,57,211,161,54>>, <<191,236,12,99,249,50,55,8>>, <<191,235,7,60,29,201,91,164>>,
            <<191,233,230,229,79,49,239,129>>, <<191,232,172,129,139,233,97,217>>, <<191,231,89,77,5,169,26,185>>, <<191,229,238,156,227,100,75,203>>,
            <<191,228,109,221,234,43,116,127>>, <<191,226,216,147,14,79,125,184>>, <<191,225,48,83,238,52,193,135>>, <<191,222,237,150,112,187,141,237>>,
            <<191,219,91,105,252,147,122,108>>, <<191,215,173,185,235,172,198,128>>, <<191,211,232,57,85,205,187,149>>, <<191,208,14,179,70,63,156,76>>,
            <<191,200,74,13,214,97,122,214>>, <<191,192,94,71,97,171,117,92>>, <<191,176,196,21,48,213,209,173>>, <<191,103,87,220,204,120,237,95>>,
            <<63,174,158,166,106,183,234,137>>, <<63,191,73,255,126,224,29,220>>, <<63,199,146,153,231,137,124,171>>, <<63,207,104,126,210,137,227,92>>,
            <<63,211,143,102,140,10,104,14>>, <<63,215,86,225,138,110,188,159>>, <<63,219,6,227,91,215,252,77>>, <<63,222,155,182,147,87,18,60>>,
            <<63,225,8,224,141,67,207,217>>, <<63,226,178,195,232,120,179,226>>, <<63,228,73,217,6,35,43,161>>, <<63,229,204,134,122,251,159,39>>,
            <<63,231,57,71,97,94,245,170>>, <<63,232,142,172,224,111,144,28>>, <<63,233,203,95,157,9,65,130>>, <<63,234,238,33,19,20,210,192>>,
            <<63,235,245,204,213,224,91,78>>, <<63,236,225,89,182,57,126,2>>, <<63,237,175,218,205,34,64,86>>, <<63,238,96,128,106,20,59,25>>,
            <<63,238,242,152,227,226,54,151>>, <<63,239,101,145,75,102,113,68>>, <<63,239,184,245,255,73,175,10>>, <<63,239,236,115,32,78,113,229>>,
            <<63,239,255,212,229,171,119,153>>, <<63,239,243,7,209,32,153,54>>, <<63,239,198,24,194,145,179,0>>, <<63,239,121,52,235,19,209,64>>,
            <<63,239,12,169,159,121,185,217>>, <<63,238,128,228,10,141,113,24>>, <<63,237,214,112,191,69,11,52>>, <<63,237,13,251,43,97,31,159>>,
            <<63,236,40,76,235,3,60,252>>, <<63,235,38,76,253,233,99,169>>, <<63,234,8,254,223,26,237,152>>, <<63,232,209,129,127,240,76,9>>,
            <<63,231,129,14,39,123,237,103>>, <<63,230,24,247,55,118,247,237>>, <<63,228,154,166,215,238,76,124>>, <<63,227,7,157,139,6,70,94>>,
            <<63,225,97,112,170,67,169,161>>, <<63,223,83,145,157,188,231,185>>, <<63,219,196,192,77,113,163,186>>, <<63,216,26,1,111,78,233,238>>,
            <<63,212,87,5,37,149,71,10>>, <<63,208,127,147,243,143,75,18>>, <<63,201,47,21,222,253,109,222>>, <<63,193,69,175,191,177,246,236>>,
            <<63,178,149,213,30,237,75,199>>, <<63,132,108,204,209,201,217,235>>, <<191,170,250,102,136,244,7,230>>, <<191,189,122,111,29,206,138,53>>,
            <<191,198,173,2,155,173,36,250>>, <<191,206,133,255,84,2,38,30>>, <<191,211,32,36,153,152,84,236>>, <<191,214,234,13,74,59,249,211>>,
            <<191,218,156,234,66,14,90,253>>, <<191,222,53,3,52,199,147,224>>, <<191,224,215,93,96,188,147,4>>, <<191,226,131,73,10,159,96,10>>,
            <<191,228,28,150,55,153,200,155>>, <<191,229,161,169,65,18,81,60>>, <<191,231,16,250,216,75,151,94>>, <<191,232,105,25,143,242,60,164>>,
            <<191,233,168,171,79,169,0,127>>, <<191,234,206,110,176,29,137,69>>, <<191,235,217,60,62,72,54,206>>, <<191,236,200,7,164,145,34,242>>,
            <<191,237,153,224,184,176,16,161>>, <<191,238,77,244,109,55,141,10>>, <<191,238,227,141,165,216,145,42>>, <<191,239,90,21,237,136,219,91>>,
            <<191,239,177,22,13,213,24,205>>, <<191,239,232,54,134,198,133,174>>, <<191,239,255,63,230,227,112,235>>, <<191,239,246,27,2,242,47,201>>,
            <<191,239,204,209,13,70,97,8>>, <<191,239,131,139,140,129,28,1>>, <<191,239,26,148,49,205,65,101>>, <<191,238,146,84,142,194,19,56>>,
            <<191,237,235,85,171,54,115,201>>, <<191,237,38,63,123,111,180,63>>, <<191,236,67,216,55,54,156,255>>, <<191,235,69,3,146,124,61,148>>,
            <<191,234,42,193,216,87,125,141>>, <<191,232,246,46,233,65,98,138>>, <<191,231,168,129,29,147,138,125>>, <<191,230,67,8,13,103,170,191>>,
            <<191,228,199,43,63,18,123,47>>, <<191,227,54,104,189,141,11,36>>, <<191,225,146,83,152,56,91,228>>, <<191,223,185,36,154,251,161,150>>,
            <<191,220,45,186,67,199,197,117>>, <<191,216,133,248,202,133,203,83>>, <<191,212,197,141,79,172,182,153>>, <<191,208,240,61,193,242,237,150>>,
            <<191,202,19,202,37,168,158,228>>, <<191,194,44,222,171,236,79,177>>, <<191,180,103,87,61,65,19,75>>, <<191,145,129,175,65,42,196,186>>,
            <<63,167,85,204,237,164,187,45>>, <<63,187,170,124,178,139,128,198>>, <<63,197,199,31,229,79,209,27>>, <<63,205,163,26,81,106,30,172>>,
            <<63,210,176,163,11,99,19,162>>, <<63,214,124,236,212,132,88,181>>, <<63,218,50,152,165,163,155,228>>, <<63,221,205,235,95,127,117,211>>,
            <<63,224,165,162,49,82,112,168>>, <<63,226,83,144,154,177,173,79>>, <<63,227,239,16,133,183,46,29>>, <<63,229,118,132,21,208,131,25>>,
            <<63,230,232,97,152,59,144,237>>, <<63,232,67,53,15,251,201,48>>, <<63,233,133,161,171,249,226,49>>, <<63,234,174,99,37,213,108,28>>,
            <<63,235,188,79,8,7,143,203>>, <<63,236,174,85,218,15,90,190>>, <<63,237,131,132,49,120,255,211>>, <<63,238,59,3,166,174,1,15>>,
            <<63,238,212,27,172,151,211,162>>, <<63,239,78,50,74,60,28,141>>, <<63,239,168,204,181,151,242,90>>, <<63,239,227,143,207,30,73,28>>,
            <<63,239,254,64,125,93,103,202>>, <<63,239,248,195,232,111,45,19>>, <<63,239,211,31,148,248,102,246>>, <<63,239,141,121,94,156,23,242>>,
            <<63,239,40,23,81,232,44,39>>, <<63,238,163,95,101,225,254,219>>, <<63,237,255,215,21,121,137,164>>, <<63,237,62,34,217,74,69,136>>,
            <<63,236,95,5,130,48,227,194>>, <<63,235,99,95,117,92,73,42>>, <<63,234,76,45,202,158,124,38>>, <<63,233,26,137,77,225,8,252>>,
            <<63,231,207,165,100,188,120,36>>, <<63,230,108,206,217,78,250,164>>, <<63,228,243,106,139,137,121,70>>, <<63,227,100,244,10,66,247,123>>,
            <<63,225,194,252,21,124,72,211>>, <<63,224,15,39,11,83,4,105>>, <<63,220,150,86,130,115,161,11>>, <<63,216,241,158,150,61,139,98>>,
            <<63,213,51,208,100,119,142,96>>, <<63,209,96,175,58,183,126,199>>, <<63,202,248,39,177,193,73,205>>, <<63,195,19,209,37,121,98,161>>,
            <<63,182,56,149,127,157,138,51>>, <<63,152,204,189,224,25,6,251>>, <<191,163,176,229,182,117,241,7>>, <<191,185,218,46,68,26,72,180>>,
            <<191,196,224,244,193,1,62,252>>, <<191,204,191,210,189,94,241,120>>, <<191,210,64,227,84,68,143,82>>, <<191,214,15,129,148,55,214,110>>,
            <<191,217,199,239,232,49,5,115>>, <<191,221,102,112,106,93,137,229>>, <<191,224,115,175,164,107,44,135>>, <<191,226,35,155,55,101,104,84>>,
            <<191,227,193,72,135,225,153,59>>, <<191,229,75,23,136,180,168,146>>, <<191,230,191,124,40,53,24,47>>, <<191,232,28,255,222,146,114,205>>,
            <<191,233,98,67,38,131,131,135>>, <<191,234,141,254,222,208,16,176>>, <<191,235,159,5,147,82,233,9>>, <<191,236,148,68,172,40,199,66>>,
            <<191,237,108,197,129,219,233,176>>, <<191,238,39,174,85,117,211,173>>, <<191,238,196,67,43,126,65,67>>, <<191,239,65,230,137,10,219,16>>,
            <<191,239,160,26,18,33,120,91>>, <<191,239,222,127,8,205,221,72>>, <<191,239,252,214,172,106,209,154>>, <<191,239,251,2,120,191,5,111>>,
            <<191,239,217,4,68,174,29,94>>, <<191,239,150,254,64,95,25,148>>, <<191,239,53,50,210,217,251,182>>, <<191,238,180,4,87,63,32,79>>,
            <<191,238,19,244,185,219,159,168>>, <<191,237,85,164,245,126,19,141>>, <<191,236,121,212,113,143,70,142>>, <<191,235,129,96,65,145,132,35>>,
            <<191,234,109,66,70,200,68,51>>, <<191,233,62,144,52,231,175,0>>, <<191,231,246,122,122,200,231,70>>, <<191,230,150,75,16,59,216,166>>,
            <<191,229,31,100,42,42,129,131>>, <<191,227,147,62,214,91,192,140>>, <<191,225,243,105,128,59,61,154>>, <<191,224,65,134,96,36,181,247>>,
            <<191,220,254,147,173,138,82,62>>, <<191,217,92,241,108,113,155,19>>, <<191,213,161,204,245,63,66,88>>, <<191,209,208,230,231,229,39,71>>,
            <<191,203,220,43,139,197,190,177>>, <<191,195,250,132,44,65,250,176>>, <<191,184,9,137,218,175,68,35>>, <<191,160,11,189,2,21,93,40>>,
            <<63,160,11,189,2,22,51,38>>, <<63,184,9,137,218,175,110,255>>, <<63,195,250,132,44,65,240,87>>, <<63,203,220,43,139,197,180,120>>,
            <<63,209,208,230,231,229,34,63>>, <<63,213,161,204,245,63,91,136>>, <<63,217,92,241,108,113,150,68>>, <<63,220,254,147,173,138,77,147>>,
            <<63,224,65,134,96,36,186,154>>, <<63,225,243,105,128,59,59,111>>, <<63,227,147,62,214,91,190,122>>, <<63,229,31,100,42,42,139,145>>,
            <<63,230,150,75,16,59,214,203>>, <<63,231,246,122,122,200,229,138>>, <<63,233,62,144,52,231,173,100>>, <<63,234,109,66,70,200,71,60>>,
            <<63,235,129,96,65,145,138,249>>, <<63,236,121,212,113,143,76,169>>, <<63,237,85,164,245,126,21,180>>, <<63,238,19,244,185,219,158,195>>,
            <<63,238,180,4,87,63,31,146>>, <<63,239,53,50,210,217,251,34>>, <<63,239,150,254,64,95,27,182>>, <<63,239,217,4,68,174,29,28>>,
            <<63,239,251,2,120,191,5,88>>, <<63,239,252,214,172,106,209,116>>, <<63,239,222,127,8,205,220,203>>, <<63,239,160,26,18,33,118,81>>,
            <<63,239,65,230,137,10,216,50>>, <<63,238,196,67,43,126,65,251>>, <<63,238,39,174,85,117,212,142>>, <<63,237,108,197,129,219,234,183>>,
            <<63,236,148,68,172,40,196,214>>, <<63,235,159,5,147,82,226,72>>, <<63,234,141,254,222,208,18,38>>, <<63,233,98,67,38,131,128,64>>,
            <<63,232,28,255,222,146,116,134>>, <<63,230,191,124,40,53,26,7>>, <<63,229,75,23,136,180,170,134>>, <<63,227,193,72,135,225,142,181>>,
            <<63,226,35,155,55,101,106,124>>, <<63,224,115,175,164,107,46,198>>, <<63,221,102,112,106,93,128,86>>, <<63,217,199,239,232,48,251,154>>,
            <<63,214,15,129,148,55,189,79>>, <<63,210,64,227,84,68,117,171>>, <<63,204,191,210,189,94,251,174>>, <<63,196,224,244,193,1,73,82>>,
            <<63,185,218,46,68,26,93,140>>, <<63,163,176,229,182,117,154,254>>, <<191,152,204,189,224,26,179,13>>, <<191,182,56,149,127,157,117,84>>,
            <<191,195,19,209,37,121,119,233>>, <<191,202,248,39,177,193,63,143>>, <<191,209,96,175,58,183,121,188>>, <<191,213,51,208,100,119,137,111>>,
            <<191,216,241,158,150,61,164,7>>, <<191,220,150,86,130,115,156,91>>, <<191,224,15,39,11,83,2,37>>, <<191,225,194,252,21,124,77,77>>,
            <<191,227,100,244,10,66,251,195>>, <<191,228,243,106,139,137,131,99>>, <<191,230,108,206,217,79,4,47>>, <<191,231,207,165,100,188,118,100>>,
            <<191,233,26,137,77,225,7,92>>, <<191,234,76,45,202,158,122,168>>, <<191,235,99,95,117,92,75,242>>, <<191,236,95,5,130,48,233,242>>,
            <<191,237,62,34,217,74,68,119>>, <<191,237,255,215,21,121,139,131>>, <<191,238,163,95,101,226,0,105>>, <<191,239,40,23,81,232,43,142>>,
            <<191,239,141,121,94,156,26,45>>, <<191,239,211,31,148,248,104,92>>, <<191,239,248,195,232,111,44,247>>, <<191,239,254,64,125,93,103,216>>,
            <<191,239,227,143,207,30,72,169>>, <<191,239,168,204,181,151,241,145>>, <<191,239,78,50,74,60,27,112>>, <<191,238,212,27,172,151,210,48>>,
            <<191,238,59,3,166,174,1,235>>, <<191,237,131,132,49,121,0,214>>, <<191,236,174,85,218,15,91,232>>, <<191,235,188,79,8,7,141,28>>,
            <<191,234,174,99,37,213,100,184>>, <<191,233,133,161,171,249,227,198>>, <<191,232,67,53,15,251,197,173>>, <<191,230,232,97,152,59,141,43>>,
            <<191,229,118,132,21,208,133,11>>, <<191,227,239,16,133,183,35,165>>, <<191,226,83,144,154,177,162,87>>, <<191,224,165,162,49,82,114,229>>,
            <<191,221,205,235,95,127,122,118>>, <<191,218,50,152,165,163,146,19>>, <<191,214,124,236,212,132,78,162>>, <<191,210,176,163,11,99,9,87>>,
            <<191,205,163,26,81,106,9,188>>, <<191,197,199,31,229,79,219,110>>, <<191,187,170,124,178,139,149,155>>, <<191,167,85,204,237,164,229,9>>,
            <<63,145,129,175,65,42,112,239>>, <<63,180,103,87,61,65,126,0>>, <<63,194,44,222,171,236,69,83>>, <<63,202,19,202,37,168,179,246>>,
            <<63,208,240,61,193,242,247,246>>, <<63,212,197,141,79,172,177,164>>, <<63,216,133,248,202,133,228,11>>, <<63,220,45,186,67,199,221,124>>,
            <<63,223,185,36,154,251,157,9>>, <<63,225,146,83,152,56,89,180>>, <<63,227,54,104,189,141,15,114>>, <<63,228,199,43,63,18,127,71>>,
            <<63,230,67,8,13,103,174,156>>, <<63,231,168,129,29,147,142,29>>, <<63,232,246,46,233,65,101,232>>, <<63,234,42,193,216,87,124,11>>,
            <<63,235,69,3,146,124,60,53>>, <<63,236,67,216,55,54,163,69>>, <<63,237,38,63,123,111,185,197>>, <<63,237,235,85,171,54,114,220>>,
            <<63,238,146,84,142,194,20,207>>, <<63,239,26,148,49,205,66,168>>, <<63,239,131,139,140,129,27,140>>, <<63,239,204,209,13,70,98,134>>,
            <<63,239,246,27,2,242,47,168>>, <<63,239,255,63,230,227,112,244>>, <<63,239,232,54,134,198,133,225>>, <<63,239,177,22,13,213,24,15>>,
            <<63,239,90,21,237,136,218,71>>, <<63,238,227,141,165,216,143,194>>, <<63,238,77,244,109,55,139,80>>, <<63,237,153,224,184,176,14,149>>,
            <<63,236,200,7,164,145,36,23>>, <<63,235,217,60,62,72,56,24>>, <<63,234,206,110,176,29,129,246>>, <<63,233,168,171,79,168,248,128>>,
            <<63,232,105,25,143,242,62,85>>, <<63,231,16,250,216,75,147,164>>, <<63,229,161,169,65,18,77,69>>, <<63,228,28,150,55,153,202,165>>,
            <<63,226,131,73,10,159,85,32>>, <<63,224,215,93,96,188,149,62>>, <<63,222,53,3,52,199,152,126>>, <<63,218,156,234,66,14,95,193>>,
            <<63,214,234,13,74,59,254,183>>, <<63,211,32,36,153,152,74,167>>, <<63,206,133,255,84,2,17,55>>, <<63,198,173,2,155,173,15,202>>,
            <<63,189,122,111,29,206,95,114>>, <<63,170,250,102,136,244,49,190>>, <<191,132,108,204,209,201,50,81>>, <<191,178,149,213,30,237,182,139>>,
            <<191,193,69,175,191,178,43,244>>, <<191,201,47,21,222,253,99,153>>, <<191,208,127,147,243,143,85,120>>, <<191,212,87,5,37,149,81,62>>,
            <<191,216,26,1,111,78,229,20>>, <<191,219,196,192,77,113,187,215>>, <<191,223,83,145,157,188,241,27>>, <<191,225,97,112,170,67,167,110>>,
            <<191,227,7,157,139,6,68,67>>, <<191,228,154,166,215,238,74,123>>, <<191,230,24,247,55,119,1,155>>, <<191,231,129,14,39,123,241,14>>,
            <<191,232,209,129,127,240,79,110>>, <<191,234,8,254,223,26,240,185>>, <<191,235,38,76,253,233,98,70>>, <<191,236,40,76,235,3,59,189>>,
            <<191,237,13,251,43,97,37,59>>, <<191,237,214,112,191,69,10,66>>, <<191,238,128,228,10,141,112,78>>, <<191,239,12,169,159,121,187,38>>,
            <<191,239,121,52,235,19,210,56>>, <<191,239,198,24,194,145,178,176>>, <<191,239,243,7,209,32,153,247>>, <<191,239,255,212,229,171,119,144>>,
            <<191,239,236,115,32,78,114,19>>, <<191,239,184,245,255,73,175,98>>, <<191,239,101,145,75,102,113,198>>, <<191,238,242,152,227,226,51,48>>,
            <<191,238,96,128,106,20,57,104>>, <<191,237,175,218,205,34,62,84>>, <<191,236,225,89,182,57,123,176>>, <<191,235,245,204,213,224,92,148>>,
            <<191,234,238,33,19,20,212,42>>, <<191,233,203,95,157,9,57,151>>, <<191,232,142,172,224,111,145,202>>, <<191,231,57,71,97,94,247,120>>,
            <<191,229,204,134,122,251,161,18>>, <<191,228,73,217,6,35,39,119>>, <<191,226,178,195,232,120,182,2>>, <<191,225,8,224,141,67,196,133>>,
            <<191,222,155,182,147,87,8,200>>, <<191,219,6,227,91,216,1,12>>, <<191,215,86,225,138,110,193,127>>, <<191,211,143,102,140,10,109,11>>,
            <<191,207,104,126,210,137,175,121>>, <<191,199,146,153,231,137,72,15>>, <<191,191,73,255,126,223,243,34>>, <<191,174,158,166,106,183,148,151>>,
            <<63,103,87,220,204,118,78,239>>, <<63,176,196,21,48,213,188,197>>, <<63,192,94,71,97,171,170,113>>, <<63,200,74,13,214,97,112,141>>,
            <<63,208,14,179,70,63,151,58>>, <<63,211,232,57,85,205,182,155>>, <<63,215,173,185,235,172,208,128>>, <<63,219,91,105,252,147,132,39>>,
            <<63,222,237,150,112,187,165,91>>, <<63,225,48,83,238,52,198,17>>, <<63,226,216,147,14,79,123,154>>, <<63,228,109,221,234,43,114,123>>,
            <<63,229,238,156,227,100,73,227>>, <<63,231,89,77,5,169,35,224>>, <<63,232,172,129,139,233,96,46>>, <<63,233,230,229,79,49,242,170>>,
            <<63,235,7,60,29,201,94,134>>, <<63,236,12,99,249,50,53,197>>, <<63,236,245,86,57,211,160,25>>, <<63,237,193,40,151,34,240,3>>,
            <<63,238,111,14,19,68,86,14>>, <<63,238,254,87,201,54,25,60>>, <<63,239,110,117,156,182,123,131>>, <<63,239,190,246,203,51,196,137>>,
            <<63,239,239,138,93,52,127,164>>, <<63,239,255,255,119,197,243,21>>, <<63,239,240,69,141,158,218,222>>, <<63,239,192,108,111,197,3,198>>,
            <<63,239,112,164,61,165,7,110>>, <<63,239,1,61,52,172,42,40>>, <<63,238,114,167,95,149,1,98>>, <<63,237,197,114,37,184,41,158>>,
            <<63,236,250,75,186,210,27,223>>, <<63,236,18,0,111,207,133,133>>, <<63,235,13,121,229,80,46,45>>, <<63,233,237,190,32,174,247,234>>,
            <<63,232,179,238,132,123,133,87>>, <<63,231,97,70,173,110,150,39>>, <<63,229,247,27,52,253,81,187>>, <<63,228,118,216,90,203,126,239>>,
            <<63,226,226,0,150,84,151,54>>, <<63,225,58,43,18,60,126,238>>, <<63,223,2,4,37,157,11,174>>, <<63,219,112,130,146,141,156,247>>,
            <<63,215,195,104,43,42,15,57>>, <<63,211,254,103,112,179,33,217>>, <<63,208,37,74,237,218,222,145>>, <<63,200,119,226,205,79,89,188>>,
            <<63,192,140,147,232,1,236,81>>, <<63,177,33,64,59,54,196,227>>, <<63,113,129,227,168,121,162,114>>, <<191,173,228,58,255,248,129,175>>,
            <<191,190,237,81,38,240,216,60>>, <<191,199,100,181,5,141,47,57>>, <<191,207,59,58,98,218,220,204>>, <<191,211,121,43,80,211,89,117>>,
            <<191,215,65,35,167,189,255,136>>, <<191,218,241,184,175,130,199,34>>, <<191,222,135,52,103,35,210,113>>, <<191,224,254,254,7,98,139,230>>,
            <<191,226,169,73,227,220,1,108>>, <<191,228,64,209,10,188,102,106>>, <<191,229,195,249,158,11,105,114>>, <<191,231,49,62,60,82,139,180>>,
            <<191,232,135,47,136,58,200,227>>, <<191,233,196,117,154,5,145,202>>, <<191,234,231,209,89,110,31,163>>, <<191,235,240,29,190,150,113,117>>,
            <<191,236,220,80,248,189,184,198>>, <<191,237,171,125,121,151,207,89>>, <<191,238,92,210,228,56,105,153>>, <<191,238,239,158,222,162,88,153>>,
            <<191,239,99,77,197,39,126,9>>, <<191,239,183,107,62,229,113,227>>, <<191,239,235,162,178,201,91,9>>, <<191,239,255,191,156,165,78,40>>,
            <<191,239,243,173,194,1,170,140>>, <<191,239,199,121,70,117,72,27>>, <<191,239,123,78,159,112,12,208>>, <<191,239,15,122,103,132,37,119>>,
            <<191,238,132,105,17,90,230,38>>, <<191,237,218,166,122,162,192,125>>, <<191,237,18,221,95,100,38,187>>, <<191,236,45,214,174,74,131,95>>,
            <<191,235,44,120,190,142,94,35>>, <<191,234,15,198,104,75,185,52>>, <<191,232,216,222,0,45,123,25>>, <<191,231,136,248,55,116,63,146>>,
            <<191,230,33,102,225,121,97,94>>, <<191,228,163,147,159,235,96,238>>, <<191,227,16,254,119,24,203,185>>, <<191,225,107,60,75,183,161,147>>,
            <<191,223,103,234,151,91,127,176>>, <<191,219,217,198,134,231,77,93>>, <<191,216,47,159,195,125,122,95>>, <<191,212,109,37,214,100,148,161>>,
            <<191,208,150,32,191,202,209,144>>, <<191,201,92,218,82,111,54,140>>, <<191,193,115,241,6,107,120,187>>, <<191,178,242,244,72,114,223,126>>,
            <<191,135,87,189,190,150,70,215>>, <<63,170,63,232,52,55,206,178>>, <<63,189,29,172,174,217,212,70>>, <<63,198,127,14,103,69,190,87>>,
            <<63,206,88,166,90,103,245,209>>, <<63,211,9,220,135,255,182,54>>, <<63,214,212,64,12,166,255,117>>, <<63,218,135,173,197,195,161,33>>,
            <<63,222,32,108,213,119,198,222>>, <<63,224,205,111,153,225,233,50>>, <<63,226,121,194,168,239,151,4>>, <<63,228,19,128,207,117,147,253>>,
            <<63,229,153,13,245,58,183,181>>, <<63,231,8,226,80,177,248,11>>, <<63,232,97,139,241,3,151,21>>, <<63,233,161,176,50,29,109,184>>,
            <<63,234,200,13,25,84,152,32>>, <<63,235,211,122,153,57,18,5>>, <<63,236,194,235,187,86,57,167>>, <<63,237,149,111,174,180,108,33>>,
            <<63,238,74,50,186,11,240,122>>, <<63,238,224,127,16,181,66,59>>, <<63,239,87,189,137,128,231,85>>, <<63,239,175,118,54,190,191,69>>,
            <<63,239,231,80,222,219,229,51>>, <<63,239,255,21,85,29,232,150>>, <<63,239,246,171,178,34,17,57>>, <<63,239,206,28,107,231,228,245>>,
            <<63,239,133,144,77,78,181,82>>, <<63,239,29,80,77,14,213,52>>, <<63,238,149,197,68,87,163,136>>, <<63,237,239,119,133,92,74,6>>,
            <<63,237,43,14,82,57,79,185>>, <<63,236,73,79,52,188,152,201>>, <<63,235,75,29,55,185,105,141>>, <<63,234,49,120,2,175,236,190>>,
            <<63,232,253,122,216,174,29,74>>, <<63,231,176,91,123,108,95,158>>, <<63,230,75,104,243,196,194,97>>, <<63,228,208,10,64,189,203,168>>,
            <<63,227,63,188,238,123,227,236>>, <<63,225,156,19,150,132,157,255>>, <<63,223,205,104,149,171,21,56>>, <<63,220,66,173,218,204,132,47>>,
            <<63,216,155,134,235,127,125,209>>, <<63,212,219,160,76,206,9,60>>, <<63,209,6,191,103,207,89,70>>, <<63,202,65,125,125,103,149,82>>,
            <<63,194,91,20,25,50,124,92>>, <<63,180,196,105,80,54,42,157>>, <<63,146,247,30,3,76,245,120>>, <<191,166,155,62,27,41,203,223>>,
            <<191,187,77,167,97,18,207,147>>, <<191,197,153,28,247,82,191,176>>, <<191,205,117,173,100,182,45,198>>, <<191,210,154,78,109,131,190,73>>,
            <<191,214,103,16,132,141,105,165>>, <<191,218,29,74,160,4,70,2>>, <<191,221,185,65,17,139,112,139>>, <<191,224,155,169,74,131,225,186>>,
            <<191,226,73,253,251,156,123,172>>, <<191,227,229,237,207,11,104,206>>, <<191,229,109,218,119,177,88,68>>, <<191,230,224,57,201,1,160,96>>,
            <<191,232,59,151,67,114,34,20>>, <<191,233,126,149,139,30,28,135>>, <<191,234,167,239,199,35,72,247>>, <<191,235,182,122,232,88,77,73>>,
            <<191,236,169,38,214,19,43,193>>, <<191,237,126,255,127,209,203,117>>, <<191,238,55,45,210,177,13,225>>, <<191,238,208,248,145,187,207,56>>,
            <<191,239,75,197,16,55,246,74>>, <<191,239,167,23,205,54,128,119>>, <<191,239,226,148,239,201,235,197>>, <<191,239,254,0,163,102,20,150>>,
            <<191,239,249,63,84,12,173,78>>, <<191,239,212,85,202,9,196,29>>, <<191,239,143,105,37,36,111,23>>, <<191,239,42,190,183,72,118,27>>,
            <<191,238,166,187,190,206,146,120>>, <<191,238,3,229,0,169,72,152>>, <<191,237,66,222,66,220,221,177>>, <<191,236,100,105,167,200,197,113>>,
            <<191,235,105,102,234,231,220,22>>, <<191,234,82,210,127,204,66,148>>, <<191,233,33,196,148,56,206,188>>, <<191,231,215,111,246,87,165,68>>,
            <<191,230,117,32,224,41,54,220>>, <<191,228,252,59,169,98,1,178>>, <<191,227,110,59,97,7,105,17>>, <<191,225,204,176,80,51,139,125>>,
            <<191,224,25,62,103,128,18,156>>, <<191,220,171,55,49,88,238,98>>, <<191,217,7,28,60,81,238,188>>, <<191,213,73,213,100,128,195,35>>,
            <<191,209,119,37,111,90,118,104>>, <<191,203,37,201,85,206,251,117>>, <<191,195,65,250,31,158,0,242>>, <<191,182,149,153,70,120,16,34>>,
            <<191,154,66,30,19,253,135,7>>, <<63,162,246,72,210,178,190,47>>, <<63,185,125,71,68,220,162,33>>, <<63,196,178,227,178,117,72,151>>,
            <<63,204,146,82,116,165,64,183>>, <<63,210,42,130,116,98,234,101>>, <<63,213,249,150,122,147,106,157>>, <<63,217,178,144,160,24,64,121>>,
            <<63,221,81,178,114,128,8,27>>, <<63,224,105,171,190,211,50,24>>, <<63,226,25,252,122,193,55,222>>, <<63,227,184,24,161,16,118,49>>,
            <<63,229,66,95,181,29,78,148>>, <<63,230,183,69,44,122,145,151>>, <<63,232,21,81,253,194,143,75>>, <<63,233,91,38,25,199,179,56>>,
            <<63,234,135,121,205,168,243,104>>, <<63,235,153,31,12,102,23,103>>, <<63,236,143,2,158,168,197,75>>, <<63,237,104,45,55,144,24,82>>,
            <<63,238,35,196,109,104,237,15>>, <<63,238,193,11,149,88,136,26>>, <<63,239,63,100,129,28,152,22>>, <<63,239,158,80,30,34,4,143>>,
            <<63,239,221,110,245,82,31,67>>, <<63,239,252,129,139,22,15,161>>, <<63,239,251,104,159,47,171,51>>, <<63,239,218,37,76,39,159,115>>,
            <<63,239,152,217,6,49,79,27>>, <<63,239,55,197,121,133,112,100>>, <<63,238,183,76,72,85,85,116>>, <<63,238,23,238,168,153,76,194>>,
            <<63,237,90,76,226,28,192,73>>, <<63,236,127,37,173,74,230,147>>, <<63,235,135,85,115,94,51,195>>, <<63,234,115,213,112,179,23,112>>,
            <<63,233,69,186,186,29,128,254>>, <<63,231,254,53,38,60,225,59>>, <<63,230,158,142,27,231,10,114>>, <<63,229,40,39,70,221,130,7>>,
            <<63,227,156,121,52,25,200,137>>, <<63,225,253,17,215,23,87,83>>, <<63,224,75,146,249,151,54,141>>, <<63,221,19,97,46,224,223,9>>,
            <<63,217,114,94,80,38,254,226>>, <<63,213,183,195,174,244,143,13>>, <<63,209,231,81,96,154,141,231>>, <<63,204,9,186,228,95,53,71>>,
            <<63,196,40,160,25,191,91,176>>, <<63,184,102,126,32,21,239,103>>, <<63,160,198,99,104,3,163,213>>, <<191,158,162,40,243,94,241,131>>,
            <<191,183,172,146,98,167,99,203>>, <<191,195,204,101,150,92,246,119>>, <<191,203,174,152,126,90,42,180>>, <<191,209,186,122,16,110,165,246>>,
            <<191,213,139,211,90,210,236,95>>, <<191,217,71,129,40,244,4,238>>, <<191,220,233,194,80,191,113,37>>, <<191,224,55,119,157,18,123,52>>,
            <<191,225,233,190,198,6,153,168>>, <<191,227,138,1,221,243,83,150>>, <<191,229,22,158,62,25,184,1>>, <<191,230,142,5,3,82,219,170>>,
            <<191,231,238,188,159,60,234,174>>, <<191,233,55,98,83,244,99,176>>, <<191,234,102,171,152,219,44,242>>, <<191,235,123,103,103,6,241,179>>,
            <<191,236,116,127,108,8,55,112>>, <<191,237,80,249,33,213,208,8>>, <<191,238,15,246,202,194,244,51>>, <<191,238,176,184,80,130,199,208>>,
            <<191,239,50,156,5,88,234,156>>, <<191,239,149,31,70,180,183,27>>, <<191,239,215,223,0,147,224,130>>, <<191,239,250,152,17,39,245,228>>,
            <<191,239,253,39,140,90,224,15>>, <<191,239,223,138,222,238,67,125>>, <<191,239,161,223,209,18,134,58>>, <<191,239,68,100,104,114,229,68>>,
            <<191,238,199,118,169,212,155,66>>, <<191,238,43,148,58,135,251,135>>, <<191,237,113,89,226,10,125,191>>, <<191,236,153,130,236,88,234,50>>,
            <<191,235,164,232,109,144,31,19>>, <<191,234,148,128,103,154,1,23>>, <<191,233,105,92,210,194,9,205>>, <<191,232,36,170,138,42,118,37>>,
            <<191,230,199,176,29,55,13,78>>, <<191,229,83,204,135,29,216,207>>, <<191,227,202,117,205,232,98,219>>, <<191,226,45,55,138,71,209,0>>,
            <<191,224,125,177,89,183,16,141>>, <<191,221,123,42,120,245,111,243>>, <<191,217,221,75,194,69,167,95>>, <<191,214,37,105,190,140,224,152>>,
            <<191,210,87,65,198,127,6,184>>, <<191,204,237,79,50,253,187,117>>, <<191,197,15,3,8,125,194,166>>, <<191,186,55,17,210,230,119,144>>,
            <<191,164,107,127,251,156,12,164>>, <<63,151,87,90,95,158,25,79>>, <<63,181,219,142,195,252,94,185>>, <<63,194,229,165,161,158,59,6>>,
            <<63,202,202,130,119,54,203,63>>, <<63,209,74,54,182,64,255,191>>, <<63,213,29,200,146,89,23,182>>, <<63,216,220,29,158,168,55,180>>,
            <<63,220,129,114,5,247,220,227>>, <<63,224,5,13,140,57,192,78>>, <<63,225,185,69,125,221,208,36>>, <<63,227,91,170,30,252,188,141>>,
            <<63,228,234,150,164,44,199,24>>, <<63,230,100,121,214,187,227,71>>, <<63,231,199,215,168,51,190,33>>, <<63,233,19,74,176,150,181,130>>,
            <<63,234,69,133,149,213,5,192>>, <<63,235,93,84,91,16,157,237>>, <<63,236,89,157,150,94,155,59>>, <<63,237,57,99,139,206,173,7>>,
            <<63,237,251,197,44,155,229,147>>, <<63,238,159,254,249,134,38,7>>, <<63,239,37,107,199,112,165,184>>, <<63,239,139,133,101,127,196,20>>,
            <<63,239,209,229,36,15,6,81>>, <<63,239,248,68,59,247,177,215>>, <<63,239,254,124,21,191,229,65>>, <<63,239,228,134,112,106,202,211>>,
            <<63,239,170,125,103,194,196,24>>, <<63,239,80,155,90,23,73,182>>, <<63,238,215,58,173,136,205,95>>, <<63,238,62,213,117,29,202,192>>,
            <<63,237,136,4,245,252,95,184>>, <<63,236,179,129,13,67,235,246>>, <<63,235,194,31,119,33,208,81>>, <<63,234,180,210,247,219,45,145>>,
            <<63,233,140,170,103,163,216,137>>, <<63,232,74,207,162,56,74,159>>, <<63,230,240,134,91,76,26,111>>, <<63,229,127,42,216,250,169,76>>,
            <<63,227,248,48,149,129,113,254>>, <<63,226,93,32,201,163,173,182>>, <<63,224,175,152,225,47,242,46>>, <<63,221,226,145,182,105,173,49>>,
            <<63,218,71,227,47,14,119,19>>, <<63,214,146,198,38,157,85,207>>, <<63,210,198,245,44,189,126,218>>, <<63,205,208,131,76,198,134,151>>,
            <<63,197,245,31,237,158,200,105>>, <<63,188,7,78,85,206,125,22>>, <<63,168,16,88,165,103,124,0>>, <<191,144,12,62,42,210,237,108>>,
            <<191,180,10,66,115,106,185,244>>, <<191,193,254,166,211,168,165,246>>, <<191,201,230,19,85,206,120,177>>, <<191,208,217,185,219,56,139,19>>,
            <<191,212,175,119,143,33,59,211>>, <<191,216,112,103,102,93,71,196>>, <<191,220,24,194,237,23,119,162>>, <<191,223,164,220,103,232,214,238>>,
            <<191,225,136,145,67,126,6,134>>, <<191,227,45,17,254,77,127,233>>, <<191,228,190,73,121,197,247,103>>, <<191,230,58,164,48,224,119,159>>,
            <<191,231,160,163,154,2,60,157>>, <<191,232,238,223,167,184,52,237>>, <<191,234,36,8,50,213,144,99>>, <<191,235,62,230,76,136,225,220>>,
            <<191,236,62,93,119,19,197,19>>, <<191,237,33,108,195,234,175,95>>, <<191,237,231,47,214,29,12,127>>, <<191,238,142,223,200,1,165,155>>,
            <<191,239,23,211,243,64,163,34>>, <<191,239,129,130,154,113,170,170>>, <<191,239,203,129,115,163,163,63>>, <<191,239,245,134,19,66,232,73>>,
            <<191,239,255,102,54,242,41,69>>, <<191,239,233,23,240,10,226,175>>, <<191,239,178,177,173,154,158,144>>, <<191,239,92,106,37,210,236,123>>,
            <<191,238,230,152,31,2,208,23>>, <<191,238,81,178,24,80,240,65>>, <<191,237,158,77,210,142,76,13>>, <<191,236,205,31,185,153,99,188>>,
            <<191,235,222,250,46,233,52,183>>, <<191,234,212,204,181,246,191,107>>, <<191,233,175,163,3,89,113,89>>, <<191,232,112,163,239,137,72,11>>,
            <<191,231,25,16,78,85,40,5>>, <<191,229,170,65,172,55,132,75>>, <<191,228,37,168,242,206,43,222>>, <<191,226,140,204,245,210,196,134>>,
            <<191,224,225,72,234,8,129,98>>, <<191,222,73,149,143,86,172,219>>, <<191,218,178,35,51,255,188,143>>, <<191,214,255,215,123,110,160,248>>,
            <<191,211,54,106,31,214,115,62>>, <<191,206,179,84,62,21,103,109>>, <<191,198,218,243,203,209,77,64>>, <<191,189,215,45,160,212,141,54>>,
            <<191,171,180,225,70,231,206,59>>, <<63,129,129,217,45,101,43,170>>, <<63,178,56,179,124,116,33,92>>, <<63,193,23,108,44,188,173,79>>,
            <<63,201,1,78,17,221,30,244>>, <<63,208,105,4,245,114,190,27>>, <<63,212,64,225,192,16,42,230>>, <<63,216,4,95,230,78,114,141>>,
            <<63,219,175,182,98,71,145,42>>, <<63,223,63,52,121,62,92,35>>, <<63,225,87,162,184,226,122,6>>, <<63,226,254,58,22,220,178,88>>,
            <<63,228,145,183,82,60,20,72>>, <<63,230,16,132,156,227,23,167>>, <<63,231,121,32,247,10,169,16>>, <<63,232,202,33,178,119,188,72>>,
            <<63,234,2,51,223,62,124,72>>, <<63,235,32,29,160,164,46,110>>, <<63,236,34,191,104,201,42,96>>, <<63,237,9,21,25,221,33,250>>,
            <<63,237,210,55,11,187,88,113>>, <<63,238,125,90,244,231,13,106>>, <<63,239,9,212,181,254,53,50>>, <<63,239,119,23,6,213,213,36>>,
            <<63,239,196,180,4,145,190,161>>, <<63,239,242,93,160,40,220,185>>, <<63,239,255,229,236,230,254,167>>, <<63,239,237,63,78,156,252,142>>,
            <<63,239,186,124,135,80,232,30>>, <<63,239,103,208,164,96,120,155>>, <<63,238,245,142,203,40,170,5>>, <<63,238,100,41,229,102,44,1>>,
            <<63,237,180,52,45,162,216,164>>, <<63,236,230,94,156,36,61,254>>, <<63,235,251,120,52,239,87,95>>, <<63,234,244,109,55,148,77,214>>,
            <<63,233,210,70,49,147,229,126>>, <<63,232,150,38,244,77,16,70>>, <<63,231,65,77,111,126,221,250>>, <<63,229,213,16,113,133,158,178>>,
            <<63,228,82,222,78,148,175,64>>, <<63,226,188,59,112,72,5,228>>, <<63,225,18,192,207,0,9,140>>, <<63,222,176,52,173,31,234,252>>,
            <<63,219,28,10,111,186,222,245>>, <<63,215,108,156,82,66,217,154>>, <<63,211,165,159,45,25,229,153>>, <<63,207,149,191,20,144,22,76>>,
            <<63,199,192,123,166,182,242,25>>, <<63,191,166,169,173,53,187,191>>, <<63,175,89,13,194,168,140,145>>, <<191,87,87,222,89,235,202,225>>,
            <<191,176,102,231,235,119,44,43>>, <<191,192,47,248,173,226,49,55>>, <<191,200,28,53,164,61,2,244>>, <<191,207,240,50,247,143,33,62>>,
            <<191,211,210,8,148,239,224,53>>, <<191,215,152,8,133,197,57,161>>, <<191,219,70,77,194,232,79,235>>, <<191,222,217,36,158,139,78,111>>,
            <<191,225,38,122,128,200,108,218>>, <<191,226,207,35,4,117,87,217>>, <<191,228,100,224,193,203,121,163>>, <<191,229,230,27,166,220,52,219>>,
            <<191,231,81,80,66,180,153,255>>, <<191,232,165,17,75,7,244,241>>, <<191,233,224,9,11,146,149,97>>, <<191,235,0,250,189,196,87,112>>,
            <<191,236,6,195,199,88,149,249>>, <<191,236,240,92,222,155,125,208>>, <<191,237,188,219,19,54,132,229>>, <<191,238,107,112,186,122,36,4>>,
            <<191,238,251,110,62,54,158,224>>, <<191,239,108,66,205,84,52,111>>, <<191,239,189,124,237,121,16,18>>, <<191,239,238,202,237,42,84,57>>,
            <<191,239,255,251,53,245,166,221>>, <<191,239,240,252,126,80,128,4>>, <<191,239,193,221,218,251,25,21>>, <<191,239,114,206,175,213,132,171>>,
            <<191,239,4,30,128,54,40,28>>, <<191,238,118,60,158,241,157,228>>, <<191,237,201,183,190,100,53,120>>, <<191,236,255,61,96,238,1,154>>,
            <<191,236,23,153,42,113,113,56>>, <<191,235,19,180,19,132,61,21>>, <<191,233,244,147,127,32,114,231>>, <<191,232,187,88,51,193,139,148>>,
            <<191,231,105,61,56,245,103,28>>, <<191,229,255,150,154,133,250,210>>, <<191,228,127,208,18,121,207,146>>, <<191,226,235,107,155,67,152,11>>,
            <<191,225,67,255,235,144,133,176>>, <<191,223,22,109,186,120,17,201>>, <<191,219,133,151,130,8,70,52>>, <<191,215,217,19,65,90,170,191>>,
            <<191,212,20,146,226,172,167,86>>, <<191,208,59,224,111,151,193,240>>, <<191,200,165,180,130,238,69,182>>, <<191,192,186,222,58,188,119,144>>,
            <<191,177,126,104,254,52,91,189>>, <<191,119,87,214,150,124,130,206>>, <<63,173,41,203,155,55,125,90>>, <<63,190,144,158,177,187,128,27>>,
            <<63,199,54,205,6,221,93,207>>, <<63,207,13,241,203,136,222,54>>, <<63,211,98,237,126,105,243,193>>, <<63,215,43,98,173,21,31,254>>,
            <<63,218,220,138,109,140,10,67>>, <<63,222,114,174,43,64,154,124>>, <<63,224,245,25,62,172,224,177>>, <<63,226,159,205,99,180,170,126>>,
            <<63,228,55,198,93,147,246,56>>, <<63,229,187,105,219,216,50,239>>, <<63,231,41,50,1,107,90,93>>, <<63,232,127,174,236,173,182,204>>,
            <<63,233,189,136,41,116,91,187>>, <<63,234,225,126,11,119,50,76>>, <<63,235,234,106,239,211,36,89>>, <<63,236,215,68,100,92,105,191>>,
            <<63,237,167,28,51,152,32,38>>, <<63,238,89,33,84,79,247,204>>, <<63,238,236,160,187,206,115,82>>, <<63,239,97,6,17,240,186,43>>,
            <<63,239,181,220,70,88,182,92>>, <<63,239,234,206,6,41,113,157>>, <<63,239,255,166,17,215,87,59>>, <<63,239,244,79,114,181,252,34>>,
            <<63,239,200,213,144,13,152,187>>, <<63,239,125,100,35,162,254,108>>, <<63,239,18,71,13,189,147,82>>, <<63,238,135,234,8,215,136,43>>,
            <<63,237,222,216,61,69,36,206>>, <<63,237,23,187,181,63,223,232>>, <<63,236,51,92,177,226,87,20>>, <<63,235,50,160,225,192,254,148>>,
            <<63,234,22,138,121,233,240,29>>, <<63,232,224,55,50,52,166,103>>, <<63,231,144,223,37,230,24,88>>, <<63,230,41,211,153,202,251,72>>,
            <<63,228,172,125,169,3,89,107>>, <<63,227,26,92,217,212,208,54>>, <<63,225,117,5,155,240,209,52>>, <<63,223,124,63,99,101,48,47>>,
            <<63,219,238,201,11,220,98,210>>, <<63,216,69,58,223,249,231,206>>, <<63,212,131,67,207,140,112,224>>, <<63,208,172,171,87,37,76,209>>,
            <<63,201,138,155,102,28,49,225>>, <<63,193,162,47,250,193,179,20>>, <<63,179,80,16,236,161,6,224>>, <<63,138,66,171,144,102,195,107>>,
            <<191,169,133,102,97,129,82,174>>, <<191,188,192,230,96,78,42,45>>, <<191,198,81,23,52,183,186,90>>, <<191,206,43,73,87,79,47,135>>,
            <<191,210,243,145,238,3,134,79>>, <<191,214,190,111,197,150,58,120>>, <<191,218,114,109,193,242,228,0>>, <<191,222,11,210,116,36,86,135>>,
            <<191,224,195,127,150,202,145,200>>, <<191,226,112,57,210,7,222,23>>, <<191,228,10,104,187,150,231,153>>, <<191,229,144,111,201,213,216,163>>,
            <<191,231,0,198,184,156,16,99>>, <<191,232,89,251,19,190,130,219>>, <<191,233,154,177,171,164,128,59>>, <<191,234,193,167,242,117,69,232>>,
            <<191,235,205,181,64,127,220,90>>, <<191,236,189,203,254,150,158,210>>, <<191,237,144,250,181,50,170,125>>, <<191,238,70,108,255,78,10,11>>,
            <<191,238,221,108,96,0,254,191>>, <<191,239,85,96,250,10,242,101>>, <<191,239,173,210,40,142,228,216>>, <<191,239,230,102,248,105,143,154>>,
            <<191,239,254,230,129,167,57,235>>, <<191,239,247,56,32,191,78,210>>, <<191,239,207,99,143,92,23,75>>, <<191,239,135,144,220,149,184,35>>,
            <<191,239,32,8,68,168,57,253>>, <<191,238,153,49,232,77,38,58>>, <<191,237,243,149,100,1,221,176>>, <<191,237,47,217,71,163,189,245>>,
            <<191,236,78,194,110,235,149,46>>, <<191,235,81,51,59,112,158,82>>, <<191,234,56,42,176,250,85,166>>, <<191,233,4,195,117,5,216,35>>,
            <<191,231,184,50,178,129,75,86>>, <<191,230,83,198,226,218,104,51>>, <<191,228,216,230,125,153,185,148>>, <<191,227,73,14,143,220,80,17>>,
            <<191,225,165,209,61,22,180,104>>, <<191,223,225,168,85,69,64,147>>, <<191,220,87,157,175,92,17,173>>, <<191,216,177,17,198,108,30,146>>,
            <<191,212,241,176,131,149,114,186>>, <<191,209,29,62,201,207,69,33>>, <<191,202,111,45,86,246,159,116>>, <<191,194,137,71,21,85,222,69>>,
            <<191,181,33,120,159,231,232,20>>, <<191,148,108,138,63,137,242,168>>, <<63,165,224,172,70,201,15,43>>, <<63,186,240,206,109,189,109,94>>,
            <<63,197,107,23,41,198,137,41>>, <<63,205,72,60,140,181,180,86>>, <<63,210,131,247,86,23,250,202>>, <<63,214,81,49,57,161,48,124>>,
            <<63,218,7,249,33,6,17,36>>, <<63,221,164,146,207,77,141,119>>, <<63,224,145,174,46,23,199,44>>, <<63,226,64,104,237,170,39,206>>,
            <<63,227,220,200,114,181,83,161>>, <<63,229,101,45,255,196,43,139>>, <<63,230,216,14,238,180,12,102>>, <<63,232,51,246,61,158,198,246>>,
            <<63,233,119,134,6,0,122,22>>, <<63,234,161,120,220,160,123,177>>, <<63,235,176,163,24,218,144,63>>, <<63,236,163,244,1,255,238,178>>,
            <<63,237,122,118,225,160,156,148>>, <<63,238,51,83,249,169,139,140>>, <<63,238,205,209,93,95,150,136>>, <<63,239,73,83,172,93,123,71>>,
            <<63,239,165,94,174,216,145,37>>, <<63,239,225,149,210,143,19,33>>, <<63,239,253,188,135,226,106,176>>, <<63,239,249,182,126,191,200,174>>,
            <<63,239,213,135,195,25,215,184>>, <<63,239,145,84,184,214,209,121>>, <<63,239,45,97,247,55,37,214>>, <<63,238,170,20,3,217,106,186>>,
            <<63,238,7,238,237,161,6,245>>, <<63,237,71,149,199,229,87,154>>, <<63,236,105,202,6,110,155,36>>, <<63,235,111,106,186,229,250,168>>,
            <<63,234,89,115,180,124,16,243>>, <<63,233,40,252,130,167,202,7>>, <<63,231,223,55,91,252,4,57>>, <<63,230,125,111,234,47,43,9>>,
            <<63,229,5,9,252,138,28,106>>, <<63,227,119,128,34,14,0,27>>, <<63,225,214,98,44,185,23,6>>, <<63,224,35,83,159,105,43,190>>,
            <<63,220,192,20,15,224,252,164>>, <<63,217,28,150,142,9,97,46>>, <<63,213,95,215,143,134,164,29>>, <<63,209,141,153,81,45,17,135>>,
            <<63,203,83,103,93,78,27,13>>, <<63,195,112,32,137,231,178,91>>, <<63,182,242,154,12,44,254,114>>, <<63,155,183,122,201,156,252,73>>,
            <<191,162,59,169,105,38,180,81>>, <<191,185,32,92,225,137,224,103>>, <<191,196,132,207,226,250,244,189>>, <<191,204,100,206,94,221,192,48>>,
            <<191,210,20,31,41,212,99,103>>, <<191,213,227,168,116,138,15,173>>, <<191,217,157,45,236,211,93,68>>, <<191,221,60,240,148,31,92,14>>,
            <<191,224,95,165,170,68,73,112>>, <<191,226,16,91,85,162,195,191>>, <<191,227,174,230,26,173,230,56>>, <<191,229,57,165,13,128,195,106>>,
            <<191,230,175,11,43,31,49,16>>, <<191,232,13,160,232,192,70,171>>, <<191,233,84,5,173,128,232,214>>, <<191,234,128,241,53,2,165,66>>,
            <<191,235,147,52,217,146,168,124>>, <<191,236,137,188,196,139,252,103>>, <<191,237,99,145,3,195,139,121>>, <<191,238,31,214,130,230,149,208>>,
            <<191,238,189,207,231,208,246,223>>, <<191,239,60,222,80,253,138,94>>, <<191,239,156,129,245,81,22,198>>, <<191,239,220,90,164,159,59,235>>,
            <<191,239,252,40,40,103,237,135>>, <<191,239,251,202,132,108,79,148>>, <<191,239,219,66,22,217,245,241>>, <<191,239,154,175,151,236,44,90>>,
            <<191,239,58,83,249,3,164,114>>, <<191,238,186,144,35,85,174,218>>, <<191,238,27,228,150,116,150,115>>, <<191,237,94,240,231,19,60,188>>,
            <<191,236,132,115,30,134,1,145>>, <<191,235,141,70,251,162,14,141>>, <<191,234,122,101,21,187,180,30>>, <<191,233,76,225,226,161,195,199>>,
            <<191,232,5,236,160,145,148,199>>, <<191,230,166,206,37,59,42,32>>, <<191,229,48,231,147,8,64,136>>, <<191,227,165,176,245,243,39,62>>,
            <<191,226,6,183,201,82,14,141>>, <<191,224,85,157,104,19,186,30>>, <<191,221,40,42,209,254,120,97>>, <<191,217,135,199,209,58,180,13>>,
            <<191,213,205,183,133,6,181,230>>, <<191,209,253,185,119,147,71,112>>, <<191,204,55,70,130,22,218,143>>, <<191,196,86,185,88,178,240,198>>,
            <<191,184,195,111,38,125,196,86>>, <<191,161,129,7,146,165,200,137>>, <<63,157,44,211,207,75,130,195>>, <<63,183,79,151,196,92,91,101>>,
            <<63,195,158,68,94,51,48,124>>, <<63,203,129,1,194,44,233,102>>, <<63,209,164,10,221,50,144,145>>, <<63,213,117,214,226,155,207,56>>,
            <<63,217,50,13,136,136,102,27>>, <<63,220,212,237,27,69,36,248>>, <<63,224,45,102,177,183,4,219>>, <<63,225,224,17,169,194,188,185>>,
            <<63,227,128,194,76,27,17,216>>, <<63,229,13,213,131,213,218,14>>, <<63,230,133,187,246,69,237,253>>, <<63,231,230,251,148,160,155,189>>,
            <<63,233,48,49,24,56,29,110>>, <<63,234,96,17,103,204,41,208>>, <<63,235,117,106,228,137,202,67>>, <<63,236,111,38,157,107,72,191>>,
            <<63,237,76,73,103,195,7,80>>, <<63,238,11,244,219,215,66,151>>, <<63,238,173,104,52,144,156,252>>, <<63,239,48,1,17,90,100,3>>,
            <<63,239,147,60,25,113,221,3>>, <<63,239,214,181,127,255,237,7>>, <<63,239,250,41,104,120,163,250>>, <<63,239,253,116,42,219,120,246>>,
            <<63,239,224,146,119,143,175,211>>, <<63,239,163,161,90,184,211,235>>, <<63,239,70,222,30,255,224,148>>, <<63,238,202,166,15,238,136,210>>,
            <<63,238,47,118,28,26,159,55>>, <<63,237,117,234,87,127,222,95>>, <<63,236,158,189,94,134,165,240>>, <<63,235,170,199,154,85,88,174>>,
            <<63,234,154,254,103,41,47,23>>, <<63,233,112,115,29,145,124,173>>, <<63,232,44,81,255,133,118,144>>, <<63,230,207,225,10,104,254,215>>,
            <<63,229,92,126,175,48,107,31>>, <<63,227,211,160,113,236,89,89>>, <<63,226,54,209,114,33,11,86>>, <<63,224,135,176,221,98,28,27>>,
            <<63,221,143,224,155,133,206,72>>, <<63,217,242,164,43,127,11,146>>, <<63,214,59,78,246,168,152,200>>, <<63,210,109,157,200,24,180,25>>,
            <<63,205,26,199,207,116,48,46>>, <<63,197,61,14,130,202,29,136>>, <<63,186,147,241,228,229,199,199>>, <<63,165,38,23,137,83,43,236>>,
            <<191,149,225,243,196,51,199,128>>, <<191,181,126,133,31,244,226,75>>, <<191,194,183,119,154,48,197,18>>, <<191,202,156,217,172,66,59,183>>,
            <<191,209,51,187,228,244,121,75>>, <<191,213,7,189,241,19,118,60>>, <<191,216,198,153,88,110,42,20>>, <<191,220,108,137,190,173,93,242>>,
            <<191,223,245,227,215,24,100,212>>, <<191,225,175,140,138,162,242,231>>, <<191,227,82,93,160,112,238,72>>, <<191,228,225,191,244,120,129,202>>,
            <<191,230,92,33,217,139,160,236>>, <<191,231,192,6,193,199,73,178>>, <<191,233,12,8,189,80,155,132>>, <<191,234,62,217,226,82,149,109>>,
            <<191,235,87,69,156,210,161,221>>, <<191,236,84,49,229,9,243,210>>, <<191,237,52,160,91,11,195,118>>, <<191,237,247,175,70,154,244,162>>,
            <<191,238,156,154,122,46,4,68>>, <<191,239,34,188,24,60,216,165>>, <<191,239,137,141,58,17,242,109>>, <<191,239,208,166,119,119,117,9>>,
            <<191,239,247,192,78,183,56,251>>, <<191,239,254,179,108,133,159,146>>, <<191,239,229,120,211,142,161,30>>, <<191,239,172,41,227,125,107,177>>,
            <<191,239,83,0,63,119,106,139>>, <<191,238,218,85,148,36,113,190>>, <<191,238,66,163,61,126,81,192>>, <<191,237,140,129,204,194,135,129>>,
            <<191,236,184,168,111,0,216,213>>, <<191,235,199,236,52,225,21,24>>, <<191,234,187,63,60,89,96,102>>, <<191,233,147,175,189,44,109,96>>,
            <<191,232,82,102,249,36,183,161>>, <<191,230,248,168,17,29,225,47>>, <<191,229,135,206,192,9,53,74>>, <<191,228,1,77,253,51,130,218>>,
            <<191,226,102,174,135,44,225,205>>, <<191,224,185,141,88,200,249,96>>, <<191,221,247,52,19,138,230,124>>, <<191,218,93,42,57,111,178,206>>,
            <<191,214,168,156,119,240,151,9>>, <<191,210,221,68,206,154,247,121>>, <<191,205,253,232,80,192,235,230>>, <<191,198,35,29,10,32,212,199>>,
            <<191,188,100,28,62,130,0,252>>, <<191,168,202,225,41,161,25,10>>, <<63,141,45,149,227,226,142,220>>, <<63,179,173,42,255,20,146,137>>,
            <<63,193,208,108,150,141,157,77>>, <<63,201,184,89,19,237,215,145>>, <<63,208,195,51,182,159,7,62>>, <<63,212,153,95,14,27,153,119>>,
            <<63,216,90,210,193,228,73,249>>, <<63,220,3,199,217,133,116,104>>, <<63,223,144,143,255,37,165,39>>, <<63,225,126,204,153,161,241,196>>,
            <<63,227,35,184,177,251,83,93>>, <<63,228,181,100,242,6,156,220>>, <<63,230,50,61,95,76,216,141>>, <<63,231,152,194,241,196,81,185>>,
            <<63,232,231,141,21,11,126,124>>, <<63,234,29,75,19,15,59,15>>, <<63,235,56,197,102,175,144,253>>, <<63,236,56,222,245,14,165,67>>,
            <<63,237,28,150,44,78,123,185>>, <<63,237,227,6,6,157,88,123>>, <<63,238,139,102,240,140,12,16>>, <<63,239,21,15,145,198,171,235>>,
            <<63,239,127,117,119,101,171,177>>, <<63,239,202,45,159,44,78,7>>, <<63,239,244,236,227,40,12,7>>, <<63,239,255,136,69,68,248,145>>,
            <<63,239,233,245,26,139,0,70>>, <<63,239,180,73,21,216,141,80>>, <<63,239,94,186,50,15,205,51>>, <<63,238,233,158,123,204,115,170>>,
            <<63,238,85,107,186,216,179,251>>, <<63,237,162,182,251,184,100,208>>, <<63,236,210,51,249,193,114,142>>, <<63,235,228,180,106,88,139,162>>,
            <<63,234,219,39,42,7,112,0>>, <<63,233,182,151,76,65,128,133>>, <<63,232,120,43,14,199,231,195>>, <<63,231,33,34,177,187,98,120>>,
            <<63,229,178,215,53,133,146,20>>, <<63,228,46,184,255,221,203,207>>, <<63,226,150,78,105,69,202,248>>, <<63,224,235,50,52,115,202,10>>,
            <<63,222,94,35,226,104,81,210>>, <<63,218,199,88,152,197,21,76>>, <<63,215,21,158,157,88,212,102>>, <<63,211,76,173,23,195,181,244>>,
            <<63,206,224,165,18,154,41,171>>, <<63,199,8,225,241,149,127,112>>, <<63,190,51,232,43,149,163,140>>, <<63,172,111,88,85,66,111,61>>,
            <<191,125,45,198,105,128,125,56>>, <<191,177,219,143,109,106,73,192>>, <<191,192,233,38,83,178,234,108>>, <<191,200,211,130,241,37,127,234>>,
            <<191,208,82,115,200,117,90,250>>, <<191,212,42,187,168,199,62,232>>, <<191,215,238,187,43,92,159,139>>, <<191,219,154,168,200,53,103,248>>,
            <<191,223,42,211,44,149,94,118>>, <<191,225,77,210,120,226,12,241>>, <<191,226,244,212,27,219,196,170>>, <<191,228,136,197,16,5,13,198>>,
            <<191,230,8,15,18,221,102,24>>, <<191,231,113,48,167,46,89,64>>, <<191,232,194,190,152,190,243,109>>, <<191,233,251,101,105,157,183,145>>,
            <<191,235,25,234,167,145,114,25>>, <<191,236,29,46,40,89,90,177>>, <<191,237,4,43,43,126,247,251>>, <<191,237,205,249,96,149,153,238>>,
            <<191,238,121,205,208,224,32,6>>, <<191,239,6,251,171,114,5,0>>, <<191,239,116,244,242,254,48,129>>, <<191,239,195,75,12,164,222,50>>,
            <<191,239,241,175,47,49,23,182>>, <<191,239,255,242,178,85,159,104>>, <<191,239,238,7,61,153,207,214>>, <<191,239,187,254,214,199,41,74>>,
            <<191,239,106,11,207,201,14,200>>, <<191,238,248,128,148,16,227,251>>, <<191,238,103,207,85,177,138,170>>, <<191,237,184,137,154,133,120,91>>,
            <<191,236,235,95,169,211,13,251>>, <<191,236,1,31,219,2,66,146>>, <<191,234,250,181,198,22,39,26>>, <<191,233,217,41,86,186,137,178>>,
            <<191,232,157,157,194,212,147,127>>, <<191,231,73,80,101,161,9,186>>, <<191,229,221,151,128,134,161,75>>, <<191,228,91,224,226,221,182,189>>,
            <<191,226,197,176,122,7,157,60>>, <<191,225,28,158,203,70,240,210>>, <<191,222,196,174,177,196,120,185>>, <<191,219,49,45,232,90,229,4>>,
            <<191,215,130,83,252,86,37,25>>, <<191,211,187,213,49,13,61,48>>, <<191,207,194,251,34,232,164,240>>, <<191,199,238,90,60,251,162,105>>,
            <<191,192,1,167,210,206,214,181>>, <<191,176,9,184,119,127,100,125>>, <<61,73,98,13,5,69,192,164>>, <<63,176,9,184,119,127,74,18>>,
            <<63,192,1,167,210,206,201,148>>, <<63,199,238,90,60,251,180,217>>, <<63,207,194,251,34,232,183,29>>, <<63,211,187,213,49,13,54,228>>,
            <<63,215,130,83,252,86,60,181>>, <<63,219,49,45,232,90,237,131>>, <<63,222,196,174,177,196,114,236>>, <<63,225,28,158,203,70,238,6>>,
            <<63,226,197,176,122,7,161,8>>, <<63,228,91,224,226,221,192,136>>, <<63,229,221,151,128,134,158,225>>, <<63,231,73,80,101,161,12,242>>,
            <<63,232,157,157,194,212,150,127>>, <<63,233,217,41,86,186,135,191>>, <<63,234,250,181,198,22,37,83>>, <<63,236,1,31,219,2,72,182>>,
            <<63,236,235,95,169,211,12,144>>, <<63,237,184,137,154,133,119,33>>, <<63,238,103,207,85,177,140,32>>, <<63,238,248,128,148,16,229,42>>,
            <<63,239,106,11,207,201,15,173>>, <<63,239,187,254,214,199,42,236>>, <<63,239,238,7,61,153,208,37>>, <<63,239,255,242,178,85,159,101>>,
            <<63,239,241,175,47,49,23,232>>, <<63,239,195,75,12,164,221,160>>, <<63,239,116,244,242,254,46,45>>, <<63,239,6,251,171,114,5,208>>,
            <<63,238,121,205,208,224,30,152>>, <<63,237,205,249,96,149,152,57>>, <<63,237,4,43,43,126,249,96>>, <<63,236,29,46,40,89,92,69>>,
            <<63,235,25,234,167,145,107,89>>, <<63,233,251,101,105,157,185,128>>, <<63,232,194,190,152,190,245,134>>, <<63,231,113,48,167,46,86,14>>,
            <<63,230,8,15,18,221,98,177>>, <<63,228,136,197,16,5,4,10>>, <<63,226,244,212,27,219,192,226>>, <<63,225,77,210,120,226,8,255>>,
            <<63,223,42,211,44,149,100,61>>, <<63,219,154,168,200,53,109,240>>, <<63,215,238,187,43,92,150,215>>, <<63,212,42,187,168,199,38,209>>,
            <<63,208,82,115,200,117,97,96>>, <<63,200,211,130,241,37,109,129>>, <<63,192,233,38,83,178,215,210>>, <<63,177,219,143,109,106,100,40>>,
            <<63,125,45,198,105,130,36,178>>, <<191,172,111,88,85,67,57,253>>, <<191,190,51,232,43,149,137,67>>, <<191,199,8,225,241,149,114,107>>,
            <<191,206,224,165,18,154,59,226>>, <<191,211,76,173,23,195,190,230>>, <<191,215,21,158,157,88,236,19>>, <<191,218,199,88,152,197,29,210>>,
            <<191,222,94,35,226,104,90,20>>, <<191,224,235,50,52,115,199,59>>, <<191,226,150,78,105,69,200,70>>, <<191,228,46,184,255,221,201,62>>,
            <<191,229,178,215,53,133,155,104>>, <<191,231,33,34,177,187,96,46>>, <<191,232,120,43,14,199,234,201>>, <<191,233,182,151,76,65,131,80>>,
            <<191,234,219,39,42,7,110,51>>, <<191,235,228,180,106,88,145,219>>, <<191,236,210,51,249,193,120,17>>, <<191,237,162,182,251,184,99,144>>,
            <<191,238,85,107,186,216,178,237>>, <<191,238,233,158,123,204,116,224>>, <<191,239,94,186,50,15,206,32>>, <<191,239,180,73,21,216,143,9>>,
            <<191,239,233,245,26,139,0,158>>, <<191,239,255,136,69,68,248,158>>, <<191,239,244,236,227,40,12,51>>, <<191,239,202,45,159,44,78,104>>,
            <<191,239,127,117,119,101,172,71>>, <<191,239,21,15,145,198,168,230>>, <<191,238,139,102,240,140,13,13>>, <<191,237,227,6,6,157,86,206>>,
            <<191,237,28,150,44,78,121,198>>, <<191,236,56,222,245,14,163,13>>, <<191,235,56,197,102,175,138,81>>, <<191,234,29,75,19,15,56,89>>,
            <<191,232,231,141,21,11,128,144>>, <<191,231,152,194,241,196,83,246>>, <<191,230,50,61,95,76,213,43>>, <<191,228,181,100,242,6,153,72>>,
            <<191,227,35,184,177,251,73,50>>, <<191,225,126,204,153,161,237,214>>, <<191,223,144,143,255,37,156,253>>, <<191,220,3,199,217,133,122,91>>,
            <<191,216,90,210,193,228,80,24>>, <<191,212,153,95,14,27,159,186>>, <<191,208,195,51,182,158,238,191>>, <<191,201,184,89,19,237,228,136>>,
            <<191,193,208,108,150,141,138,184>>, <<191,179,173,42,255,20,109,30>>, <<191,141,45,149,227,225,98,162>>, <<63,168,202,225,41,161,227,221>>,
            <<63,188,100,28,62,130,38,73>>, <<63,198,35,29,10,32,199,190>>, <<63,205,253,232,80,192,223,8>>, <<63,210,221,68,206,154,241,38>>,
            <<63,214,168,156,119,240,159,207>>, <<63,218,93,42,57,111,201,239>>, <<63,221,247,52,19,138,238,198>>, <<63,224,185,141,88,200,253,96>>,
            <<63,226,102,174,135,44,223,24>>, <<63,228,1,77,253,51,128,69>>, <<63,229,135,206,192,9,62,174>>, <<63,230,248,168,17,29,234,5>>,
            <<63,232,82,102,249,36,181,123>>, <<63,233,147,175,189,44,112,49>>, <<63,234,187,63,60,89,98,251>>, <<63,235,199,236,52,225,23,108>>,
            <<63,236,184,168,111,0,222,110>>, <<63,237,140,129,204,194,137,78>>, <<63,238,66,163,61,126,80,173>>, <<63,238,218,85,148,36,112,221>>,
            <<63,239,83,0,63,119,105,222>>, <<63,239,172,41,227,125,108,92>>, <<63,239,229,120,211,142,162,35>>, <<63,239,254,179,108,133,159,168>>,
            <<63,239,247,192,78,183,56,197>>, <<63,239,208,166,119,119,116,136>>, <<63,239,137,141,58,17,242,253>>, <<63,239,34,188,24,60,213,183>>,
            <<63,238,156,154,122,46,5,58>>, <<63,237,247,175,70,154,245,203>>, <<63,237,52,160,91,11,193,139>>, <<63,236,84,49,229,9,241,164>>,
            <<63,235,87,69,156,210,159,109>>, <<63,234,62,217,226,82,142,43>>, <<63,233,12,8,189,80,152,153>>, <<63,231,192,6,193,199,75,234>>,
            <<63,230,92,33,217,139,163,74>>, <<63,228,225,191,244,120,132,76>>, <<63,227,82,93,160,112,234,139>>, <<63,225,175,140,138,162,232,83>>,
            <<63,223,245,227,215,24,92,178>>, <<63,220,108,137,190,173,85,138>>, <<63,216,198,153,88,110,33,109>>, <<63,213,7,189,241,19,124,124>>,
            <<63,209,51,187,228,244,96,216>>, <<63,202,156,217,172,66,72,169>>, <<63,194,183,119,154,48,210,41>>, <<63,181,126,133,31,244,252,171>>,
            <<63,149,225,243,196,51,49,104>>, <<191,165,38,23,137,83,118,236>>, <<191,186,147,241,228,230,44,195>>, <<191,197,61,14,130,202,48,10>>,
            <<191,205,26,199,207,116,35,75>>, <<191,210,109,157,200,24,173,194>>, <<191,214,59,78,246,168,146,148>>, <<191,217,242,164,43,127,34,198>>,
            <<191,221,143,224,155,133,228,203>>, <<191,224,135,176,221,98,32,32>>, <<191,226,54,209,114,33,15,49>>, <<191,227,211,160,113,236,93,8>>,
            <<191,229,92,126,175,48,104,168>>, <<191,230,207,225,10,105,7,189>>, <<191,232,44,81,255,133,116,101>>, <<191,233,112,115,29,145,122,171>>,
            <<191,234,154,254,103,41,45,64>>, <<191,235,170,199,154,85,91,10>>, <<191,236,158,189,94,134,168,10>>, <<191,237,117,234,87,127,227,83>>,
            <<191,238,47,118,28,26,160,198>>, <<191,238,202,166,15,238,138,25>>, <<191,239,70,222,30,255,223,225>>, <<191,239,163,161,90,184,211,109>>,
            <<191,239,224,146,119,143,176,239>>, <<191,239,253,116,42,219,120,225>>, <<191,239,250,41,104,120,163,204>>, <<191,239,214,181,127,255,236,142>>,
            <<191,239,147,60,25,113,220,63>>, <<191,239,48,1,17,90,100,193>>, <<191,238,173,104,52,144,153,95>>, <<191,238,11,244,219,215,67,186>>,
            <<191,237,76,73,103,195,8,165>>, <<191,236,111,38,157,107,74,68>>, <<191,235,117,106,228,137,199,219>>, <<191,234,96,17,103,204,39,40>>,
            <<191,233,48,49,24,56,21,155>>, <<191,231,230,251,148,160,152,159>>, <<191,230,133,187,246,69,234,168>>, <<191,229,13,213,131,213,220,140>>,
            <<191,227,128,194,76,27,20,119>>, <<191,225,224,17,169,194,178,50>>, <<191,224,45,102,177,183,7,182>>, <<191,220,212,237,27,69,42,225>>,
            <<191,217,50,13,136,136,93,123>>, <<191,213,117,214,226,155,198,97>>, <<191,209,164,10,221,50,150,238>>, <<191,203,129,1,194,44,183,209>>,
            <<191,195,158,68,94,51,61,144>>, <<191,183,79,151,196,92,117,192>>, <<191,157,44,211,207,75,236,151>>, <<63,161,129,7,146,166,19,142>>,
            <<63,184,195,111,38,126,41,101>>, <<63,196,86,185,88,179,34,229>>, <<63,204,55,70,130,22,236,221>>, <<63,209,253,185,119,147,80,113>>,
            <<63,213,205,183,133,6,175,173>>, <<63,217,135,199,209,58,173,251>>, <<63,221,40,42,209,254,142,249>>, <<63,224,85,157,104,19,183,70>>,
            <<63,226,6,183,201,82,11,209>>, <<63,227,165,176,245,243,42,242>>, <<63,229,48,231,147,8,68,12>>, <<63,230,166,206,37,59,39,202>>,
            <<63,232,5,236,160,145,157,42>>, <<63,233,76,225,226,161,198,166>>, <<63,234,122,101,21,187,178,66>>, <<63,235,141,70,251,162,12,223>>,
            <<63,236,132,115,30,134,3,178>>, <<63,237,94,240,231,19,65,198>>, <<63,238,27,228,150,116,152,9>>, <<63,238,186,144,35,85,176,41>>,
            <<63,239,58,83,249,3,165,120>>, <<63,239,154,175,151,236,43,213>>, <<63,239,219,66,22,217,245,161>>, <<63,239,251,202,132,108,79,252>>,
            <<63,239,252,40,40,103,237,160>>, <<63,239,220,90,164,159,60,57>>, <<63,239,156,129,245,81,22,11>>, <<63,239,60,222,80,253,137,90>>,
            <<63,238,189,207,231,208,247,202>>, <<63,238,31,214,130,230,145,136>>, <<63,237,99,145,3,195,137,158>>, <<63,236,137,188,196,139,253,230>>,
            <<63,235,147,52,217,146,170,42>>, <<63,234,128,241,53,2,162,161>>, <<63,233,84,5,173,128,225,21>>, <<63,232,13,160,232,192,72,218>>,
            <<63,230,175,11,43,31,45,193>>, <<63,229,57,165,13,128,191,232>>, <<63,227,174,230,26,173,232,211>>, <<63,226,16,91,85,162,198,123>>,
            <<63,224,95,165,170,68,62,137>>, <<63,221,60,240,148,31,97,240>>, <<63,217,157,45,236,211,99,85>>, <<63,213,227,168,116,138,6,220>>,
            <<63,210,20,31,41,212,90,103>>, <<63,204,100,206,94,221,142,176>>, <<63,196,132,207,226,250,194,160>>, <<63,185,32,92,225,137,187,14>>,
            <<63,162,59,169,105,38,233,56>>, <<191,155,183,122,201,156,146,116>>, <<191,182,242,154,12,45,35,211>>, <<191,195,112,32,137,231,228,136>>,
            <<191,203,83,103,93,78,14,31>>, <<191,209,141,153,81,45,26,141>>, <<191,213,95,215,143,134,172,245>>, <<191,217,28,150,142,9,91,24>>,
            <<191,220,192,20,15,224,246,186>>, <<191,224,35,83,159,105,54,180>>, <<191,225,214,98,44,185,20,71>>, <<191,227,119,128,34,13,253,123>>,
            <<191,229,5,9,252,138,31,243>>, <<191,230,125,111,234,47,46,96>>, <<191,231,223,55,91,252,12,173>>, <<191,233,40,252,130,167,204,237>>,
            <<191,234,89,115,180,124,19,157>>, <<191,235,111,106,186,229,248,244>>, <<191,236,105,202,6,110,153,159>>, <<191,237,71,149,199,229,89,126>>,
            <<191,238,7,238,237,161,11,87>>, <<191,238,170,20,3,217,105,200>>, <<191,239,45,97,247,55,38,228>>, <<191,239,145,84,184,214,210,61>>,
            <<191,239,213,135,195,25,215,98>>, <<191,239,249,182,126,191,200,141>>, <<191,239,253,188,135,226,106,99>>, <<191,239,225,149,210,143,19,106>>,
            <<191,239,165,94,174,216,145,162>>, <<191,239,73,83,172,93,122,75>>, <<191,238,205,209,93,95,149,67>>, <<191,238,51,83,249,169,137,255>>,
            <<191,237,122,118,225,160,154,193>>, <<191,236,163,244,1,255,236,154>>, <<191,235,176,163,24,218,145,232>>, <<191,234,161,120,220,160,125,135>>,
            <<191,233,119,134,6,0,119,63>>, <<191,232,51,246,61,158,190,168>>, <<191,230,216,14,238,180,14,183>>, <<191,229,101,45,255,196,40,13>>,
            <<191,227,220,200,114,181,79,243>>, <<191,226,64,104,237,170,42,134>>, <<191,224,145,174,46,23,188,80>>, <<191,221,164,146,207,77,118,248>>,
            <<191,218,7,249,33,6,23,48>>, <<191,214,81,49,57,161,54,176>>, <<191,210,131,247,86,23,241,207>>, <<191,205,72,60,140,181,162,17>>,
            <<191,197,107,23,41,198,87,29>>, <<191,186,240,206,109,189,72,11>>, <<191,165,224,172,70,200,196,44>>, <<63,148,108,138,63,137,136,206>>,
            <<63,181,33,120,159,231,205,179>>, <<63,194,137,71,21,85,209,44>>, <<63,202,111,45,86,246,209,32>>, <<63,209,29,62,201,207,62,193>>,
            <<63,212,241,176,131,149,123,151>>, <<63,216,177,17,198,108,39,58>>, <<63,220,87,157,175,92,11,190>>, <<63,223,225,168,85,69,86,149>>,
            <<63,225,165,209,61,22,184,81>>, <<63,227,73,14,143,220,77,110>>, <<63,228,216,230,125,153,183,18>>, <<63,230,83,198,226,218,107,143>>,
            <<63,231,184,50,178,129,78,124>>, <<63,233,4,195,117,5,224,13>>, <<63,234,56,42,176,250,88,86>>, <<63,235,81,51,59,112,160,196>>,
            <<63,236,78,194,110,235,147,163>>, <<63,237,47,217,71,163,188,154>>, <<63,237,243,149,100,1,220,134>>, <<63,238,153,49,232,77,41,241>>,
            <<63,239,32,8,68,168,57,57>>, <<63,239,135,144,220,149,184,241>>, <<63,239,207,99,143,92,23,205>>, <<63,239,247,56,32,191,78,170>>,
            <<63,239,254,230,129,167,57,182>>, <<63,239,230,102,248,105,143,59>>, <<63,239,173,210,40,142,229,80>>, <<63,239,85,96,250,10,243,17>>,
            <<63,238,221,108,96,0,253,130>>, <<63,238,70,108,255,78,8,134>>, <<63,237,144,250,181,50,165,162>>, <<63,236,189,203,254,150,156,194>>,
            <<63,235,205,181,64,127,218,8>>, <<63,234,193,167,242,117,71,185>>, <<63,233,154,177,171,164,130,55>>, <<63,232,89,251,19,190,122,159>>,
            <<63,231,0,198,184,156,7,144>>, <<63,229,144,111,201,213,219,21>>, <<63,228,10,104,187,150,227,241>>, <<63,226,112,57,210,7,218,65>>,
            <<63,224,195,127,150,202,141,201>>, <<63,222,11,210,116,36,64,30>>, <<63,218,114,109,193,242,219,117>>, <<63,214,190,111,197,150,64,167>>,
            <<63,210,243,145,238,3,140,161>>, <<63,206,43,73,87,79,60,99>>, <<63,198,81,23,52,183,167,223>>, <<63,188,192,230,96,77,197,73>>,
            <<63,169,133,102,97,129,7,181>>, <<191,138,66,171,144,103,239,166>>, <<191,179,80,16,236,160,236,123>>, <<191,193,162,47,250,193,165,248>>,
            <<191,201,138,155,102,28,99,159>>, <<191,208,172,171,87,37,70,110>>, <<191,212,131,67,207,140,106,155>>, <<191,216,69,58,223,249,240,125>>,
            <<191,219,238,201,11,220,107,67>>, <<191,223,124,63,99,101,56,90>>, <<191,225,117,5,155,240,219,214>>, <<191,227,26,92,217,212,211,249>>,
            <<191,228,172,125,169,3,86,228>>, <<191,230,41,211,153,202,248,229>>, <<191,231,144,223,37,230,22,27>>, <<191,232,224,55,50,52,169,90>>,
            <<191,234,22,138,121,233,247,118>>, <<191,235,50,160,225,193,1,13>>, <<191,236,51,92,177,226,89,76>>, <<191,237,23,187,181,63,222,135>>,
            <<191,237,222,216,61,69,35,159>>, <<191,238,135,234,8,215,139,249>>, <<191,239,18,71,13,189,146,135>>, <<191,239,125,100,35,162,253,214>>,
            <<191,239,200,213,144,13,153,70>>, <<191,239,244,79,114,181,252,98>>, <<191,239,255,166,17,215,87,48>>, <<191,239,234,206,6,41,112,180>>,
            <<191,239,181,220,70,88,181,187>>, <<191,239,97,6,17,240,186,209>>, <<191,238,236,160,187,206,116,43>>, <<191,238,89,33,84,79,248,217>>,
            <<191,237,167,28,51,152,27,97>>, <<191,236,215,68,100,92,100,64>>, <<191,235,234,106,239,211,34,13>>, <<191,234,225,126,11,119,47,192>>,
            <<191,233,189,136,41,116,88,242>>, <<191,232,127,174,236,173,184,237>>, <<191,231,41,50,1,107,81,155>>, <<191,229,187,105,219,216,53,93>>,
            <<191,228,55,198,93,147,248,200>>, <<191,226,159,205,99,180,173,47>>, <<191,224,245,25,62,172,220,182>>, <<191,222,114,174,43,64,146,59>>,
            <<191,218,220,138,109,139,243,57>>, <<191,215,43,98,173,21,23,63>>, <<191,211,98,237,126,105,250,15>>, <<191,207,13,241,203,136,235,12>>,
            <<191,199,54,205,6,221,106,211>>, <<191,190,144,158,177,187,27,77>>, <<191,173,41,203,155,55,178,52>>, <<63,119,87,214,150,126,219,79>>,
            <<63,177,126,104,254,52,129,47>>, <<63,192,186,222,58,188,138,42>>, <<63,200,165,180,130,238,56,185>>, <<63,208,59,224,111,151,218,126>>,
            <<63,212,20,146,226,172,161,13>>, <<63,215,217,19,65,90,164,155>>, <<63,219,133,151,130,8,64,59>>, <<63,223,22,109,186,120,25,252>>,
            <<63,225,67,255,235,144,137,163>>, <<63,226,235,107,155,67,162,71>>, <<63,228,127,208,18,121,211,45>>, <<63,229,255,150,154,133,248,107>>,
            <<63,231,105,61,56,245,100,218>>, <<63,232,187,88,51,193,137,123>>, <<63,233,244,147,127,32,122,84>>, <<63,235,19,180,19,132,59,81>>,
            <<63,236,23,153,42,113,115,119>>, <<63,236,255,61,96,238,3,150>>, <<63,237,201,183,190,100,55,46>>, <<63,238,118,60,158,241,156,224>>,
            <<63,239,4,30,128,54,43,60>>, <<63,239,114,206,175,213,132,14>>, <<63,239,193,221,218,251,24,173>>, <<63,239,240,252,126,80,127,209>>,
            <<63,239,255,251,53,245,166,218>>, <<63,239,238,202,237,42,83,102>>, <<63,239,189,124,237,121,14,117>>, <<63,239,108,66,205,84,51,140>>,
            <<63,238,251,110,62,54,157,179>>, <<63,238,107,112,186,122,37,11>>, <<63,237,188,219,19,54,134,30>>, <<63,236,240,92,222,155,120,101>>,
            <<63,236,6,195,199,88,151,145>>, <<63,235,0,250,189,196,89,54>>, <<63,233,224,9,11,146,146,158>>, <<63,232,165,17,75,7,241,243>>,
            <<63,231,81,80,66,180,156,67>>, <<63,229,230,27,166,220,43,154>>, <<63,228,100,224,193,203,124,47>>, <<63,226,207,35,4,117,90,134>>,
            <<63,225,38,122,128,200,111,165>>, <<63,222,217,36,158,139,70,54>>, <<63,219,70,77,194,232,56,245>>, <<63,215,152,8,133,197,48,232>>,
            <<63,211,210,8,148,239,215,73>>, <<63,207,240,50,247,143,15,18>>, <<63,200,28,53,164,61,15,243>>, <<63,192,47,248,173,226,62,88>>,
            <<63,176,102,231,235,118,198,216>>, <<63,87,87,222,89,242,104,212>>, <<191,175,89,13,194,168,87,187>>, <<191,191,166,169,173,53,224,253>>,
            <<191,199,192,123,166,183,4,138>>, <<191,207,149,191,20,144,9,121>>, <<191,211,165,159,45,25,253,193>>, <<191,215,108,156,82,66,211,114>>,
            <<191,219,28,10,111,186,216,247>>, <<191,222,176,52,173,31,229,46>>, <<191,225,18,192,207,0,13,132>>, <<191,226,188,59,112,72,16,46>>,
            <<191,228,82,222,78,148,178,224>>, <<191,229,213,16,113,133,162,32>>, <<191,231,65,77,111,126,225,51>>, <<191,232,150,38,244,77,14,40>>,
            <<191,233,210,70,49,147,227,138>>, <<191,234,244,109,55,148,84,173>>, <<191,235,251,120,52,239,85,196>>, <<191,236,230,94,156,36,60,146>>,
            <<191,237,180,52,45,162,218,99>>, <<191,238,100,41,229,102,45,121>>, <<191,238,245,142,203,40,173,59>>, <<191,239,103,208,164,96,123,11>>,
            <<191,239,186,124,135,80,232,186>>, <<191,239,237,63,78,156,252,84>>, <<191,239,255,229,236,230,254,163>>, <<191,239,242,93,160,40,220,116>>,
            <<191,239,196,180,4,145,189,27>>, <<191,239,119,23,6,213,213,190>>, <<191,239,9,212,181,254,52,14>>, <<191,238,125,90,244,231,11,253>>,
            <<191,237,210,55,11,187,89,164>>, <<191,237,9,21,25,221,35,94>>, <<191,236,34,191,104,201,36,84>>, <<191,235,32,29,160,164,48,47>>,
            <<191,234,2,51,223,62,126,54>>, <<191,232,202,33,178,119,185,81>>, <<191,231,121,32,247,10,165,224>>, <<191,230,16,132,156,227,14,118>>,
            <<191,228,145,183,82,60,16,176>>, <<191,226,254,58,22,220,174,145>>, <<191,225,87,162,184,226,124,206>>, <<191,223,63,52,121,62,97,234>>,
            <<191,219,175,182,98,71,136,180>>, <<191,216,4,95,230,78,91,5>>, <<191,212,64,225,192,16,49,44>>, <<191,208,105,4,245,114,181,9>>,
            <<191,201,1,78,17,221,12,141>>, <<191,193,23,108,44,188,186,109>>, <<191,178,56,179,124,116,59,194>>, <<191,129,129,217,45,97,255,112>>,
            <<63,171,180,225,70,231,153,95>>, <<63,189,215,45,160,212,114,237>>, <<63,198,218,243,203,209,95,183>>, <<63,206,179,84,62,21,121,164>>,
            <<63,211,54,106,31,214,139,116>>, <<63,214,255,215,123,110,169,185>>, <<63,218,178,35,51,255,197,22>>, <<63,222,73,149,143,86,167,7>>,
            <<63,224,225,72,234,8,126,147>>, <<63,226,140,204,245,210,200,89>>, <<63,228,37,168,242,206,53,186>>, <<63,229,170,65,172,55,129,219>>,
            <<63,231,25,16,78,85,43,68>>, <<63,232,112,163,239,137,75,18>>, <<63,233,175,163,3,89,111,96>>, <<63,234,212,204,181,246,198,86>>,
            <<63,235,222,250,46,233,58,243>>, <<63,236,205,31,185,153,98,75>>, <<63,237,158,77,210,142,74,204>>, <<63,238,81,178,24,80,241,193>>,
            <<63,238,230,152,31,2,209,79>>, <<63,239,92,106,37,210,237,106>>, <<63,239,178,177,173,154,159,53>>, <<63,239,233,23,240,10,227,9>>,
            <<63,239,255,102,54,242,41,59>>, <<63,239,245,134,19,66,232,116>>, <<63,239,203,129,115,163,162,183>>, <<63,239,129,130,154,113,168,113>>,
            <<63,239,23,211,243,64,163,234>>, <<63,238,142,223,200,1,164,55>>, <<63,237,231,47,214,29,10,212>>, <<63,237,33,108,195,234,176,190>>,
            <<63,236,62,93,119,19,191,28>>, <<63,235,62,230,76,136,223,103>>, <<63,234,36,8,50,213,146,75>>, <<63,232,238,223,167,184,55,0>>,
            <<63,231,160,163,154,2,57,115>>, <<63,230,58,164,48,224,116,63>>, <<63,228,190,73,121,197,237,189>>, <<63,227,45,17,254,77,124,40>>,
            <<63,225,136,145,67,126,2,153>>, <<63,223,164,220,103,232,220,174>>, <<63,220,24,194,237,23,125,148>>, <<63,216,112,103,102,93,63,24>>,
            <<63,212,175,119,143,33,35,206>>, <<63,208,217,185,219,56,145,117>>, <<63,201,230,19,85,206,102,81>>, <<63,193,254,166,211,168,147,97>>,
            <<63,180,10,66,115,106,212,87>>, <<63,144,12,62,42,209,87,88>>, <<191,168,16,88,165,103,198,251>>, <<191,188,7,78,85,206,98,199>>,
            <<191,197,245,31,237,158,187,95>>, <<191,205,208,131,76,198,152,215>>, <<191,210,198,245,44,189,135,211>>, <<191,214,146,198,38,157,109,144>>,
            <<191,218,71,227,47,14,127,161>>, <<191,221,226,145,182,105,181,125>>, <<191,224,175,152,225,47,239,91>>, <<191,226,93,32,201,163,171,1>>,
            <<191,227,248,48,149,129,123,233>>, <<191,229,127,42,216,250,178,179>>, <<191,230,240,134,91,76,24,32>>, <<191,232,74,207,162,56,77,173>>,
            <<191,233,140,170,103,163,219,92>>, <<191,234,180,210,247,219,43,190>>, <<191,235,194,31,119,33,214,162>>, <<191,236,179,129,13,67,238,9>>,
            <<191,237,136,4,245,252,94,114>>, <<191,238,62,213,117,29,201,171>>, <<191,238,215,58,173,136,206,159>>, <<191,239,80,155,90,23,74,173>>,
            <<191,239,170,125,103,194,197,236>>, <<191,239,228,134,112,106,203,53>>, <<191,239,254,124,21,191,229,88>>, <<191,239,248,68,59,247,177,252>>,
            <<191,239,209,229,36,15,6,170>>, <<191,239,139,133,101,127,193,242>>, <<191,239,37,107,199,112,166,123>>, <<191,238,159,254,249,134,38,253>>,
            <<191,237,251,197,44,155,227,239>>, <<191,237,57,99,139,206,171,29>>, <<191,236,89,157,150,94,153,14>>, <<191,235,93,84,91,16,151,89>>,
            <<191,234,69,133,149,213,3,18>>, <<191,233,19,74,176,150,183,145>>, <<191,231,199,215,168,51,192,88>>, <<191,230,100,121,214,187,223,237>>,
            <<191,228,234,150,164,44,195,139>>, <<191,227,91,170,30,252,178,114>>, <<191,225,185,69,125,221,204,60>>, <<191,224,5,13,140,57,188,62>>,
            <<191,220,129,114,5,247,226,207>>, <<191,216,220,29,158,168,61,205>>, <<191,213,29,200,146,88,255,192>>, <<191,209,74,54,182,65,6,30>>,
            <<191,202,202,130,119,54,216,48>>, <<191,194,229,165,161,158,40,119>>, <<191,181,219,142,195,252,57,84>>, <<191,151,87,90,95,157,131,56>>,
            <<63,164,107,127,251,156,215,139>>, <<63,186,55,17,210,230,156,230>>, <<63,197,15,3,8,125,181,153>>, <<63,204,237,79,50,253,174,145>>,
            <<63,210,87,65,198,127,0,97>>, <<63,214,37,105,190,140,248,105>>, <<63,217,221,75,194,69,190,150>>, <<63,221,123,42,120,245,120,71>>,
            <<63,224,125,177,89,183,20,147>>, <<63,226,45,55,138,71,206,71>>, <<63,227,202,117,205,232,96,65>>, <<63,229,83,204,135,29,226,69>>,
            <<63,230,199,176,29,55,10,252>>, <<63,232,36,170,138,42,115,249>>, <<63,233,105,92,210,194,12,167>>, <<63,234,148,128,103,154,3,180>>,
            <<63,235,164,232,109,144,33,112>>, <<63,236,153,130,236,88,239,228>>, <<63,237,113,89,226,10,127,150>>, <<63,238,43,148,58,135,250,108>>,
            <<63,238,199,118,169,212,154,90>>, <<63,239,68,100,104,114,228,143>>, <<63,239,161,223,209,18,136,37>>, <<63,239,223,138,222,238,67,49>>,
            <<63,239,253,39,140,90,224,47>>, <<63,239,250,152,17,39,245,185>>, <<63,239,215,223,0,147,224,12>>, <<63,239,149,31,70,180,183,163>>,
            <<63,239,50,156,5,88,231,202>>, <<63,238,176,184,80,130,200,192>>, <<63,238,15,246,202,194,245,86>>, <<63,237,80,249,33,213,206,39>>,
            <<63,236,116,127,108,8,53,74>>, <<63,235,123,103,103,6,239,76>>, <<63,234,102,171,152,219,37,198>>, <<63,233,55,98,83,244,96,205>>,
            <<63,231,238,188,159,60,236,224>>, <<63,230,142,5,3,82,222,3>>, <<63,229,22,158,62,25,186,127>>, <<63,227,138,1,221,243,73,137>>,
            <<63,225,233,190,198,6,156,101>>, <<63,224,55,119,157,18,119,41>>, <<63,220,233,194,80,191,104,199>>, <<63,217,71,129,40,243,252,79>>,
            <<63,213,139,211,90,210,242,154>>, <<63,209,186,122,16,110,141,146>>, <<63,203,174,152,126,90,55,159>>, <<63,195,204,101,150,93,3,138>>,
            <<63,183,172,146,98,167,126,38>>, <<63,158,162,40,243,94,91,116>>, <<191,160,198,99,104,4,110,201>>, <<191,184,102,126,32,22,84,121>>,
            <<191,196,40,160,25,191,110,56>>, <<191,204,9,186,228,95,40,93>>, <<191,209,231,81,96,154,135,140>>, <<191,213,183,195,174,244,136,211>>,
            <<191,217,114,94,80,39,22,44>>, <<191,221,19,97,46,224,217,36>>, <<191,224,75,146,249,151,58,151>>, <<191,225,253,17,215,23,91,52>>,
            <<191,227,156,121,52,25,204,62>>, <<191,229,40,39,70,221,127,140>>, <<191,230,158,142,27,231,19,108>>, <<191,231,254,53,38,60,223,10>>,
            <<191,233,69,186,186,29,126,247>>, <<191,234,115,213,112,179,21,147>>, <<191,235,135,85,115,94,54,39>>, <<191,236,127,37,173,74,236,89>>,
            <<191,237,90,76,226,28,194,40>>, <<191,238,23,238,168,153,78,90>>, <<191,238,183,76,72,85,86,196>>, <<191,239,55,197,121,133,111,170>>,
            <<191,239,152,217,6,49,78,149>>, <<191,239,218,37,76,39,160,171>>, <<191,239,251,104,159,47,171,22>>, <<191,239,252,129,139,22,15,125>>,
            <<191,239,221,110,245,82,30,212>>, <<191,239,158,80,30,34,3,215>>, <<191,239,63,100,129,28,152,205>>, <<191,238,193,11,149,88,132,152>>,
            <<191,238,35,196,109,104,238,44>>, <<191,237,104,45,55,144,25,160>>, <<191,236,143,2,158,168,198,202>>, <<191,235,153,31,12,102,21,7>>,
            <<191,234,135,121,205,168,236,79>>, <<191,233,91,38,25,199,176,91>>, <<191,232,21,81,253,194,140,53>>, <<191,230,183,69,44,122,142,73>>,
            <<191,229,66,95,181,29,81,13>>, <<191,227,184,24,161,16,120,204>>, <<191,226,25,252,122,193,45,103>>, <<191,224,105,171,190,211,52,239>>,
            <<191,221,81,178,114,128,13,253>>, <<191,217,178,144,160,24,55,225>>, <<191,213,249,150,122,147,97,205>>, <<191,210,42,130,116,98,210,14>>,
            <<191,204,146,82,116,165,15,59>>, <<191,196,178,227,178,117,85,166>>, <<191,185,125,71,68,220,188,119>>, <<191,162,246,72,210,178,243,21>>,
            <<63,154,66,30,19,254,29,27>>, <<63,182,149,153,70,120,117,68>>, <<63,195,65,250,31,158,19,127>>, <<63,203,37,201,85,207,13,204>>,
            <<63,209,119,37,111,90,127,111>>, <<63,213,73,213,100,128,188,230>>, <<63,217,7,28,60,81,232,165>>, <<63,220,171,55,49,89,5,20>>,
            <<63,224,25,62,103,128,15,192>>, <<63,225,204,176,80,51,136,189>>, <<63,227,110,59,97,7,108,203>>, <<63,228,252,59,169,98,5,61>>,
            <<63,230,117,32,224,41,63,231>>, <<63,231,215,111,246,87,173,187>>, <<63,233,33,196,148,56,209,164>>, <<63,234,82,210,127,204,64,178>>,
            <<63,235,105,102,234,231,218,97>>, <<63,236,100,105,167,200,199,155>>, <<63,237,66,222,66,220,226,212>>, <<63,238,3,229,0,169,74,56>>,
            <<63,238,166,187,190,206,147,209>>, <<63,239,42,190,183,72,119,43>>, <<63,239,143,105,37,36,110,139>>, <<63,239,212,85,202,9,195,198>>,
            <<63,239,249,63,84,12,173,210>>, <<63,239,254,0,163,102,20,169>>, <<63,239,226,148,239,201,236,13>>, <<63,239,167,23,205,54,127,198>>,
            <<63,239,75,197,16,55,245,80>>, <<63,238,208,248,145,187,203,205>>, <<63,238,55,45,210,177,12,86>>, <<63,237,126,255,127,209,201,163>>,
            <<63,236,169,38,214,19,45,58>>, <<63,235,182,122,232,88,78,241>>, <<63,234,167,239,199,35,70,94>>, <<63,233,126,149,139,30,20,219>>,
            <<63,232,59,151,67,114,36,61>>, <<63,230,224,57,201,1,157,24>>, <<63,229,109,218,119,177,84,200>>, <<63,227,229,237,207,11,107,101>>,
            <<63,226,73,253,251,156,113,66>>, <<63,224,155,169,74,131,214,224>>, <<63,221,185,65,17,139,118,104>>, <<63,218,29,74,160,4,76,12>>,
            <<63,214,103,16,132,141,96,219>>, <<63,210,154,78,109,131,181,78>>, <<63,205,117,173,100,181,252,95>>, <<63,197,153,28,247,82,173,49>>,
            <<63,187,77,167,97,18,170,65>>, <<63,166,155,62,27,42,0,194>>, <<191,146,247,30,3,76,139,158>>, <<191,180,196,105,80,54,80,5>>,
            <<191,194,91,20,25,50,174,154>>, <<191,202,65,125,125,103,136,95>>, <<191,209,6,191,103,207,98,82>>, <<191,212,219,160,76,206,18,27>>,
            <<191,216,155,134,235,127,119,181>>, <<191,220,66,173,218,204,154,245>>, <<191,223,205,104,149,171,43,63>>, <<191,225,156,19,150,132,155,60>>,
            <<191,227,63,188,238,123,225,71>>, <<191,228,208,10,64,189,207,56>>, <<191,230,75,104,243,196,197,190>>, <<191,231,176,91,123,108,104,38>>,
            <<191,232,253,122,216,174,32,56>>, <<191,234,49,120,2,175,239,112>>, <<191,235,75,29,55,185,103,210>>, <<191,236,73,79,52,188,151,61>>,
            <<191,237,43,14,82,57,81,167>>, <<191,237,239,119,133,92,78,131>>, <<191,238,149,197,68,87,162,143>>, <<191,239,29,80,77,14,214,77>>,
            <<191,239,133,144,77,78,182,33>>, <<191,239,206,28,107,231,228,152>>, <<191,239,246,171,178,34,17,212>>, <<191,239,255,21,85,29,232,132>>,
            <<191,239,231,80,222,219,229,116>>, <<191,239,175,118,54,190,191,188>>, <<191,239,87,189,137,128,230,99>>, <<191,238,224,127,16,181,64,255>>,
            <<191,238,74,50,186,11,238,247>>, <<191,237,149,111,174,180,106,87>>, <<191,236,194,235,187,86,55,152>>, <<191,235,211,122,153,57,19,167>>,
            <<191,234,200,13,25,84,153,240>>, <<191,233,161,176,50,29,102,31>>, <<191,232,97,139,241,3,142,221>>, <<191,231,8,226,80,177,250,87>>,
            <<191,229,153,13,245,58,180,63>>, <<191,228,19,128,207,117,144,85>>, <<191,226,121,194,168,239,153,183>>, <<191,224,205,111,153,225,222,101>>,
            <<191,222,32,108,213,119,190,150>>, <<191,218,135,173,197,195,167,38>>, <<191,214,212,64,12,167,5,164>>, <<191,211,9,220,135,255,173,65>>,
            <<191,206,88,166,90,103,227,150>>, <<191,198,127,14,103,69,140,93>>, <<191,189,29,172,174,217,174,252>>, <<191,170,63,232,52,55,131,186>>,
            <<63,135,87,189,190,149,115,28>>, <<63,178,242,244,72,114,197,25>>, <<63,193,115,241,6,107,171,6>>, <<63,201,92,218,82,111,104,79>>,
            <<63,208,150,32,191,202,203,43>>, <<63,212,109,37,214,100,157,133>>, <<63,216,47,159,195,125,131,15>>, <<63,219,217,198,134,231,71,104>>,
            <<63,223,103,234,151,91,149,206>>, <<63,225,107,60,75,183,165,131>>, <<63,227,16,254,119,24,201,17>>, <<63,228,163,147,159,235,94,103>>,
            <<63,230,33,102,225,121,100,194>>, <<63,231,136,248,55,116,66,192>>, <<63,232,216,222,0,45,131,25>>, <<63,234,15,198,104,75,187,237>>,
            <<63,235,44,120,190,142,96,158>>, <<63,236,45,214,174,74,129,205>>, <<63,237,18,221,95,100,37,89>>, <<63,237,218,166,122,162,197,14>>,
            <<63,238,132,105,17,90,229,39>>, <<63,239,15,122,103,132,36,172>>, <<63,239,123,78,159,112,13,168>>, <<63,239,199,121,70,117,72,168>>,
            <<63,239,243,173,194,1,170,94>>, <<63,239,255,191,156,165,78,15>>, <<63,239,235,162,178,201,90,180>>, <<63,239,183,107,62,229,114,83>>,
            <<63,239,99,77,197,39,126,174>>, <<63,238,239,158,222,162,87,102>>, <<63,238,92,210,228,56,101,151>>, <<63,237,171,125,121,151,202,152>>,
            <<63,236,220,80,248,189,182,191>>, <<63,235,240,29,190,150,111,44>>, <<63,234,231,209,89,110,33,110>>, <<63,233,196,117,154,5,147,193>>,
            <<63,232,135,47,136,58,192,188>>, <<63,231,49,62,60,82,141,252>>, <<63,229,195,249,158,11,107,223>>, <<63,228,64,209,10,188,98,200>>,
            <<63,226,169,73,227,219,253,156>>, <<63,224,254,254,7,98,135,236>>, <<63,222,135,52,103,35,188,33>>, <<63,218,241,184,175,130,190,159>>,
            <<63,215,65,35,167,190,5,178>>, <<63,211,121,43,80,211,95,195>>, <<63,207,59,58,98,218,202,153>>, <<63,199,100,181,5,140,253,80>>,
            <<63,190,237,81,38,240,115,114>>, <<63,173,228,58,255,248,54,191>>, <<191,113,129,227,168,123,250,244>>, <<191,177,33,64,59,54,170,123>>,
            <<191,192,140,147,232,1,223,49>>, <<191,200,119,226,205,79,139,144>>, <<191,208,37,74,237,218,216,42>>, <<191,211,254,103,112,179,27,144>>,
            <<191,215,195,104,43,42,23,240>>, <<191,219,112,130,146,141,165,113>>, <<191,223,2,4,37,157,19,228>>, <<191,225,58,43,18,60,137,160>>,
            <<191,226,226,0,150,84,155,0>>, <<191,228,118,216,90,203,124,100>>, <<191,229,247,27,52,253,79,83>>, <<191,231,97,70,173,110,147,229>>,
            <<191,232,179,238,132,123,141,105>>, <<191,233,237,190,32,174,245,250>>, <<191,235,13,121,229,80,48,174>>, <<191,236,18,0,111,207,135,198>>,
            <<191,236,250,75,186,210,26,120>>, <<191,237,197,114,37,184,40,104>>, <<191,238,114,167,95,149,5,73>>, <<191,239,1,61,52,172,41,87>>,
            <<191,239,112,164,61,165,6,209>>, <<191,239,192,108,111,197,4,92>>, <<191,239,240,69,141,158,219,40>>, <<191,239,255,255,119,197,243,18>>,
            <<191,239,239,138,93,52,126,214>>, <<191,239,190,246,203,51,195,242>>, <<191,239,110,117,156,182,124,34>>, <<191,238,254,87,201,54,26,14>>,
            <<191,238,111,14,19,68,87,20>>, <<191,237,193,40,151,34,235,88>>, <<191,236,245,86,57,211,161,130>>, <<191,236,12,99,249,50,51,131>>,
            <<191,235,7,60,29,201,92,3>>, <<191,233,230,229,79,49,239,233>>, <<191,232,172,129,139,233,98,73>>, <<191,231,89,77,5,169,27,50>>,
            <<191,229,238,156,227,100,76,76>>, <<191,228,109,221,234,43,117,7>>, <<191,226,216,147,14,79,119,207>>, <<191,225,48,83,238,52,194,28>>,
            <<191,222,237,150,112,187,143,34>>, <<191,219,91,105,252,147,109,52>>, <<191,215,173,185,235,172,199,200>>, <<191,211,232,57,85,205,188,229>>,
            <<191,208,14,179,70,63,157,162>>, <<191,200,74,13,214,97,125,139>>, <<191,192,94,71,97,171,120,24>>, <<191,176,196,21,48,213,215,46>>,
            <<191,103,87,220,204,113,157,234>>, <<63,174,158,166,106,183,223,133>>, <<63,191,73,255,126,224,24,98>>, <<63,199,146,153,231,137,59,13>>,
            <<63,207,104,126,210,137,224,176>>, <<63,211,143,102,140,10,102,190>>, <<63,215,86,225,138,110,187,86>>, <<63,219,6,227,91,215,251,13>>,
            <<63,222,155,182,147,87,17,6>>, <<63,225,8,224,141,67,207,67>>, <<63,226,178,195,232,120,185,209>>, <<63,228,73,217,6,35,43,24>>,
            <<63,229,204,134,122,251,158,166>>, <<63,231,57,71,97,94,245,49>>, <<63,232,142,172,224,111,143,171>>, <<63,233,203,95,157,9,65,26>>,
            <<63,234,238,33,19,20,210,97>>, <<63,235,245,204,213,224,94,220>>, <<63,236,225,89,182,57,125,182>>, <<63,237,175,218,205,34,64,20>>,
            <<63,238,96,128,106,20,61,101>>, <<63,238,242,152,227,226,54,106>>, <<63,239,101,145,75,102,113,34>>, <<63,239,184,245,255,73,174,243>>,
            <<63,239,236,115,32,78,113,217>>, <<63,239,255,212,229,171,119,151>>, <<63,239,243,7,209,32,153,64>>, <<63,239,198,24,194,145,178,34>>,
            <<63,239,121,52,235,19,209,95>>, <<63,239,12,169,159,121,186,3>>, <<63,238,128,228,10,141,113,78>>, <<63,237,214,112,191,69,11,116>>,
            <<63,237,13,251,43,97,31,233>>, <<63,236,40,76,235,3,61,80>>, <<63,235,38,76,253,233,95,202>>, <<63,234,8,254,223,26,237,254>>,
            <<63,232,209,129,127,240,76,120>>, <<63,231,129,14,39,123,232,114>>, <<63,230,24,247,55,118,248,109>>, <<63,228,154,166,215,238,77,3>>,
            <<63,227,7,157,139,6,70,236>>, <<63,225,97,112,170,67,170,53>>, <<63,223,83,145,157,188,232,236>>, <<63,219,196,192,77,113,164,248>>,
            <<63,216,26,1,111,78,220,98>>, <<63,212,87,5,37,149,72,88>>, <<63,208,127,147,243,143,76,103>>, <<63,201,47,21,222,253,112,147>>,
            <<63,193,69,175,191,178,57,17>>, <<63,178,149,213,30,237,81,71>>, <<63,132,108,204,209,202,6,13>>, <<191,170,250,102,136,243,252,225>>,
            <<191,189,122,111,29,206,132,186>>, <<191,198,173,2,155,173,34,67>>, <<191,206,133,255,84,2,66,132>>, <<191,211,32,36,153,152,83,155>>,
            <<191,214,234,13,74,59,248,137>>, <<191,218,156,234,66,14,89,188>>, <<191,222,53,3,52,199,146,169>>, <<191,224,215,93,96,188,153,59>>,
            <<191,226,131,73,10,159,95,122>>, <<191,228,28,150,55,153,206,75>>, <<191,229,161,169,65,18,80,186>>, <<191,231,16,250,216,75,150,228>>,
            <<191,232,105,25,143,242,60,50>>, <<191,233,168,171,79,169,0,21>>, <<191,234,206,110,176,29,136,229>>, <<191,235,217,60,62,72,54,119>>,
            <<191,236,200,7,164,145,34,165>>, <<191,237,153,224,184,176,16,94>>, <<191,238,77,244,109,55,140,210>>, <<191,238,227,141,165,216,147,19>>,
            <<191,239,90,21,237,136,219,55>>, <<191,239,177,22,13,213,24,181>>, <<191,239,232,54,134,198,133,160>>, <<191,239,255,63,230,227,112,233>>,
            <<191,239,246,27,2,242,47,109>>, <<191,239,204,209,13,70,97,28>>, <<191,239,131,139,140,129,26,188>>, <<191,239,26,148,49,205,65,142>>,
            <<191,238,146,84,142,194,19,108>>, <<191,237,235,85,171,54,116,8>>, <<191,237,38,63,123,111,180,136>>, <<191,236,67,216,55,54,157,82>>,
            <<191,235,69,3,146,124,61,240>>, <<191,234,42,193,216,87,125,243>>, <<191,232,246,46,233,65,98,249>>, <<191,231,168,129,29,147,138,244>>,
            <<191,230,67,8,13,103,165,127>>, <<191,228,199,43,63,18,123,182>>, <<191,227,54,104,189,141,11,177>>, <<191,225,146,83,152,56,92,119>>,
            <<191,223,185,36,154,251,162,200>>, <<191,220,45,186,67,199,213,16>>, <<191,216,133,248,202,133,204,153>>, <<191,212,197,141,79,172,183,231>>,
            <<191,208,240,61,193,242,238,234>>, <<191,202,19,202,37,168,161,151>>, <<191,194,44,222,171,236,82,108>>, <<191,180,103,87,61,65,24,203>>,
            <<191,145,129,175,65,42,218,202>>, <<63,167,85,204,237,164,176,39>>, <<63,187,170,124,178,139,123,74>>, <<63,197,199,31,229,79,237,236>>,
            <<63,205,163,26,81,106,27,253>>, <<63,210,176,163,11,99,33,158>>, <<63,214,124,236,212,132,87,107>>, <<63,218,50,152,165,163,154,162>>,
            <<63,221,205,235,95,127,116,155>>, <<63,224,165,162,49,82,112,18>>, <<63,226,83,144,154,177,172,190>>, <<63,227,239,16,133,183,45,147>>,
            <<63,229,118,132,21,208,130,150>>, <<63,230,232,97,152,59,144,114>>, <<63,232,67,53,15,251,200,188>>, <<63,233,133,161,171,249,225,199>>,
            <<63,234,174,99,37,213,107,186>>, <<63,235,188,79,8,7,143,115>>, <<63,236,174,85,218,15,90,112>>, <<63,237,131,132,49,120,255,143>>,
            <<63,238,59,3,166,174,3,117>>, <<63,238,212,27,172,151,211,114>>, <<63,239,78,50,74,60,30,17>>, <<63,239,168,204,181,151,242,64>>,
            <<63,239,227,143,207,30,73,13>>, <<63,239,254,64,125,93,103,199>>, <<63,239,248,195,232,111,45,26>>, <<63,239,211,31,148,248,103,9>>,
            <<63,239,141,121,94,156,24,16>>, <<63,239,40,23,81,232,44,80>>, <<63,238,163,95,101,225,255,14>>, <<63,237,255,215,21,121,137,225>>,
            <<63,237,62,34,217,74,69,207>>, <<63,236,95,5,130,48,228,20>>, <<63,235,99,95,117,92,73,133>>, <<63,234,76,45,202,158,124,139>>,
            <<63,233,26,137,77,225,9,105>>, <<63,231,207,165,100,188,115,65>>, <<63,230,108,206,217,79,0,215>>, <<63,228,243,106,139,137,121,203>>,
            <<63,227,100,244,10,66,248,8>>, <<63,225,194,252,21,124,73,102>>, <<63,224,15,39,11,83,5,2>>, <<63,220,150,86,130,115,162,71>>,
            <<63,216,241,158,150,61,140,167>>, <<63,213,51,208,100,119,143,173>>, <<63,209,96,175,58,183,128,26>>, <<63,202,248,39,177,193,45,55>>,
            <<63,195,19,209,37,121,101,91>>, <<63,182,56,149,127,157,143,178>>, <<63,152,204,189,224,25,29,10>>, <<191,163,176,229,182,117,230,1>>,
            <<191,185,218,46,68,26,67,55>>, <<191,196,224,244,193,1,60,67>>, <<191,204,191,210,189,95,13,247>>, <<191,210,64,227,84,68,126,170>>,
            <<191,214,15,129,148,55,213,35>>, <<191,217,199,239,232,49,4,48>>, <<191,221,102,112,106,93,136,172>>, <<191,224,115,175,164,107,43,239>>,
            <<191,226,35,155,55,101,103,194>>, <<191,227,193,72,135,225,152,177>>, <<191,229,75,23,136,180,168,14>>, <<191,230,191,124,40,53,23,179>>,
            <<191,232,28,255,222,146,119,156>>, <<191,233,98,67,38,131,131,28>>, <<191,234,141,254,222,208,16,77>>, <<191,235,159,5,147,82,232,176>>,
            <<191,236,148,68,172,40,198,243>>, <<191,237,108,197,129,219,233,106>>, <<191,238,39,174,85,117,211,114>>, <<191,238,196,67,43,126,67,69>>,
            <<191,239,65,230,137,10,218,234>>, <<191,239,160,26,18,33,120,64>>, <<191,239,222,127,8,205,221,56>>, <<191,239,252,214,172,106,209,150>>,
            <<191,239,251,2,120,191,5,117>>, <<191,239,217,4,68,174,29,111>>, <<191,239,150,254,64,95,25,176>>, <<191,239,53,50,210,217,251,222>>,
            <<191,238,180,4,87,63,32,129>>, <<191,238,19,244,185,219,157,41>>, <<191,237,85,164,245,126,19,212>>, <<191,236,121,212,113,143,74,133>>,
            <<191,235,129,96,65,145,132,125>>, <<191,234,109,66,70,200,68,151>>, <<191,233,62,144,52,231,175,108>>, <<191,231,246,122,122,200,231,187>>,
            <<191,230,150,75,16,59,211,120>>, <<191,229,31,100,42,42,130,8>>, <<191,227,147,62,214,91,193,24>>, <<191,225,243,105,128,59,55,141>>,
            <<191,224,65,134,96,36,182,143>>, <<191,220,254,147,173,138,83,121>>, <<191,217,92,241,108,113,156,87>>, <<191,213,161,204,245,63,67,164>>,
            <<191,209,208,230,231,229,40,154>>, <<191,203,220,43,139,197,193,98>>, <<191,195,250,132,44,65,221,206>>, <<191,184,9,137,218,175,73,161>>,
            <<191,160,11,189,2,21,232,31>>, <<63,160,11,189,2,22,40,31>>, <<63,184,9,137,218,175,105,129>>, <<63,195,250,132,44,65,237,158>>,
            <<63,203,220,43,139,197,177,198>>, <<63,209,208,230,231,229,32,236>>, <<63,213,161,204,245,63,90,59>>, <<63,217,92,241,108,113,149,0>>,
            <<63,220,254,147,173,138,90,156>>, <<63,224,65,134,96,36,186,2>>, <<63,225,243,105,128,59,58,221>>, <<63,227,147,62,214,91,189,238>>,
            <<63,229,31,100,42,42,139,12>>, <<63,230,150,75,16,59,214,78>>, <<63,231,246,122,122,200,229,21>>, <<63,233,62,144,52,231,177,226>>,
            <<63,234,109,66,70,200,70,216>>, <<63,235,129,96,65,145,138,159>>, <<63,236,121,212,113,143,76,88>>, <<63,237,85,164,245,126,21,109>>,
            <<63,238,19,244,185,219,158,135>>, <<63,238,180,4,87,63,31,96>>, <<63,239,53,50,210,217,250,251>>, <<63,239,150,254,64,95,27,154>>,
            <<63,239,217,4,68,174,29,11>>, <<63,239,251,2,120,191,5,153>>, <<63,239,252,214,172,106,209,121>>, <<63,239,222,127,8,205,220,219>>,
            <<63,239,160,26,18,33,120,220>>, <<63,239,65,230,137,10,216,88>>, <<63,238,196,67,43,126,66,43>>, <<63,238,39,174,85,117,212,201>>,
            <<63,237,108,197,129,219,231,216>>, <<63,236,148,68,172,40,197,38>>, <<63,235,159,5,147,82,226,161>>, <<63,234,141,254,222,208,14,17>>,
            <<63,233,98,67,38,131,128,172>>, <<63,232,28,255,222,146,116,250>>, <<63,230,191,124,40,53,26,131>>, <<63,229,75,23,136,180,171,10>>,
            <<63,227,193,72,135,225,143,63>>, <<63,226,35,155,55,101,107,13>>, <<63,224,115,175,164,107,40,128>>, <<63,221,102,112,106,93,129,144>>,
            <<63,217,199,239,232,48,252,221>>, <<63,214,15,129,148,55,220,164>>, <<63,210,64,227,84,68,118,254>>, <<63,204,191,210,189,94,254,94>>,
            <<63,196,224,244,193,1,76,10>>, <<63,185,218,46,68,26,99,9>>, <<63,163,176,229,182,117,166,5>>, <<191,152,204,189,224,26,156,253>>,
            <<191,182,56,149,127,157,175,151>>, <<191,195,19,209,37,121,117,47>>, <<191,202,248,39,177,193,60,221>>, <<191,209,96,175,58,183,120,104>>,
            <<191,213,51,208,100,119,136,34>>, <<191,216,241,158,150,61,162,194>>, <<191,220,150,86,130,115,155,31>>, <<191,224,15,39,11,83,8,120>>,
            <<191,225,194,252,21,124,76,186>>, <<191,227,100,244,10,66,251,54>>, <<191,228,243,106,139,137,130,222>>, <<191,230,108,206,217,79,3,177>>,
            <<191,231,207,165,100,188,117,238>>, <<191,233,26,137,77,225,6,238>>, <<191,234,76,45,202,158,122,68>>, <<191,235,99,95,117,92,75,151>>,
            <<191,236,95,5,130,48,233,161>>, <<191,237,62,34,217,74,71,111>>, <<191,237,255,215,21,121,139,70>>, <<191,238,163,95,101,226,0,54>>,
            <<191,239,40,23,81,232,43,102>>, <<191,239,141,121,94,156,23,101>>, <<191,239,211,31,148,248,104,74>>, <<191,239,248,195,232,111,44,239>>,
            <<191,239,254,64,125,93,103,178>>, <<191,239,227,143,207,30,72,184>>, <<191,239,168,204,181,151,241,171>>, <<191,239,78,50,74,60,25,236>>,
            <<191,238,212,27,172,151,210,96>>, <<191,238,59,3,166,174,2,37>>, <<191,237,131,132,49,121,1,26>>, <<191,236,174,85,218,15,92,54>>,
            <<191,235,188,79,8,7,141,116>>, <<191,234,174,99,37,213,101,26>>, <<191,233,133,161,171,249,223,93>>, <<191,232,67,53,15,251,198,32>>,
            <<191,230,232,97,152,59,141,166>>, <<191,229,118,132,21,208,133,141>>, <<191,227,239,16,133,183,48,180>>, <<191,226,83,144,154,177,162,232>>,
            <<191,224,165,162,49,82,115,124>>, <<191,221,205,235,95,127,123,174>>, <<191,218,50,152,165,163,147,85>>, <<191,214,124,236,212,132,79,236>>,
            <<191,210,176,163,11,98,251,92>>, <<191,205,163,26,81,106,12,107>>, <<191,197,199,31,229,79,222,38>>, <<191,187,170,124,178,139,155,23>>,
            <<191,167,85,204,237,164,240,14>>, <<63,145,129,175,65,43,90,213>>, <<63,180,103,87,61,65,120,129>>, <<63,194,44,222,171,236,98,69>>,
            <<63,202,19,202,37,168,177,67>>, <<63,208,240,61,193,242,246,162>>, <<63,212,197,141,79,172,176,87>>, <<63,216,133,248,202,133,226,197>>,
            <<63,220,45,186,67,199,220,63>>, <<63,223,185,36,154,251,155,214>>, <<63,225,146,83,152,56,89,32>>, <<63,227,54,104,189,141,14,229>>,
            <<63,228,199,43,63,18,126,193>>, <<63,230,67,8,13,103,179,221>>, <<63,231,168,129,29,147,141,166>>, <<63,232,246,46,233,65,101,122>>,
            <<63,234,42,193,216,87,123,166>>, <<63,235,69,3,146,124,59,216>>, <<63,236,67,216,55,54,159,50>>, <<63,237,38,63,123,111,185,124>>,
            <<63,237,235,85,171,54,117,115>>, <<63,238,146,84,142,194,20,155>>, <<63,239,26,148,49,205,66,127>>, <<63,239,131,139,140,129,27,110>>,
            <<63,239,204,209,13,70,98,115>>, <<63,239,246,27,2,242,47,159>>, <<63,239,255,63,230,227,112,247>>, <<63,239,232,54,134,198,133,238>>,
            <<63,239,177,22,13,213,24,39>>, <<63,239,90,21,237,136,218,106>>, <<63,238,227,141,165,216,141,217>>, <<63,238,77,244,109,55,139,136>>,
            <<63,237,153,224,184,176,14,216>>, <<63,236,200,7,164,145,36,100>>, <<63,235,217,60,62,72,56,111>>, <<63,234,206,110,176,29,134,181>>,
            <<63,233,168,171,79,168,248,233>>, <<63,232,105,25,143,242,62,199>>, <<63,231,16,250,216,75,148,30>>, <<63,229,161,169,65,18,77,199>>,
            <<63,228,28,150,55,153,203,46>>, <<63,226,131,73,10,159,85,176>>, <<63,224,215,93,96,188,149,212>>, <<63,222,53,3,52,199,153,181>>,
            <<63,218,156,234,66,14,97,2>>, <<63,214,234,13,74,59,241,16>>, <<63,211,32,36,153,152,75,248>>, <<63,206,133,255,84,1,244,209>>,
            <<63,198,173,2,155,173,18,129>>, <<63,189,122,111,29,206,100,236>>, <<63,170,250,102,136,244,60,195>>, <<191,132,108,204,209,201,6,47>>,
            <<191,178,149,213,30,237,177,10>>, <<191,193,69,175,191,178,41,57>>, <<191,201,47,21,222,253,96,229>>, <<191,208,127,147,243,143,84,35>>,
            <<191,212,87,5,37,149,79,239>>, <<191,216,26,1,111,78,227,204>>, <<191,219,196,192,77,113,186,153>>, <<191,223,83,145,157,188,239,231>>,
            <<191,225,97,112,170,67,166,217>>, <<191,227,7,157,139,6,67,181>>, <<191,228,154,166,215,238,80,19>>, <<191,230,24,247,55,118,251,82>>,
            <<191,231,129,14,39,123,246,4>>, <<191,232,209,129,127,240,78,255>>, <<191,234,8,254,223,26,240,82>>, <<191,235,38,76,253,233,97,232>>,
            <<191,236,40,76,235,3,59,105>>, <<191,237,13,251,43,97,36,241>>, <<191,237,214,112,191,69,10,2>>, <<191,238,128,228,10,141,112,24>>,
            <<191,239,12,169,159,121,186,251>>, <<191,239,121,52,235,19,210,25>>, <<191,239,198,24,194,145,178,156>>, <<191,239,243,7,209,32,153,237>>,
            <<191,239,255,212,229,171,119,145>>, <<191,239,236,115,32,78,114,31>>, <<191,239,184,245,255,73,175,121>>, <<191,239,101,145,75,102,112,92>>,
            <<191,238,242,152,227,226,53,102>>, <<191,238,96,128,106,20,57,159>>, <<191,237,175,218,205,34,62,150>>, <<191,236,225,89,182,57,123,252>>,
            <<191,235,245,204,213,224,92,234>>, <<191,234,238,33,19,20,212,138>>, <<191,233,203,95,157,9,57,255>>, <<191,232,142,172,224,111,146,59>>,
            <<191,231,57,71,97,94,247,241>>, <<191,229,204,134,122,251,155,184>>, <<191,228,73,217,6,35,40,0>>, <<191,226,178,195,232,120,182,145>>,
            <<191,225,8,224,141,67,197,26>>, <<191,222,155,182,147,87,9,254>>, <<191,219,6,227,91,216,2,76>>, <<191,215,86,225,138,110,194,200>>,
            <<191,211,143,102,140,10,95,31>>, <<191,207,104,126,210,137,178,37>>, <<191,199,146,153,231,137,74,197>>, <<191,191,73,255,126,223,248,155>>,
            <<191,174,158,166,106,183,159,155>>, <<63,103,87,220,204,117,158,102>>, <<63,176,196,21,48,213,183,68>>, <<63,192,94,71,97,171,167,181>>,
            <<63,200,74,13,214,97,109,215>>, <<63,208,14,179,70,63,149,229>>, <<63,211,232,57,85,205,196,128>>, <<63,215,173,185,235,172,207,56>>,
            <<63,219,91,105,252,147,116,112>>, <<63,222,237,150,112,187,164,38>>, <<63,225,48,83,238,52,197,124>>, <<63,226,216,147,14,79,123,11>>,
            <<63,228,109,221,234,43,113,243>>, <<63,229,238,156,227,100,79,54>>, <<63,231,89,77,5,169,35,103>>, <<63,232,172,129,139,233,95,189>>,
            <<63,233,230,229,79,49,242,66>>, <<63,235,7,60,29,201,94,39>>, <<63,236,12,99,249,50,53,112>>, <<63,236,245,86,57,211,159,206>>,
            <<63,237,193,40,151,34,239,194>>, <<63,238,111,14,19,68,85,215>>, <<63,238,254,87,201,54,25,16>>, <<63,239,110,117,156,182,124,226>>,
            <<63,239,190,246,203,51,196,115>>, <<63,239,239,138,93,52,127,23>>, <<63,239,255,255,119,197,243,20>>, <<63,239,240,69,141,158,218,233>>,
            <<63,239,192,108,111,197,3,220>>, <<63,239,112,164,61,165,7,143>>, <<63,239,1,61,52,172,40,89>>, <<63,238,114,167,95,149,1,152>>,
            <<63,237,197,114,37,184,41,223>>, <<63,236,250,75,186,210,24,197>>, <<63,236,18,0,111,207,133,218>>, <<63,235,13,121,229,80,46,139>>,
            <<63,233,237,190,32,174,248,82>>, <<63,232,179,238,132,123,133,200>>, <<63,231,97,70,173,110,150,160>>, <<63,229,247,27,52,253,82,59>>,
            <<63,228,118,216,90,203,121,80>>, <<63,226,226,0,150,84,151,197>>, <<63,225,58,43,18,60,127,131>>, <<63,223,2,4,37,157,12,227>>,
            <<63,219,112,130,146,141,158,54>>, <<63,215,195,104,43,42,16,129>>, <<63,211,254,103,112,179,35,41>>, <<63,208,37,74,237,218,208,107>>,
            <<63,200,119,226,205,79,92,113>>, <<63,192,140,147,232,1,239,13>>, <<63,177,33,64,59,54,138,137>>, <<63,113,129,227,168,121,250,182>>,
            <<191,173,228,58,255,248,118,171>>, <<191,190,237,81,38,240,83,178>>, <<191,199,100,181,5,141,44,131>>, <<191,207,59,58,98,218,218,31>>,
            <<191,211,121,43,80,211,88,37>>, <<191,215,65,35,167,190,13,39>>, <<191,218,241,184,175,130,197,225>>, <<191,222,135,52,103,35,209,58>>,
            <<191,224,254,254,7,98,139,80>>, <<191,226,169,73,227,220,0,220>>, <<191,228,64,209,10,188,101,226>>, <<191,229,195,249,158,11,104,241>>,
            <<191,231,49,62,60,82,139,59>>, <<191,232,135,47,136,58,200,114>>, <<191,233,196,117,154,5,145,98>>, <<191,234,231,209,89,110,35,152>>,
            <<191,235,240,29,190,150,113,31>>, <<191,236,220,80,248,189,184,121>>, <<191,237,171,125,121,151,201,25>>, <<191,238,92,210,228,56,105,97>>,
            <<191,238,239,158,222,162,88,108>>, <<191,239,99,77,197,39,125,231>>, <<191,239,183,107,62,229,114,220>>, <<191,239,235,162,178,201,90,252>>,
            <<191,239,255,191,156,165,78,39>>, <<191,239,243,173,194,1,170,37>>, <<191,239,199,121,70,117,72,48>>, <<191,239,123,78,159,112,12,240>>,
            <<191,239,15,122,103,132,37,162>>, <<191,238,132,105,17,90,230,91>>, <<191,237,218,166,122,162,192,188>>, <<191,237,18,221,95,100,39,5>>,
            <<191,236,45,214,174,74,127,232>>, <<191,235,44,120,190,142,94,129>>, <<191,234,15,198,104,75,185,154>>, <<191,232,216,222,0,45,123,137>>,
            <<191,231,136,248,55,116,64,10>>, <<191,230,33,102,225,121,97,222>>, <<191,228,163,147,159,235,97,117>>, <<191,227,16,254,119,24,197,218>>,
            <<191,225,107,60,75,183,162,39>>, <<191,223,103,234,151,91,128,228>>, <<191,219,217,198,134,231,64,51>>, <<191,216,47,159,195,125,123,165>>,
            <<191,212,109,37,214,100,149,240>>, <<191,208,150,32,191,202,210,229>>, <<191,201,92,218,82,111,119,251>>, <<191,193,115,241,6,107,123,119>>,
            <<191,178,242,244,72,114,228,254>>, <<191,135,87,189,190,148,115,1>>, <<63,170,63,232,52,55,195,173>>, <<63,189,29,172,174,217,206,203>>,
            <<63,198,127,14,103,69,187,160>>, <<63,206,88,166,90,103,243,35>>, <<63,211,9,220,135,255,180,229>>, <<63,214,212,64,12,166,254,43>>,
            <<63,218,135,173,197,195,159,223>>, <<63,222,32,108,213,119,197,166>>, <<63,224,205,111,153,225,232,156>>, <<63,226,121,194,168,239,156,252>>,
            <<63,228,19,128,207,117,147,115>>, <<63,229,153,13,245,58,183,51>>, <<63,231,8,226,80,177,247,145>>, <<63,232,97,139,241,3,140,70>>,
            <<63,233,161,176,50,29,109,78>>, <<63,234,200,13,25,84,151,192>>, <<63,235,211,122,153,57,21,161>>, <<63,236,194,235,187,86,57,89>>,
            <<63,237,149,111,174,180,107,221>>, <<63,238,74,50,186,11,242,214>>, <<63,238,224,127,16,181,66,12>>, <<63,239,87,189,137,128,231,50>>,
            <<63,239,175,118,54,190,191,45>>, <<63,239,231,80,222,219,229,37>>, <<63,239,255,21,85,29,232,148>>, <<63,239,246,171,178,34,17,66>>,
            <<63,239,206,28,107,231,228,39>>, <<63,239,133,144,77,78,181,112>>, <<63,239,29,80,77,14,213,94>>, <<63,238,149,197,68,87,163,188>>,
            <<63,237,239,119,133,92,74,69>>, <<63,237,43,14,82,57,80,1>>, <<63,236,73,79,52,188,153,28>>, <<63,235,75,29,55,185,101,188>>,
            <<63,234,49,120,2,175,237,35>>, <<63,232,253,122,216,174,29,184>>, <<63,231,176,91,123,108,90,179>>, <<63,230,75,104,243,196,194,223>>,
            <<63,228,208,10,64,189,204,46>>, <<63,227,63,188,238,123,228,121>>, <<63,225,156,19,150,132,158,147>>, <<63,223,205,104,149,171,36,77>>,
            <<63,220,66,173,218,204,133,108>>, <<63,216,155,134,235,127,112,81>>, <<63,212,219,160,76,206,10,138>>, <<63,209,6,191,103,207,90,154>>,
            <<63,202,65,125,125,103,152,6>>, <<63,194,91,20,25,50,127,23>>, <<63,180,196,105,80,54,48,28>>, <<63,146,247,30,3,77,11,137>>,
            <<191,166,155,62,27,41,192,217>>, <<191,187,77,167,97,18,202,23>>, <<191,197,153,28,247,82,188,248>>, <<191,205,117,173,100,182,74,59>>,
            <<191,210,154,78,109,131,188,247>>, <<191,214,103,16,132,141,104,90>>, <<191,218,29,74,160,4,68,191>>, <<191,221,185,65,17,139,111,83>>,
            <<191,224,155,169,74,131,218,76>>, <<191,226,73,253,251,156,123,27>>, <<191,227,229,237,207,11,110,136>>, <<191,229,109,218,119,177,87,193>>,
            <<191,230,224,57,201,1,159,228>>, <<191,232,59,151,67,114,33,161>>, <<191,233,126,149,139,30,28,28>>, <<191,234,167,239,199,35,72,149>>,
            <<191,235,182,122,232,88,76,241>>, <<191,236,169,38,214,19,43,115>>, <<191,237,126,255,127,209,203,49>>, <<191,238,55,45,210,177,13,167>>,
            <<191,238,208,248,145,187,209,49>>, <<191,239,75,197,16,55,246,38>>, <<191,239,167,23,205,54,128,93>>, <<191,239,226,148,239,201,235,182>>,
            <<191,239,254,0,163,102,20,146>>, <<191,239,249,63,84,12,173,85>>, <<191,239,212,85,202,9,196,47>>, <<191,239,143,105,37,36,109,225>>,
            <<191,239,42,190,183,72,118,67>>, <<191,238,166,187,190,206,146,171>>, <<191,238,3,229,0,169,72,213>>, <<191,237,66,222,66,220,221,248>>,
            <<191,236,100,105,167,200,197,195>>, <<191,235,105,102,234,231,220,113>>, <<191,234,82,210,127,204,66,248>>, <<191,233,33,196,148,56,207,42>>,
            <<191,231,215,111,246,87,171,16>>, <<191,230,117,32,224,41,49,167>>, <<191,228,252,59,169,98,2,55>>, <<191,227,110,59,97,7,105,157>>,
            <<191,225,204,176,80,51,140,15>>, <<191,224,25,62,103,128,19,53>>, <<191,220,171,55,49,88,239,158>>, <<191,217,7,28,60,81,240,1>>,
            <<191,213,73,213,100,128,196,112>>, <<191,209,119,37,111,90,119,188>>, <<191,203,37,201,85,206,254,39>>, <<191,195,65,250,31,158,3,172>>,
            <<191,182,149,153,70,120,21,160>>, <<191,154,66,30,19,253,157,22>>, <<63,162,246,72,210,178,179,40>>, <<63,185,125,71,68,220,156,164>>,
            <<63,196,178,227,178,117,101,114>>, <<63,204,146,82,116,165,30,214>>, <<63,210,42,130,116,98,248,106>>, <<63,213,249,150,122,147,105,81>>,
            <<63,217,178,144,160,24,63,54>>, <<63,221,81,178,114,128,6,226>>, <<63,224,105,171,190,211,49,128>>, <<63,226,25,252,122,193,55,76>>,
            <<63,227,184,24,161,16,117,166>>, <<63,229,66,95,181,29,78,16>>, <<63,230,183,69,44,122,145,27>>, <<63,232,21,81,253,194,142,215>>,
            <<63,233,91,38,25,199,178,204>>, <<63,234,135,121,205,168,243,5>>, <<63,235,153,31,12,102,23,13>>, <<63,236,143,2,158,168,196,252>>,
            <<63,237,104,45,55,144,24,13>>, <<63,238,35,196,109,104,239,132>>, <<63,238,193,11,149,88,135,233>>, <<63,239,63,100,129,28,153,169>>,
            <<63,239,158,80,30,34,4,116>>, <<63,239,221,110,245,82,31,50>>, <<63,239,252,129,139,22,15,155>>, <<63,239,251,104,159,47,171,56>>,
            <<63,239,218,37,76,39,159,131>>, <<63,239,152,217,6,49,79,55>>, <<63,239,55,197,121,133,112,138>>, <<63,238,183,76,72,85,85,165>>,
            <<63,238,23,238,168,153,76,254>>, <<63,237,90,76,226,28,192,144>>, <<63,236,127,37,173,74,230,227>>, <<63,235,135,85,115,94,52,29>>,
            <<63,234,115,213,112,179,23,211>>, <<63,233,69,186,186,29,129,107>>, <<63,231,254,53,38,60,220,100>>, <<63,230,158,142,27,231,10,239>>,
            <<63,229,40,39,70,221,130,140>>, <<63,227,156,121,52,25,201,21>>, <<63,225,253,17,215,23,87,229>>, <<63,224,75,146,249,151,55,37>>,
            <<63,221,19,97,46,224,224,68>>, <<63,217,114,94,80,39,0,38>>, <<63,213,183,195,174,244,144,89>>, <<63,209,231,81,96,154,143,58>>,
            <<63,204,9,186,228,95,24,191>>, <<63,196,40,160,25,191,94,106>>, <<63,184,102,126,32,22,52,155>>, <<63,160,198,99,104,3,174,220>>,
            <<191,158,162,40,243,94,219,117>>, <<191,183,172,146,98,167,94,77>>, <<191,195,204,101,150,92,243,189>>, <<191,203,174,152,126,90,71,64>>,
            <<191,209,186,122,16,110,164,163>>, <<191,213,139,211,90,210,235,18>>, <<191,217,71,129,40,244,3,169>>, <<191,220,233,194,80,191,111,234>>,
            <<191,224,55,119,157,18,122,156>>, <<191,225,233,190,198,6,153,21>>, <<191,227,138,1,221,243,83,10>>, <<191,229,22,158,62,25,183,125>>,
            <<191,230,142,5,3,82,219,45>>, <<191,231,238,188,159,60,239,136>>, <<191,233,55,98,83,244,99,68>>, <<191,234,102,171,152,219,49,20>>,
            <<191,235,123,103,103,6,241,89>>, <<191,236,116,127,108,8,55,31>>, <<191,237,80,249,33,213,207,193>>, <<191,238,15,246,202,194,243,247>>,
            <<191,238,176,184,80,130,201,226>>, <<191,239,50,156,5,88,234,117>>, <<191,239,149,31,70,180,182,254>>, <<191,239,215,223,0,147,224,113>>,
            <<191,239,250,152,17,39,245,222>>, <<191,239,253,39,140,90,224,20>>, <<191,239,223,138,222,238,67,140>>, <<191,239,161,223,209,18,134,84>>,
            <<191,239,68,100,104,114,229,105>>, <<191,238,199,118,169,212,155,114>>, <<191,238,43,148,58,135,249,23>>, <<191,237,113,89,226,10,126,4>>,
            <<191,236,153,130,236,88,234,129>>, <<191,235,164,232,109,144,31,108>>, <<191,234,148,128,103,154,1,121>>, <<191,233,105,92,210,194,10,57>>,
            <<191,232,36,170,138,42,118,152>>, <<191,230,199,176,29,55,8,44>>, <<191,229,83,204,135,29,217,83>>, <<191,227,202,117,205,232,99,101>>,
            <<191,226,45,55,138,71,202,252>>, <<191,224,125,177,89,183,17,37>>, <<191,221,123,42,120,245,113,44>>, <<191,217,221,75,194,69,197,231>>,
            <<191,214,37,105,190,140,225,228>>, <<191,210,87,65,198,127,8,10>>, <<191,204,237,79,50,253,190,37>>, <<191,197,15,3,8,125,165,207>>,
            <<191,186,55,17,210,230,125,13>>, <<191,164,107,127,251,156,23,170>>, <<63,151,87,90,95,158,3,64>>, <<63,181,219,142,195,252,89,58>>,
            <<63,194,229,165,161,158,56,76>>, <<63,202,202,130,119,54,200,141>>, <<63,209,74,54,182,64,254,107>>, <<63,213,29,200,146,89,22,105>>,
            <<63,216,220,29,158,168,54,110>>, <<63,220,129,114,5,247,233,250>>, <<63,224,5,13,140,57,191,181>>, <<63,225,185,69,125,221,207,145>>,
            <<63,227,91,170,30,252,188,0>>, <<63,228,234,150,164,44,198,146>>, <<63,230,100,121,214,187,226,201>>, <<63,231,199,215,168,51,189,171>>,
            <<63,233,19,74,176,150,186,13>>, <<63,234,69,133,149,213,5,91>>, <<63,235,93,84,91,16,157,145>>, <<63,236,89,157,150,94,154,233>>,
            <<63,237,57,99,139,206,172,191>>, <<63,237,251,197,44,155,229,85>>, <<63,238,159,254,249,134,37,212>>, <<63,239,37,107,199,112,165,144>>,
            <<63,239,139,133,101,127,195,246>>, <<63,239,209,229,36,15,6,62>>, <<63,239,248,68,59,247,178,41>>, <<63,239,254,124,21,191,229,68>>,
            <<63,239,228,134,112,106,202,226>>, <<63,239,170,125,103,194,196,49>>, <<63,239,80,155,90,23,73,218>>, <<63,238,215,58,173,136,205,142>>,
            <<63,238,62,213,117,29,202,249>>, <<63,237,136,4,245,252,92,231>>, <<63,236,179,129,13,67,236,68>>, <<63,235,194,31,119,33,208,169>>,
            <<63,234,180,210,247,219,41,138>>, <<63,233,140,170,103,163,216,243>>, <<63,232,74,207,162,56,75,18>>, <<63,230,240,134,91,76,26,234>>,
            <<63,229,127,42,216,250,181,169>>, <<63,227,248,48,149,129,114,136>>, <<63,226,93,32,201,163,174,71>>, <<63,224,175,152,225,47,235,241>>,
            <<63,221,226,145,182,105,174,105>>, <<63,218,71,227,47,14,120,85>>, <<63,214,146,198,38,157,87,25>>, <<63,210,198,245,44,189,128,44>>,
            <<63,205,208,131,76,198,137,69>>, <<63,197,245,31,237,158,203,33>>, <<63,188,7,78,85,206,130,146>>, <<63,168,16,88,165,103,135,5>>,
            <<191,144,12,62,42,210,215,91>>, <<191,180,10,66,115,106,244,66>>, <<191,193,254,166,211,168,163,59>>, <<191,201,230,19,85,206,117,254>>,
            <<191,208,217,185,219,56,137,191>>, <<191,212,175,119,143,33,58,133>>, <<191,216,112,103,102,93,70,126>>, <<191,220,24,194,237,23,118,101>>,
            <<191,223,164,220,103,232,227,163>>, <<191,225,136,145,67,126,5,242>>, <<191,227,45,17,254,77,127,92>>, <<191,228,190,73,121,197,246,224>>,
            <<191,230,58,164,48,224,119,32>>, <<191,231,160,163,154,2,60,38>>, <<191,232,238,223,167,184,52,126>>, <<191,234,36,8,50,213,143,253>>,
            <<191,235,62,230,76,136,225,128>>, <<191,236,62,93,119,19,196,192>>, <<191,237,33,108,195,234,178,102>>, <<191,237,231,47,214,29,12,65>>,
            <<191,238,142,223,200,1,165,103>>, <<191,239,23,211,243,64,162,248>>, <<191,239,129,130,154,113,170,139>>, <<191,239,203,129,115,163,163,43>>,
            <<191,239,245,134,19,66,232,64>>, <<191,239,255,102,54,242,41,47>>, <<191,239,233,23,240,10,226,189>>, <<191,239,178,177,173,154,158,168>>,
            <<191,239,92,106,37,210,235,7>>, <<191,238,230,152,31,2,208,69>>, <<191,238,81,178,24,80,240,122>>, <<191,237,158,77,210,142,76,80>>,
            <<191,236,205,31,185,153,100,9>>, <<191,235,222,250,46,233,56,252>>, <<191,234,212,204,181,246,191,204>>, <<191,233,175,163,3,89,108,253>>,
            <<191,232,112,163,239,137,72,125>>, <<191,231,25,16,78,85,40,127>>, <<191,229,170,65,172,55,132,205>>, <<191,228,37,168,242,206,44,103>>,
            <<191,226,140,204,245,210,197,22>>, <<191,224,225,72,234,8,129,248>>, <<191,222,73,149,143,86,174,18>>, <<191,218,178,35,51,255,189,208>>,
            <<191,214,255,215,123,110,162,65>>, <<191,211,54,106,31,214,101,75>>, <<191,206,179,84,62,21,106,26>>, <<191,198,218,243,203,209,79,247>>,
            <<191,189,215,45,160,212,146,177>>, <<191,171,180,225,70,231,217,63>>, <<63,129,129,217,45,100,255,136>>, <<63,178,56,179,124,116,27,219>>,
            <<63,193,23,108,44,188,202,74>>, <<63,201,1,78,17,221,28,64>>, <<63,208,105,4,245,114,188,198>>, <<63,212,64,225,192,16,41,151>>,
            <<63,216,4,95,230,78,113,69>>, <<63,219,175,182,98,71,143,236>>, <<63,223,63,52,121,62,90,239>>, <<63,225,87,162,184,226,121,114>>,
            <<63,226,254,58,22,220,177,202>>, <<63,228,145,183,82,60,19,193>>, <<63,230,16,132,156,227,28,242>>, <<63,231,121,32,247,10,168,152>>,
            <<63,232,202,33,178,119,187,217>>, <<63,234,2,51,223,62,123,226>>, <<63,235,32,29,160,164,46,16>>, <<63,236,34,191,104,201,42,12>>,
            <<63,237,9,21,25,221,33,176>>, <<63,237,210,55,11,187,91,24>>, <<63,238,125,90,244,231,13,52>>, <<63,239,9,212,181,254,53,7>>,
            <<63,239,119,23,6,213,213,4>>, <<63,239,196,180,4,145,190,140>>, <<63,239,242,93,160,40,220,175>>, <<63,239,255,229,236,230,254,168>>,
            <<63,239,237,63,78,156,252,153>>, <<63,239,186,124,135,80,232,53>>, <<63,239,103,208,164,96,122,70>>, <<63,238,245,142,203,40,168,44>>,
            <<63,238,100,41,229,102,44,56>>, <<63,237,180,52,45,162,216,230>>, <<63,236,230,94,156,36,62,73>>, <<63,235,251,120,52,239,87,180>>,
            <<63,234,244,109,55,148,78,53>>, <<63,233,210,70,49,147,229,230>>, <<63,232,150,38,244,77,16,183>>, <<63,231,65,77,111,126,222,116>>,
            <<63,229,213,16,113,133,159,51>>, <<63,228,82,222,78,148,175,201>>, <<63,226,188,59,112,72,6,115>>, <<63,225,18,192,207,0,10,34>>,
            <<63,222,176,52,173,31,236,50>>, <<63,219,28,10,111,186,224,53>>, <<63,215,108,156,82,66,203,255>>, <<63,211,165,159,45,25,230,233>>,
            <<63,207,149,191,20,143,249,245>>, <<63,199,192,123,166,182,244,207>>, <<63,191,166,169,173,53,193,56>>, <<63,175,89,13,194,168,151,148>>,
            <<191,87,87,222,89,234,105,208>>, <<191,176,102,231,235,119,38,170>>, <<191,192,47,248,173,226,46,123>>, <<191,200,28,53,164,61,0,62>>,
            <<191,207,240,50,247,143,30,147>>, <<191,211,210,8,148,239,222,229>>, <<191,215,152,8,133,197,56,89>>, <<191,219,70,77,194,232,78,172>>,
            <<191,222,217,36,158,139,77,58>>, <<191,225,38,122,128,200,108,69>>, <<191,226,207,35,4,117,87,74>>, <<191,228,100,224,193,203,127,69>>,
            <<191,229,230,27,166,220,52,91>>, <<191,231,81,80,66,180,159,1>>, <<191,232,165,17,75,7,244,128>>, <<191,233,224,9,11,146,148,249>>,
            <<191,235,0,250,189,196,87,17>>, <<191,236,6,195,199,88,149,164>>, <<191,236,240,92,222,155,125,133>>, <<191,237,188,219,19,54,132,164>>,
            <<191,238,107,112,186,122,35,206>>, <<191,238,251,110,62,54,158,180>>, <<191,239,108,66,205,84,52,78>>, <<191,239,189,124,237,121,14,247>>,
            <<191,239,238,202,237,42,84,45>>, <<191,239,255,251,53,245,166,220>>, <<191,239,240,252,126,80,128,15>>, <<191,239,193,221,218,251,25,42>>,
            <<191,239,114,206,175,213,131,81>>, <<191,239,4,30,128,54,40,72>>, <<191,238,118,60,158,241,158,26>>, <<191,237,201,183,190,100,53,184>>,
            <<191,236,255,61,96,238,1,229>>, <<191,236,23,153,42,113,113,140>>, <<191,235,19,180,19,132,61,115>>, <<191,233,244,147,127,32,115,79>>,
            <<191,232,187,88,51,193,140,4>>, <<191,231,105,61,56,245,103,148>>, <<191,229,255,150,154,133,245,131>>, <<191,228,127,208,18,121,208,26>>,
            <<191,226,235,107,155,67,146,37>>, <<191,225,67,255,235,144,134,69>>, <<191,223,22,109,186,120,18,253>>, <<191,219,133,151,130,8,71,115>>,
            <<191,215,217,19,65,90,172,7>>, <<191,212,20,146,226,172,153,116>>, <<191,208,59,224,111,151,195,70>>, <<191,200,165,180,130,238,41,4>>,
            <<191,192,186,222,58,188,154,5>>, <<191,177,126,104,254,52,97,62>>, <<191,119,87,214,150,120,219,23>>, <<63,173,41,203,155,55,114,86>>,
            <<63,190,144,158,177,187,59,22>>, <<63,199,54,205,6,221,91,24>>, <<63,207,13,241,203,136,250,148>>, <<63,211,98,237,126,105,242,112>>,
            <<63,215,43,98,173,21,30,181>>, <<63,218,220,138,109,140,9,3>>, <<63,222,114,174,43,64,153,70>>, <<63,224,245,25,62,172,217,83>>,
            <<63,226,159,205,99,180,169,239>>, <<63,228,55,198,93,147,251,227>>, <<63,229,187,105,219,216,50,109>>, <<63,231,41,50,1,107,95,104>>,
            <<63,232,127,174,236,173,182,91>>, <<63,233,189,136,41,116,91,82>>, <<63,234,225,126,11,119,45,149>>, <<63,235,234,106,239,211,36,2>>,
            <<63,236,215,68,100,92,101,252>>, <<63,237,167,28,51,152,31,228>>, <<63,238,89,33,84,79,250,30>>, <<63,238,236,160,187,206,115,36>>,
            <<63,239,97,6,17,240,187,154>>, <<63,239,181,220,70,88,181,50>>, <<63,239,234,206,6,41,114,36>>, <<63,239,255,166,17,215,87,39>>,
            <<63,239,244,79,114,181,252,43>>, <<63,239,200,213,144,13,151,226>>, <<63,239,125,100,35,162,254,140>>, <<63,239,18,71,13,189,145,146>>,
            <<63,238,135,234,8,215,136,96>>, <<63,237,222,216,61,69,34,47>>, <<63,237,23,187,181,63,224,50>>, <<63,236,51,92,177,226,87,104>>,
            <<63,235,50,160,225,192,250,186>>, <<63,234,22,138,121,233,240,131>>, <<63,232,224,55,50,52,171,222>>, <<63,231,144,223,37,230,24,208>>,
            <<63,230,41,211,153,202,246,2>>, <<63,228,172,125,169,3,89,242>>, <<63,227,26,92,217,212,208,195>>, <<63,225,117,5,155,240,209,199>>,
            <<63,223,124,63,99,101,49,98>>, <<63,219,238,201,11,220,114,117>>, <<63,216,69,58,223,249,233,21>>, <<63,212,131,67,207,140,99,6>>,
            <<63,208,172,171,87,37,78,38>>, <<63,201,138,155,102,28,21,57>>, <<63,193,162,47,250,193,181,207>>, <<63,179,80,16,236,160,204,143>>,
            <<63,138,66,171,144,104,239,129>>, <<191,169,133,102,97,129,71,169>>, <<191,188,192,230,96,77,229,25>>, <<191,198,81,23,52,183,183,163>>,
            <<191,206,43,73,87,79,75,242>>, <<191,210,243,145,238,3,132,254>>, <<191,214,190,111,197,150,72,35>>, <<191,218,114,109,193,242,212,44>>,
            <<191,222,11,210,116,36,99,112>>, <<191,224,195,127,150,202,138,97>>, <<191,226,112,57,210,7,221,135>>, <<191,228,10,104,187,150,237,76>>,
            <<191,229,144,111,201,213,216,32>>, <<191,231,0,198,184,156,10,88>>, <<191,232,89,251,19,190,130,104>>, <<191,233,154,177,171,164,132,158>>,
            <<191,234,193,167,242,117,69,136>>, <<191,235,205,181,64,127,220,3>>, <<191,236,189,203,254,150,162,9>>, <<191,237,144,250,181,50,170,58>>,
            <<191,238,70,108,255,78,7,58>>, <<191,238,221,108,96,0,254,144>>, <<191,239,85,96,250,10,243,225>>, <<191,239,173,210,40,142,228,191>>,
            <<191,239,230,102,248,105,143,140>>, <<191,239,254,230,129,167,57,232>>, <<191,239,247,56,32,191,78,123>>, <<191,239,207,99,143,92,24,60>>,
            <<191,239,135,144,220,149,184,66>>, <<191,239,32,8,68,168,56,75>>, <<191,238,153,49,232,77,38,110>>, <<191,237,243,149,100,1,219,30>>,
            <<191,237,47,217,71,163,190,62>>, <<191,236,78,194,110,235,145,197>>, <<191,235,81,51,59,112,162,217>>, <<191,234,56,42,176,250,86,11>>,
            <<191,233,4,195,117,5,221,142>>, <<191,231,184,50,178,129,75,204>>, <<191,230,83,198,226,218,98,246>>, <<191,228,216,230,125,153,186,26>>,
            <<191,227,73,14,143,220,74,60>>, <<191,225,165,209,61,22,187,167>>, <<191,223,225,168,85,69,51,229>>, <<191,220,87,157,175,92,18,233>>,
            <<191,216,177,17,198,108,31,215>>, <<191,212,241,176,131,149,100,233>>, <<191,209,29,62,201,207,70,118>>, <<191,202,111,45,86,246,193,118>>,
            <<191,194,137,71,21,85,224,255>>, <<191,181,33,120,159,231,173,203>>, <<191,148,108,138,63,138,8,184>>, <<63,165,224,172,70,201,4,37>>,
            <<63,186,240,206,109,189,40,60>>, <<63,197,107,23,41,198,134,113>>, <<63,205,72,60,140,181,146,127>>, <<63,210,131,247,86,23,249,121>>,
            <<63,214,81,49,57,161,62,48>>, <<63,218,7,249,33,6,15,225>>, <<63,221,164,146,207,77,126,16>>, <<63,224,145,174,46,23,198,149>>,
            <<63,226,64,104,237,170,45,207>>, <<63,227,220,200,114,181,76,209>>, <<63,229,101,45,255,196,43,7>>, <<63,230,216,14,238,180,17,133>>,
            <<63,232,51,246,61,158,198,130>>, <<63,233,119,134,6,0,126,132>>, <<63,234,161,120,220,160,123,80>>, <<63,235,176,163,24,218,147,233>>,
            <<63,236,163,244,1,255,234,209>>, <<63,237,122,118,225,160,156,79>>, <<63,238,51,83,249,169,139,82>>, <<63,238,205,209,93,95,150,88>>,
            <<63,239,73,83,172,93,124,208>>, <<63,239,165,94,174,216,145,10>>, <<63,239,225,149,210,143,19,194>>, <<63,239,253,188,135,226,106,172>>,
            <<63,239,249,182,126,191,200,101>>, <<63,239,213,135,195,25,215,202>>, <<63,239,145,84,184,214,209,150>>, <<63,239,45,97,247,55,39,203>>,
            <<63,238,170,20,3,217,106,237>>, <<63,238,7,238,237,161,9,246>>, <<63,237,71,149,199,229,87,225>>, <<63,236,105,202,6,110,151,199>>,
            <<63,235,111,106,186,229,251,3>>, <<63,234,89,115,180,124,17,88>>, <<63,233,40,252,130,167,207,101>>, <<63,231,223,55,91,251,255,91>>,
            <<63,230,125,111,234,47,49,56>>, <<63,229,5,9,252,138,28,239>>, <<63,227,119,128,34,13,250,78>>, <<63,225,214,98,44,185,23,153>>,
            <<63,224,35,83,159,105,37,110>>, <<63,220,192,20,15,224,253,223>>, <<63,217,28,150,142,9,83,187>>, <<63,213,95,215,143,134,180,126>>,
            <<63,209,141,153,81,45,18,219>>, <<63,203,83,103,93,77,254,124>>, <<63,195,112,32,137,231,181,21>>, <<63,182,242,154,12,44,196,50>>,
            <<63,155,183,122,201,157,18,88>>, <<191,162,59,169,105,39,41,54>>, <<191,185,32,92,225,137,155,57>>, <<191,196,132,207,226,250,210,109>>,
            <<191,204,100,206,94,221,189,128>>, <<191,210,20,31,41,212,98,20>>, <<191,213,227,168,116,138,29,106>>, <<191,217,157,45,236,211,92,1>>,
            <<191,221,60,240,148,31,105,15>>, <<191,224,95,165,170,68,72,217>>, <<191,226,16,91,85,162,201,200>>, <<191,227,174,230,26,173,229,172>>,
            <<191,229,57,165,13,128,194,230>>, <<191,230,175,11,43,31,42,239>>, <<191,232,13,160,232,192,70,55>>, <<191,233,84,5,173,128,227,135>>,
            <<191,234,128,241,53,2,164,223>>, <<191,235,147,52,217,146,172,50>>, <<191,236,137,188,196,139,252,23>>, <<191,237,99,145,3,195,139,51>>,
            <<191,238,31,214,130,230,149,148>>, <<191,238,189,207,231,208,248,230>>, <<191,239,60,222,80,253,136,124>>, <<191,239,156,129,245,81,22,171>>,
            <<191,239,220,90,164,159,60,153>>, <<191,239,252,40,40,103,237,129>>, <<191,239,251,202,132,108,79,88>>, <<191,239,219,66,22,217,246,2>>,
            <<191,239,154,175,151,236,43,53>>, <<191,239,58,83,249,3,166,88>>, <<191,238,186,144,35,85,175,11>>, <<191,238,27,228,150,116,147,249>>,
            <<191,237,94,240,231,19,61,2>>, <<191,236,132,115,30,133,254,64>>, <<191,235,141,70,251,162,14,231>>, <<191,234,122,101,21,187,176,3>>,
            <<191,233,76,225,226,161,201,25>>, <<191,232,5,236,160,145,143,243>>, <<191,230,166,206,37,59,42,157>>, <<191,229,48,231,147,8,65,12>>,
            <<191,227,165,176,245,243,46,26>>, <<191,226,6,183,201,82,15,31>>, <<191,224,85,157,104,19,179,213>>, <<191,221,40,42,209,254,121,155>>,
            <<191,217,135,199,209,58,166,164>>, <<191,213,205,183,133,6,183,50>>, <<191,209,253,185,119,147,72,195>>, <<191,204,55,70,130,22,252,118>>,
            <<191,196,86,185,88,179,19,24>>, <<191,184,195,111,38,126,9,135>>, <<191,161,129,7,146,165,211,144>>, <<63,157,44,211,207,76,108,153>>,
            <<63,183,79,151,196,92,85,230>>, <<63,195,158,68,94,51,77,97>>, <<63,203,129,1,194,44,230,180>>, <<63,209,164,10,221,50,158,159>>,
            <<63,213,117,214,226,155,190,217>>, <<63,217,50,13,136,136,100,215>>, <<63,220,212,237,27,69,50,6>>, <<63,224,45,102,177,183,4,66>>,
            <<63,225,224,17,169,194,194,201>>, <<63,227,128,194,76,27,17,76>>, <<63,229,13,213,131,213,223,143>>, <<63,230,133,187,246,69,231,209>>,
            <<63,231,230,251,148,160,155,72>>, <<63,233,48,49,24,56,29,2>>, <<63,234,96,17,103,204,41,108>>, <<63,235,117,106,228,137,197,205>>,
            <<63,236,111,38,157,107,72,110>>, <<63,237,76,73,103,195,10,65>>, <<63,238,11,244,219,215,66,90>>, <<63,238,173,104,52,144,159,16>>,
            <<63,239,48,1,17,90,99,220>>, <<63,239,147,60,25,113,220,230>>, <<63,239,214,181,127,255,236,40>>, <<63,239,250,41,104,120,163,243>>,
            <<63,239,253,116,42,219,120,199>>, <<63,239,224,146,119,143,175,226>>, <<63,239,163,161,90,184,210,211>>, <<63,239,70,222,30,255,224,185>>,
            <<63,238,202,166,15,238,137,2>>, <<63,238,47,118,28,26,162,25>>, <<63,237,117,234,87,127,219,132>>, <<63,236,158,189,94,134,169,211>>,
            <<63,235,170,199,154,85,89,7>>, <<63,234,154,254,103,41,43,7>>, <<63,233,112,115,29,145,125,24>>, <<63,232,44,81,255,133,113,198>>,
            <<63,230,207,225,10,104,255,83>>, <<63,229,92,126,175,48,101,173>>, <<63,227,211,160,113,236,96,43>>, <<63,226,54,209,114,33,11,231>>,
            <<63,224,135,176,221,98,21,217>>, <<63,221,143,224,155,133,235,226>>, <<63,217,242,164,43,126,254,53>>, <<63,214,59,78,246,168,154,20>>,
            <<63,210,109,157,200,24,166,24>>, <<63,205,26,199,207,116,50,222>>, <<63,197,61,14,130,202,32,64>>, <<63,186,147,241,228,229,205,68>>,
            <<63,165,38,23,137,83,54,242>>, <<191,149,225,243,196,50,177,128>>, <<191,181,126,133,31,244,220,204>>, <<191,194,183,119,154,48,225,255>>,
            <<191,202,156,217,172,66,57,4>>, <<191,209,51,187,228,244,135,96>>, <<191,213,7,189,241,19,116,239>>, <<191,216,198,153,88,110,40,206>>,
            <<191,220,108,137,190,173,78,96>>, <<191,223,245,227,215,24,99,162>>, <<191,225,175,140,138,162,235,169>>, <<191,227,82,93,160,112,237,187>>,
            <<191,228,225,191,244,120,135,84>>, <<191,230,92,33,217,139,160,110>>, <<191,231,192,6,193,199,78,153>>, <<191,233,12,8,189,80,150,28>>,
            <<191,234,62,217,226,82,153,156>>, <<191,235,87,69,156,210,157,89>>, <<191,236,84,49,229,9,243,128>>, <<191,237,52,160,91,11,198,114>>,
            <<191,237,247,175,70,154,244,100>>, <<191,238,156,154,122,46,6,101>>, <<191,239,34,188,24,60,216,125>>, <<191,239,137,141,58,17,243,170>>,
            <<191,239,208,166,119,119,116,26>>, <<191,239,247,192,78,183,56,243>>, <<191,239,254,179,108,133,159,113>>, <<191,239,229,120,211,142,161,44>>,
            <<191,239,172,41,227,125,108,238>>, <<191,239,83,0,63,119,106,175>>, <<191,238,218,85,148,36,111,206>>, <<191,238,66,163,61,126,81,250>>,
            <<191,237,140,129,204,194,135,197>>, <<191,236,184,168,111,0,217,35>>, <<191,235,199,236,52,225,21,111>>, <<191,234,187,63,60,89,101,45>>,
            <<191,233,147,175,189,44,109,202>>, <<191,232,82,102,249,36,178,225>>, <<191,230,248,168,17,29,236,205>>, <<191,229,135,206,192,9,47,225>>,
            <<191,228,1,77,253,51,131,100>>, <<191,226,102,174,135,44,219,210>>, <<191,224,185,141,88,201,0,200>>, <<191,221,247,52,19,138,231,180>>,
            <<191,218,93,42,57,111,194,164>>, <<191,214,168,156,119,240,152,83>>, <<191,210,221,68,206,154,233,128>>, <<191,205,253,232,80,192,238,148>>,
            <<191,198,35,29,10,32,183,250>>, <<191,188,100,28,62,130,70,18>>, <<191,168,202,225,41,160,164,54>>, <<63,141,45,149,227,224,98,200>>,
            <<63,179,173,42,255,20,141,9>>, <<63,193,208,108,150,141,186,66>>, <<63,201,184,89,19,237,212,221>>, <<63,208,195,51,182,158,246,120>>,
            <<63,212,153,95,14,27,152,40>>, <<63,216,90,210,193,228,87,127>>, <<63,220,3,199,217,133,115,43>>, <<63,223,144,143,255,37,163,244>>,
            <<63,225,126,204,153,161,247,227>>, <<63,227,35,184,177,251,82,208>>, <<63,228,181,100,242,6,150,60>>, <<63,230,50,61,95,76,216,13>>,
            <<63,231,152,194,241,196,86,170>>, <<63,232,231,141,21,11,126,13>>, <<63,234,29,75,19,15,58,169>>, <<63,235,56,197,102,175,144,160>>,
            <<63,236,56,222,245,14,164,240>>, <<63,237,28,150,44,78,120,29>>, <<63,237,227,6,6,157,88,60>>, <<63,238,139,102,240,140,14,62>>,
            <<63,239,21,15,145,198,171,193>>, <<63,239,127,117,119,101,172,252>>, <<63,239,202,45,159,44,77,243>>, <<63,239,244,236,227,40,12,105>>,
            <<63,239,255,136,69,68,248,169>>, <<63,239,233,245,26,139,0,83>>, <<63,239,180,73,21,216,142,126>>, <<63,239,94,186,50,15,205,86>>,
            <<63,238,233,158,123,204,113,198>>, <<63,238,85,107,186,216,180,51>>, <<63,237,162,182,251,184,98,14>>, <<63,236,210,51,249,193,121,206>>,
            <<63,235,228,180,106,88,136,13>>, <<63,234,219,39,42,7,112,96>>, <<63,233,182,151,76,65,128,238>>, <<63,232,120,43,14,199,227,13>>,
            <<63,231,33,34,177,187,98,242>>, <<63,229,178,215,53,133,152,119>>, <<63,228,46,184,255,221,204,88>>, <<63,226,150,78,105,69,197,4>>,
            <<63,224,235,50,52,115,202,160>>, <<63,222,94,35,226,104,83,8>>, <<63,218,199,88,152,197,37,21>>, <<63,215,21,158,157,88,213,176>>,
            <<63,211,76,173,23,195,198,134>>, <<63,206,224,165,18,154,44,89>>, <<63,199,8,225,241,149,98,172>>, <<63,190,51,232,43,149,169,6>>,
            <<63,172,111,88,85,65,250,116>>, <<191,125,45,198,105,128,36,245>>, <<191,177,219,143,109,106,132,24>>, <<191,192,233,38,83,178,199,247>>,
            <<191,200,211,130,241,37,125,53>>, <<191,208,82,115,200,117,105,29>>, <<191,212,42,187,168,199,61,153>>, <<191,215,238,187,43,92,173,26>>,
            <<191,219,154,168,200,53,102,185>>, <<191,223,42,211,44,149,107,59>>, <<191,225,77,210,120,226,5,162>>, <<191,226,244,212,27,219,196,28>>,
            <<191,228,136,197,16,5,7,28>>, <<191,230,8,15,18,221,101,152>>, <<191,231,113,48,167,46,94,57>>, <<191,232,194,190,152,190,242,254>>,
            <<191,233,251,101,105,157,187,214>>, <<191,235,25,234,167,145,113,187>>, <<191,236,29,46,40,89,94,46>>, <<191,237,4,43,43,126,247,177>>,
            <<191,237,205,249,96,149,153,174>>, <<191,238,121,205,208,224,34,65>>, <<191,239,6,251,171,114,4,213>>, <<191,239,116,244,242,254,46,233>>,
            <<191,239,195,75,12,164,222,29>>, <<191,239,241,175,47,49,24,37>>, <<191,239,255,242,178,85,159,104>>, <<191,239,238,7,61,153,207,225>>,
            <<191,239,187,254,214,199,43,112>>, <<191,239,106,11,207,201,13,99>>, <<191,238,248,128,148,16,230,43>>, <<191,238,103,207,85,177,138,225>>,
            <<191,237,184,137,154,133,117,165>>, <<191,236,235,95,169,211,14,71>>, <<191,236,1,31,219,2,63,9>>, <<191,234,250,181,198,22,39,121>>,
            <<191,233,217,41,86,186,133,99>>, <<191,232,157,157,194,212,153,13>>, <<191,231,73,80,101,161,10,51>>, <<191,229,221,151,128,134,155,245>>,
            <<191,228,91,224,226,221,183,69>>, <<191,226,197,176,122,7,151,80>>, <<191,225,28,158,203,70,241,103>>, <<191,222,196,174,177,196,107,231>>,
            <<191,219,49,45,232,90,244,192>>, <<191,215,130,83,252,86,23,127>>, <<191,211,187,213,49,13,62,128>>, <<191,207,194,251,34,232,167,156>>,
            <<191,199,238,90,60,251,133,175>>, <<191,192,1,167,210,206,217,114>>, <<191,176,9,184,119,127,42,30>>, <<61,70,159,233,97,19,224,176>>,
            <<63,176,9,184,119,127,132,113>>, <<63,192,1,167,210,206,198,215>>, <<63,199,238,90,60,251,178,35>>, <<63,207,194,251,34,232,149,114>>,
            <<63,211,187,213,49,13,53,149>>, <<63,215,130,83,252,86,44,138>>, <<63,219,49,45,232,90,236,67>>, <<63,222,196,174,177,196,127,190>>,
            <<63,225,28,158,203,70,237,113>>, <<63,226,197,176,122,7,160,121>>, <<63,228,91,224,226,221,192,0>>, <<63,229,221,151,128,134,164,55>>,
            <<63,231,73,80,101,161,6,252>>, <<63,232,157,157,194,212,150,14>>, <<63,233,217,41,86,186,140,14>>, <<63,234,250,181,198,22,36,244>>,
            <<63,236,1,31,219,2,76,64>>, <<63,236,235,95,169,211,12,69>>, <<63,237,184,137,154,133,121,215>>, <<63,238,103,207,85,177,137,107>>,
            <<63,238,248,128,148,16,228,253>>, <<63,239,106,11,207,201,15,139>>, <<63,239,187,254,214,199,42,214>>, <<63,239,238,7,61,153,208,161>>,
            <<63,239,255,242,178,85,159,100>>, <<63,239,241,175,47,49,23,121>>, <<63,239,195,75,12,164,222,174>>, <<63,239,116,244,242,254,44,214>>,
            <<63,239,6,251,171,114,5,251>>, <<63,238,121,205,208,224,30,206>>, <<63,237,205,249,96,149,155,98>>, <<63,237,4,43,43,126,249,171>>,
            <<63,236,29,46,40,89,88,199>>, <<63,235,25,234,167,145,107,183>>, <<63,233,251,101,105,157,181,59>>, <<63,232,194,190,152,190,245,246>>,
            <<63,231,113,48,167,46,86,134>>, <<63,230,8,15,18,221,104,254>>, <<63,228,136,197,16,4,254,111>>, <<63,226,244,212,27,219,199,226>>,
            <<63,225,77,210,120,226,9,148>>, <<63,223,42,211,44,149,87,120>>, <<63,219,154,168,200,53,111,47>>, <<63,215,238,187,43,92,152,30>>,
            <<63,212,42,187,168,199,40,32>>, <<63,208,82,115,200,117,83,61>>, <<63,200,211,130,241,37,143,154>>, <<63,192,233,38,83,178,218,142>>,
            <<63,177,219,143,109,106,41,208>>, <<63,125,45,198,105,130,124,246>>, <<191,172,111,88,85,67,174,199>>, <<191,190,51,232,43,149,131,201>>,
            <<191,199,8,225,241,149,143,47>>, <<191,206,224,165,18,154,26,38>>, <<191,211,76,173,23,195,189,149>>, <<191,215,21,158,157,88,234,202>>,
            <<191,218,199,88,152,197,28,145>>, <<191,222,94,35,226,104,102,243>>, <<191,224,235,50,52,115,198,165>>, <<191,226,150,78,105,69,206,58>>,
            <<191,228,46,184,255,221,200,181>>, <<191,229,178,215,53,133,160,200>>, <<191,231,33,34,177,187,95,180>>, <<191,232,120,43,14,199,234,87>>,
            <<191,233,182,151,76,65,126,35>>, <<191,234,219,39,42,7,109,211>>, <<191,235,228,180,106,88,141,152>>, <<191,236,210,51,249,193,119,197>>,
            <<191,237,162,182,251,184,102,82>>, <<191,238,85,107,186,216,178,181>>, <<191,238,233,158,123,204,116,179>>, <<191,239,94,186,50,15,204,105>>,
            <<191,239,180,73,21,216,144,7>>, <<191,239,233,245,26,138,255,251>>, <<191,239,255,136,69,68,248,156>>, <<191,239,244,236,227,40,11,210>>,
            <<191,239,202,45,159,44,78,124>>, <<191,239,127,117,119,101,170,253>>, <<191,239,21,15,145,198,169,16>>, <<191,238,139,102,240,140,10,223>>,
            <<191,237,227,6,6,157,89,233>>, <<191,237,28,150,44,78,122,15>>, <<191,236,56,222,245,14,159,155>>, <<191,235,56,197,102,175,138,174>>,
            <<191,234,29,75,19,15,52,31>>, <<191,232,231,141,21,11,128,254>>, <<191,231,152,194,241,196,79,5>>, <<191,230,50,61,95,76,219,110>>,
            <<191,228,181,100,242,6,153,207>>, <<191,227,35,184,177,251,73,191>>, <<191,225,126,204,153,161,238,106>>, <<191,223,144,143,255,37,172,28>>,
            <<191,220,3,199,217,133,123,153>>, <<191,216,90,210,193,228,66,147>>, <<191,212,153,95,14,27,161,9>>, <<191,208,195,51,182,158,224,163>>,
            <<191,201,184,89,19,237,231,60>>, <<191,193,208,108,150,141,141,115>>, <<191,179,173,42,255,20,178,109>>, <<191,141,45,149,227,225,142,195>>,
            <<63,168,202,225,41,161,88,254>>, <<63,188,100,28,62,130,32,205>>, <<63,198,35,29,10,32,228,140>>, <<63,205,253,232,80,192,220,90>>,
            <<63,210,221,68,206,154,255,31>>, <<63,214,168,156,119,240,143,142>>, <<63,218,93,42,57,111,215,65>>, <<63,221,247,52,19,138,223,107>>,
            <<63,224,185,141,88,200,252,201>>, <<63,226,102,174,135,44,229,19>>, <<63,228,1,77,253,51,127,187>>, <<63,229,135,206,192,9,56,64>>,
            <<63,230,248,168,17,29,233,138>>, <<63,232,82,102,249,36,186,59>>, <<63,233,147,175,189,44,106,248>>, <<63,234,187,63,60,89,98,154>>,
            <<63,235,199,236,52,225,27,13>>, <<63,236,184,168,111,0,222,32>>, <<63,237,140,129,204,194,133,248>>, <<63,238,66,163,61,126,80,115>>,
            <<63,238,218,85,148,36,114,206>>, <<63,239,83,0,63,119,105,185>>, <<63,239,172,41,227,125,108,67>>, <<63,239,229,120,211,142,162,21>>,
            <<63,239,254,179,108,133,159,165>>, <<63,239,247,192,78,183,57,41>>, <<63,239,208,166,119,119,116,155>>, <<63,239,137,141,58,17,241,192>>,
            <<63,239,34,188,24,60,213,224>>, <<63,238,156,154,122,46,3,25>>, <<63,237,247,175,70,154,246,9>>, <<63,237,52,160,91,11,193,211>>,
            <<63,236,84,49,229,9,245,174>>, <<63,235,87,69,156,210,159,201>>, <<63,234,62,217,226,82,147,35>>, <<63,233,12,8,189,80,153,7>>,
            <<63,231,192,6,193,199,71,4>>, <<63,230,92,33,217,139,163,201>>, <<63,228,225,191,244,120,126,194>>, <<63,227,82,93,160,112,241,120>>,
            <<63,225,175,140,138,162,226,59>>, <<63,223,245,227,215,24,107,193>>, <<63,220,108,137,190,173,86,198>>, <<63,216,198,153,88,110,19,242>>,
            <<63,213,7,189,241,19,125,202>>, <<63,209,51,187,228,244,82,194>>, <<63,202,156,217,172,66,75,91>>, <<63,194,183,119,154,48,181,60>>,
            <<63,181,126,133,31,245,2,42>>, <<63,149,225,243,196,51,71,120>>, <<191,165,38,23,137,83,235,202>>, <<191,186,147,241,228,230,39,70>>,
            <<191,197,61,14,130,202,13,195>>, <<191,205,26,199,207,116,32,156>>, <<191,210,109,157,200,24,187,195>>, <<191,214,59,78,246,168,145,73>>,
            <<191,217,242,164,43,127,18,227>>, <<191,221,143,224,155,133,227,146>>, <<191,224,135,176,221,98,31,137>>, <<191,226,54,209,114,33,8,12>>,
            <<191,227,211,160,113,236,92,125>>, <<191,229,92,126,175,48,110,25>>, <<191,230,207,225,10,105,7,66>>, <<191,232,44,81,255,133,121,47>>,
            <<191,233,112,115,29,145,122,64>>, <<191,234,154,254,103,41,49,80>>, <<191,235,170,199,154,85,86,172>>, <<191,236,158,189,94,134,167,187>>,
            <<191,237,117,234,87,127,223,239>>, <<191,238,47,118,28,26,160,139>>, <<191,238,202,166,15,238,140,23>>, <<191,239,70,222,30,255,223,188>>,
            <<191,239,163,161,90,184,212,133>>, <<191,239,224,146,119,143,176,224>>, <<191,239,253,116,42,219,121,16>>, <<191,239,250,41,104,120,164,32>>,
            <<191,239,214,181,127,255,236,160>>, <<191,239,147,60,25,113,219,16>>, <<191,239,48,1,17,90,100,233>>, <<191,238,173,104,52,144,155,216>>,
            <<191,238,11,244,219,215,67,247>>, <<191,237,76,73,103,195,5,180>>, <<191,236,111,38,157,107,74,149>>, <<191,235,117,106,228,137,200,53>>,
            <<191,234,96,17,103,204,44,19>>, <<191,233,48,49,24,56,22,7>>, <<191,231,230,251,148,160,158,102>>, <<191,230,133,187,246,69,235,37>>,
            <<191,229,13,213,131,213,215,10>>, <<191,227,128,194,76,27,21,3>>, <<191,225,224,17,169,194,172,34>>, <<191,224,45,102,177,183,8,78>>,
            <<191,220,212,237,27,69,29,211>>, <<191,217,50,13,136,136,109,117>>, <<191,213,117,214,226,155,199,174>>, <<191,209,164,10,221,50,136,224>>,
            <<191,203,129,1,194,44,186,131>>, <<191,195,158,68,94,51,32,170>>, <<191,183,79,151,196,92,123,63>>, <<191,157,44,211,207,75,2,192>>,
            <<63,161,129,7,146,165,136,154>>, <<63,184,195,111,38,125,228,52>>, <<63,196,86,185,88,179,0,148>>, <<63,204,55,70,130,22,234,44>>,
            <<63,209,253,185,119,147,94,121>>, <<63,213,205,183,133,6,174,97>>, <<63,217,135,199,209,58,187,99>>, <<63,221,40,42,209,254,141,191>>,
            <<63,224,85,157,104,19,189,143>>, <<63,226,6,183,201,82,11,64>>, <<63,227,165,176,245,243,42,102>>, <<63,229,48,231,147,8,73,134>>,
            <<63,230,166,206,37,59,39,78>>, <<63,232,5,236,160,145,151,108>>, <<63,233,76,225,226,161,198,58>>, <<63,234,122,101,21,187,182,93>>,
            <<63,235,141,70,251,162,12,133>>, <<63,236,132,115,30,134,3,98>>, <<63,237,94,240,231,19,65,128>>, <<63,238,27,228,150,116,151,206>>,
            <<63,238,186,144,35,85,173,188>>, <<63,239,58,83,249,3,165,82>>, <<63,239,154,175,151,236,44,251>>, <<63,239,219,66,22,217,245,144>>,
            <<63,239,251,202,132,108,80,56>>, <<63,239,252,40,40,103,237,166>>, <<63,239,220,90,164,159,59,139>>, <<63,239,156,129,245,81,23,101>>,
            <<63,239,60,222,80,253,137,128>>, <<63,238,189,207,231,208,245,194>>, <<63,238,31,214,130,230,145,195>>, <<63,237,99,145,3,195,134,185>>,
            <<63,236,137,188,196,139,254,54>>, <<63,235,147,52,217,146,166,116>>, <<63,234,128,241,53,2,167,128>>, <<63,233,84,5,173,128,220,157>>,
            <<63,232,13,160,232,192,73,78>>, <<63,230,175,11,43,31,46,61>>, <<63,229,57,165,13,128,186,111>>, <<63,227,174,230,26,173,233,95>>,
            <<63,226,16,91,85,162,192,114>>, <<63,224,95,165,170,68,63,32>>, <<63,221,60,240,148,31,84,239>>, <<63,217,157,45,236,211,100,152>>,
            <<63,213,227,168,116,138,8,40>>, <<63,210,20,31,41,212,107,19>>, <<63,204,100,206,94,221,207,200>>, <<63,196,132,207,226,250,228,240>>,
            <<63,185,32,92,225,137,192,139>>, <<63,162,59,169,105,38,116,84>>, <<191,155,183,122,201,156,124,101>>, <<191,182,242,154,12,45,30,85>>,
            <<191,195,112,32,137,231,225,206>>, <<191,203,83,103,93,78,42,176>>, <<191,209,141,153,81,45,9,215>>, <<191,213,95,215,143,134,171,168>>,
            <<191,217,28,150,142,9,104,139>>, <<191,220,192,20,15,224,245,127>>, <<191,224,35,83,159,105,61,4>>, <<191,225,214,98,44,185,19,181>>,
            <<191,227,119,128,34,14,3,72>>, <<191,229,5,9,252,138,25,102>>, <<191,230,125,111,234,47,45,226>>, <<191,231,223,55,91,252,6,227>>,
            <<191,233,40,252,130,167,204,128>>, <<191,234,89,115,180,124,23,195>>, <<191,235,111,106,186,229,248,153>>, <<191,236,105,202,6,110,156,252>>,
            <<191,237,71,149,199,229,85,253>>, <<191,238,7,238,237,161,13,222>>, <<191,238,170,20,3,217,105,150>>, <<191,239,45,97,247,55,38,189>>,
            <<191,239,145,84,184,214,208,209>>, <<191,239,213,135,195,25,215,80>>, <<191,239,249,182,126,191,200,214>>, <<191,239,253,188,135,226,106,104>>,
            <<191,239,225,149,210,143,18,201>>, <<191,239,165,94,174,216,145,188>>, <<191,239,73,83,172,93,122,112>>, <<191,238,205,209,93,95,151,157>>,
            <<191,238,51,83,249,169,135,148>>, <<191,237,122,118,225,160,158,34>>, <<191,236,163,244,1,255,236,233>>, <<191,235,176,163,24,218,142,61>>,
            <<191,234,161,120,220,160,125,233>>, <<191,233,119,134,6,0,119,170>>, <<191,232,51,246,61,158,191,28>>, <<191,230,216,14,238,180,9,153>>,
            <<191,229,101,45,255,196,46,132>>, <<191,227,220,200,114,181,80,125>>, <<191,226,64,104,237,170,36,133>>, <<191,224,145,174,46,23,202,151>>,
            <<191,221,164,146,207,77,106,3>>, <<191,218,7,249,33,6,24,114>>, <<191,214,81,49,57,161,40,252>>, <<191,210,131,247,86,24,2,114>>,
            <<191,205,72,60,140,181,164,192>>, <<191,197,107,23,41,198,89,213>>, <<191,186,240,206,109,189,77,135>>, <<191,165,224,172,70,200,79,80>>,
            <<63,148,108,138,63,137,114,190>>, <<63,181,33,120,159,232,7,252>>, <<63,194,137,71,21,85,206,114>>, <<63,202,111,45,86,246,237,188>>,
            <<63,209,29,62,201,207,61,109>>, <<63,212,241,176,131,149,122,74>>, <<63,216,177,17,198,108,23,49>>, <<63,220,87,157,175,92,10,129>>,
            <<63,223,225,168,85,69,71,131>>, <<63,225,165,209,61,22,183,190>>, <<63,227,73,14,143,220,83,67>>, <<63,228,216,230,125,153,182,140>>,
            <<63,230,83,198,226,218,107,17>>, <<63,231,184,50,178,129,72,167>>, <<63,233,4,195,117,5,228,156>>, <<63,234,56,42,176,250,83,91>>,
            <<63,235,81,51,59,112,160,104>>, <<63,236,78,194,110,235,151,12>>, <<63,237,47,217,71,163,188,82>>, <<63,237,243,149,100,1,223,25>>,
            <<63,238,153,49,232,77,41,190>>, <<63,239,32,8,68,168,58,235>>, <<63,239,135,144,220,149,183,117>>, <<63,239,207,99,143,92,23,186>>,
            <<63,239,247,56,32,191,79,1>>, <<63,239,254,230,129,167,57,185>>, <<63,239,230,102,248,105,142,167>>, <<63,239,173,210,40,142,229,105>>,
            <<63,239,85,96,250,10,241,149>>, <<63,238,221,108,96,0,255,205>>, <<63,238,70,108,255,78,8,191>>, <<63,237,144,250,181,50,165,230>>,
            <<63,236,189,203,254,150,157,15>>, <<63,235,205,181,64,127,222,85>>, <<63,234,193,167,242,117,72,26>>, <<63,233,154,177,171,164,125,213>>,
            <<63,232,89,251,19,190,133,115>>, <<63,231,0,198,184,156,2,123>>, <<63,229,144,111,201,213,219,151>>, <<63,228,10,104,187,150,228,122>>,
            <<63,226,112,57,210,7,225,91>>, <<63,224,195,127,150,202,142,95>>, <<63,222,11,210,116,36,79,118>>, <<63,218,114,109,193,242,220,182>>,
            <<63,214,190,111,197,150,50,253>>, <<63,210,243,145,238,3,141,242>>, <<63,206,43,73,87,79,31,249>>, <<63,198,81,23,52,183,202,25>>,
            <<63,188,192,230,96,77,139,44>>, <<63,169,133,102,97,129,146,146>>, <<191,138,66,171,144,103,195,133>>, <<191,179,80,16,236,161,38,205>>,
            <<191,193,162,47,250,193,163,61>>, <<191,201,138,155,102,28,128,71>>, <<191,208,172,171,87,37,69,25>>, <<191,212,131,67,207,140,120,117>>,
            <<191,216,69,58,223,249,224,104>>, <<191,219,238,201,11,220,106,6>>, <<191,223,124,63,99,101,69,21>>, <<191,225,117,5,155,240,219,67>>,
            <<191,227,26,92,217,212,205,1>>, <<191,228,172,125,169,3,86,94>>, <<191,230,41,211,153,202,254,43>>, <<191,231,144,223,37,230,21,164>>,
            <<191,232,224,55,50,52,168,235>>, <<191,234,22,138,121,233,247,16>>, <<191,235,50,160,225,193,0,176>>, <<191,236,51,92,177,226,85,49>>,
            <<191,237,23,187,181,63,222,62>>, <<191,237,222,216,61,69,38,62>>, <<191,238,135,234,8,215,139,196>>, <<191,239,18,71,13,189,148,71>>,
            <<191,239,125,100,35,162,253,182>>, <<191,239,200,213,144,13,153,50>>, <<191,239,244,79,114,181,251,235>>, <<191,239,255,166,17,215,87,50>>,
            <<191,239,234,206,6,41,113,83>>, <<191,239,181,220,70,88,181,211>>, <<191,239,97,6,17,240,185,98>>, <<191,238,236,160,187,206,116,89>>,
            <<191,238,89,33,84,79,246,135>>, <<191,237,167,28,51,152,33,167>>, <<191,236,215,68,100,92,97,21>>, <<191,235,234,106,239,211,38,77>>,
            <<191,234,225,126,11,119,48,32>>, <<191,233,189,136,41,116,84,154>>, <<191,232,127,174,236,173,185,95>>, <<191,231,41,50,1,107,76,143>>,
            <<191,229,187,105,219,216,53,222>>, <<191,228,55,198,93,147,243,30>>, <<191,226,159,205,99,180,173,191>>, <<191,224,245,25,62,172,221,76>>,
            <<191,222,114,174,43,64,133,95>>, <<191,218,220,138,109,139,244,122>>, <<191,215,43,98,173,21,39,114>>, <<191,211,98,237,126,105,251,95>>,
            <<191,207,13,241,203,136,206,174>>, <<191,199,54,205,6,221,109,137>>, <<191,190,144,158,177,186,225,60>>, <<191,173,41,203,155,55,189,56>>,
            <<63,119,87,214,150,126,131,11>>, <<63,177,126,104,254,52,59,212>>, <<63,192,186,222,58,188,135,110>>, <<63,200,165,180,130,238,85,107>>,
            <<63,208,59,224,111,151,217,40>>, <<63,212,20,146,226,172,174,239>>, <<63,215,217,19,65,90,163,83>>, <<63,219,133,151,130,8,77,110>>,
            <<63,223,22,109,186,120,10,203>>, <<63,225,67,255,235,144,137,15>>, <<63,226,235,107,155,67,155,69>>, <<63,228,127,208,18,121,210,165>>,
            <<63,229,255,150,154,133,253,186>>, <<63,231,105,61,56,245,100,98>>, <<63,232,187,88,51,193,142,30>>, <<63,233,244,147,127,32,121,236>>,
            <<63,235,19,180,19,132,63,55>>, <<63,236,23,153,42,113,111,78>>, <<63,236,255,61,96,238,3,76>>, <<63,237,201,183,190,100,57,218>>,
            <<63,238,118,60,158,241,156,170>>, <<63,239,4,30,128,54,41,24>>, <<63,239,114,206,175,213,131,237>>, <<63,239,193,221,218,251,25,147>>,
            <<63,239,240,252,126,80,127,198>>, <<63,239,255,251,53,245,166,219>>, <<63,239,238,202,237,42,83,114>>, <<63,239,189,124,237,121,14,139>>,
            <<63,239,108,66,205,84,53,49>>, <<63,238,251,110,62,54,157,223>>, <<63,238,107,112,186,122,34,198>>, <<63,237,188,219,19,54,134,95>>,
            <<63,236,240,92,222,155,117,71>>, <<63,236,6,195,199,88,151,231>>, <<63,235,0,250,189,196,85,74>>, <<63,233,224,9,11,146,151,187>>,
            <<63,232,165,17,75,7,242,99>>, <<63,231,81,80,66,180,151,65>>, <<63,229,230,27,166,220,44,27>>, <<63,228,100,224,193,203,118,141>>,
            <<63,226,207,35,4,117,91,21>>, <<63,225,38,122,128,200,105,121>>, <<63,222,217,36,158,139,85,112>>, <<63,219,70,77,194,232,43,187>>,
            <<63,215,152,8,133,197,65,16>>, <<63,211,210,8,148,239,216,153>>, <<63,207,240,50,247,142,242,193>>, <<63,200,28,53,164,61,18,168>>,
            <<63,192,47,248,173,226,33,86>>, <<63,176,102,231,235,118,204,90>>, <<63,87,87,222,89,227,201,231>>, <<191,175,89,13,194,168,76,183>>,
            <<191,191,166,169,173,53,219,132>>, <<191,199,192,123,166,183,33,70>>, <<191,207,149,191,20,144,6,204>>, <<191,211,165,159,45,25,237,55>>,
            <<191,215,108,156,82,66,210,41>>, <<191,219,28,10,111,186,230,53>>, <<191,222,176,52,173,31,227,248>>, <<191,225,18,192,207,0,12,239>>,
            <<191,226,188,59,112,72,15,159>>, <<191,228,82,222,78,148,178,88>>, <<191,229,213,16,113,133,155,198>>, <<191,231,65,77,111,126,224,186>>,
            <<191,232,150,38,244,77,18,214>>, <<191,233,210,70,49,147,227,33>>, <<191,234,244,109,55,148,88,158>>, <<191,235,251,120,52,239,85,110>>,
            <<191,236,230,94,156,36,63,181>>, <<191,237,180,52,45,162,215,40>>, <<191,238,100,41,229,102,45,65>>, <<191,238,245,142,203,40,171,8>>,
            <<191,239,103,208,164,96,122,233>>, <<191,239,186,124,135,80,233,173>>, <<191,239,237,63,78,156,252,72>>, <<191,239,255,229,236,230,254,173>>,
            <<191,239,242,93,160,40,220,244>>, <<191,239,196,180,4,145,188,58>>, <<191,239,119,23,6,213,213,222>>, <<191,239,9,212,181,254,52,57>>,
            <<191,238,125,90,244,231,9,197>>, <<191,237,210,55,11,187,89,228>>, <<191,237,9,21,25,221,32,75>>, <<191,236,34,191,104,201,36,168>>,
            <<191,235,32,29,160,164,44,78>>, <<191,234,2,51,223,62,126,157>>, <<191,232,202,33,178,119,185,192>>, <<191,231,121,32,247,10,171,200>>,
            <<191,230,16,132,156,227,14,246>>, <<191,228,145,183,82,60,23,88>>, <<191,226,254,58,22,220,175,31>>, <<191,225,87,162,184,226,118,169>>,
            <<191,223,63,52,121,62,99,30>>, <<191,219,175,182,98,71,137,243>>, <<191,216,4,95,230,78,92,77>>, <<191,212,64,225,192,16,35,78>>,
            <<191,208,105,4,245,114,197,214>>, <<191,201,1,78,17,221,15,65>>, <<191,193,23,108,44,188,157,114>>, <<191,178,56,179,124,116,65,67>>,
            <<191,129,129,217,45,96,43,151>>, <<63,171,180,225,70,231,142,91>>, <<63,189,215,45,160,212,173,2>>, <<63,198,218,243,203,209,61,132>>,
            <<63,206,179,84,62,21,118,247>>, <<63,211,54,106,31,214,122,224>>, <<63,214,255,215,123,110,168,112>>, <<63,218,178,35,51,255,210,96>>,
            <<63,222,73,149,143,86,165,208>>, <<63,224,225,72,234,8,132,201>>, <<63,226,140,204,245,210,193,68>>, <<63,228,37,168,242,206,59,104>>,
            <<63,229,170,65,172,55,129,89>>, <<63,231,25,16,78,85,42,202>>, <<63,232,112,163,239,137,79,202>>, <<63,233,175,163,3,89,110,247>>,
            <<63,234,212,204,181,246,193,154>>, <<63,235,222,250,46,233,58,156>>, <<63,236,205,31,185,153,101,122>>, <<63,237,158,77,210,142,74,137>>,
            <<63,238,81,178,24,80,241,137>>, <<63,238,230,152,31,2,207,13>>, <<63,239,92,106,37,210,238,222>>, <<63,239,178,177,173,154,158,4>>,
            <<63,239,233,23,240,10,226,252>>, <<63,239,255,102,54,242,41,82>>, <<63,239,245,134,19,66,232,125>>, <<63,239,203,129,115,163,162,203>>,
            <<63,239,129,130,154,113,168,144>>, <<63,239,23,211,243,64,162,48>>, <<63,238,142,223,200,1,166,203>>, <<63,237,231,47,214,29,11,19>>,
            <<63,237,33,108,195,234,173,183>>, <<63,236,62,93,119,19,191,111>>, <<63,235,62,230,76,136,219,145>>, <<63,234,36,8,50,213,146,177>>,
            <<63,232,238,223,167,184,50,107>>, <<63,231,160,163,154,2,63,79>>, <<63,230,58,164,48,224,116,190>>, <<63,228,190,73,121,197,238,67>>,
            <<63,227,45,17,254,77,124,181>>, <<63,225,136,145,67,125,252,123>>, <<63,223,164,220,103,232,221,225>>, <<63,220,24,194,237,23,112,113>>,
            <<63,216,112,103,102,93,79,40>>, <<63,212,175,119,143,33,21,248>>, <<63,208,217,185,219,56,146,202>>, <<63,201,230,19,85,206,105,4>>,
            <<63,193,254,166,211,168,181,203>>, <<63,180,10,66,115,106,217,215>>, <<63,144,12,62,42,210,109,96>>, <<191,168,16,88,165,103,187,246>>,
            <<191,188,7,78,85,206,156,233>>, <<191,197,245,31,237,158,184,168>>, <<191,205,208,131,76,198,150,40>>, <<191,210,198,245,44,189,119,53>>,
            <<191,214,146,198,38,157,123,62>>, <<191,218,71,227,47,14,111,200>>, <<191,221,226,145,182,105,180,69>>, <<191,224,175,152,225,47,245,152>>,
            <<191,226,93,32,201,163,170,112>>, <<191,227,248,48,149,129,117,31>>, <<191,229,127,42,216,250,178,48>>, <<191,230,240,134,91,76,29,57>>,
            <<191,232,74,207,162,56,72,5>>, <<191,233,140,170,103,163,218,242>>, <<191,234,180,210,247,219,47,197>>, <<191,235,194,31,119,33,214,74>>,
            <<191,236,179,129,13,67,241,68>>, <<191,237,136,4,245,252,94,46>>, <<191,238,62,213,117,29,204,14>>, <<191,238,215,58,173,136,204,78>>,
            <<191,239,80,155,90,23,74,137>>, <<191,239,170,125,103,194,197,210>>, <<191,239,228,134,112,106,203,39>>, <<191,239,254,124,21,191,229,45>>,
            <<191,239,248,68,59,247,178,4>>, <<191,239,209,229,36,15,5,228>>, <<191,239,139,133,101,127,196,192>>, <<191,239,37,107,199,112,164,205>>,
            <<191,238,159,254,249,134,39,48>>, <<191,237,251,197,44,155,228,45>>, <<191,237,57,99,139,206,174,168>>, <<191,236,89,157,150,94,153,96>>,
            <<191,235,93,84,91,16,155,218>>, <<191,234,69,133,149,213,3,119>>, <<191,233,19,74,176,150,179,6>>, <<191,231,199,215,168,51,192,206>>,
            <<191,230,100,121,214,187,224,107>>, <<191,228,234,150,164,44,202,31>>, <<191,227,91,170,30,252,172,159>>, <<191,225,185,69,125,221,211,120>>,
            <<191,224,5,13,140,57,188,215>>, <<191,220,129,114,5,247,213,184>>, <<191,216,220,29,158,168,63,18>>, <<191,213,29,200,146,88,241,243>>,
            <<191,209,74,54,182,65,7,114>>, <<191,202,202,130,119,54,187,152>>, <<191,194,229,165,161,158,74,215>>, <<191,181,219,142,195,252,62,211>>,
            <<191,151,87,90,95,156,153,89>>, <<63,164,107,127,251,156,204,132>>, <<63,186,55,17,210,230,215,19>>, <<63,197,15,3,8,125,178,224>>,
            <<63,204,237,79,50,253,203,13>>, <<63,210,87,65,198,126,255,14>>, <<63,214,37,105,190,140,232,27>>, <<63,217,221,75,194,69,189,83>>,
            <<63,221,123,42,120,245,119,13>>, <<63,224,125,177,89,183,13,32>>, <<63,226,45,55,138,71,205,182>>, <<63,227,202,117,205,232,102,0>>,
            <<63,229,83,204,135,29,225,194>>, <<63,230,199,176,29,55,16,30>>, <<63,232,36,170,138,42,115,133>>, <<63,233,105,92,210,194,12,60>>,
            <<63,234,148,128,103,153,254,221>>, <<63,235,164,232,109,144,33,23>>, <<63,236,153,130,236,88,235,254>>, <<63,237,113,89,226,10,127,80>>,
            <<63,238,43,148,58,135,252,220>>, <<63,238,199,118,169,212,154,42>>, <<63,239,68,100,104,114,230,30>>, <<63,239,161,223,209,18,133,159>>,
            <<63,239,223,138,222,238,67,216>>, <<63,239,253,39,140,90,223,244>>, <<63,239,250,152,17,39,245,191>>, <<63,239,215,223,0,147,223,83>>,
            <<63,239,149,31,70,180,183,192>>, <<63,239,50,156,5,88,230,41>>, <<63,238,176,184,80,130,200,242>>, <<63,238,15,246,202,194,242,212>>,
            <<63,237,80,249,33,213,209,162>>, <<63,236,116,127,108,8,53,155>>, <<63,235,123,103,103,6,235,141>>, <<63,234,102,171,152,219,38,42>>,
            <<63,233,55,98,83,244,102,38>>, <<63,231,238,188,159,60,237,85>>, <<63,230,142,5,3,82,216,211>>, <<63,229,22,158,62,25,187,3>>,
            <<63,227,138,1,221,243,67,191>>, <<63,225,233,190,198,6,156,248>>, <<63,224,55,119,157,18,119,193>>, <<63,220,233,194,80,191,120,72>>,
            <<63,217,71,129,40,243,253,147>>, <<63,213,139,211,90,210,228,214>>, <<63,209,186,122,16,110,142,229>>, <<63,203,174,152,126,90,27,19>>,
            <<63,195,204,101,150,93,6,67>>, <<63,183,172,146,98,167,67,234>>, <<63,158,162,40,243,95,113,101>>, <<191,160,198,99,104,3,227,212>>,
            <<191,184,102,126,32,22,15,70>>, <<191,196,40,160,25,191,107,127>>, <<191,204,9,186,228,95,68,229>>, <<191,209,231,81,96,154,134,57>>,
            <<191,213,183,195,174,244,150,148>>, <<191,217,114,94,80,39,20,232>>, <<191,221,19,97,46,224,230,43>>, <<191,224,75,146,249,151,51,29>>,
            <<191,225,253,17,215,23,90,162>>, <<191,227,156,121,52,25,210,5>>, <<191,229,40,39,70,221,127,8>>, <<191,230,158,142,27,231,13,71>>,
            <<191,231,254,53,38,60,222,149>>, <<191,233,69,186,186,29,131,115>>, <<191,234,115,213,112,179,21,48>>, <<191,235,135,85,115,94,53,205>>,
            <<191,236,127,37,173,74,236,9>>, <<191,237,90,76,226,28,193,225>>, <<191,238,23,238,168,153,75,102>>, <<191,238,183,76,72,85,86,147>>,
            <<191,239,55,197,121,133,113,69>>, <<191,239,152,217,6,49,78,121>>, <<191,239,218,37,76,39,161,94>>, <<191,239,251,104,159,47,171,16>>,
            <<191,239,252,129,139,22,15,131>>, <<191,239,221,110,245,82,31,161>>, <<191,239,158,80,30,34,3,242>>, <<191,239,63,100,129,28,151,57>>,
            <<191,238,193,11,149,88,132,201>>, <<191,238,35,196,109,104,235,183>>, <<191,237,104,45,55,144,25,230>>, <<191,236,143,2,158,168,195,125>>,
            <<191,235,153,31,12,102,25,109>>, <<191,234,135,121,205,168,232,56>>, <<191,233,91,38,25,199,181,168>>, <<191,232,21,81,253,194,140,169>>,
            <<191,230,183,69,44,122,137,35>>, <<191,229,66,95,181,29,81,145>>, <<191,227,184,24,161,16,115,10>>, <<191,226,25,252,122,193,45,248>>,
            <<191,224,105,171,190,211,46,168>>, <<191,221,81,178,114,128,15,55>>, <<191,217,178,144,160,24,57,36>>, <<191,213,249,150,122,147,84,17>>,
            <<191,210,42,130,116,98,242,15>>, <<191,204,146,82,116,165,49,29>>, <<191,196,178,227,178,117,88,95>>, <<191,185,125,71,68,220,130,70>>,
            <<191,162,246,72,210,178,254,28>>, <<63,154,66,30,19,254,7,11>>, <<63,182,149,153,70,120,111,198>>, <<63,195,65,250,31,158,16,197>>,
            <<63,203,37,201,85,206,235,212>>, <<63,209,119,37,111,90,126,27>>, <<63,213,73,213,100,128,202,176>>, <<63,217,7,28,60,81,231,96>>,
            <<63,220,171,55,49,89,18,38>>, <<63,224,25,62,103,128,15,39>>, <<63,225,204,176,80,51,142,208>>, <<63,227,110,59,97,7,101,228>>,
            <<63,228,252,59,169,98,4,184>>, <<63,230,117,32,224,41,57,182>>, <<63,231,215,111,246,87,173,69>>, <<63,233,33,196,148,56,214,42>>,
            <<63,234,82,210,127,204,64,78>>, <<63,235,105,102,234,231,222,39>>, <<63,236,100,105,167,200,195,153>>, <<63,237,66,222,66,220,229,202>>,
            <<63,238,3,229,0,169,71,53>>, <<63,238,166,187,190,206,147,159>>, <<63,239,42,190,183,72,120,211>>, <<63,239,143,105,37,36,110,109>>,
            <<63,239,212,85,202,9,196,135>>, <<63,239,249,63,84,12,173,203>>, <<63,239,254,0,163,102,20,127>>, <<63,239,226,148,239,201,236,28>>,
            <<63,239,167,23,205,54,127,224>>, <<63,239,75,197,16,55,243,201>>, <<63,238,208,248,145,187,203,253>>, <<63,238,55,45,210,177,15,50>>,
            <<63,237,126,255,127,209,201,232>>, <<63,236,169,38,214,19,41,250>>, <<63,235,182,122,232,88,79,73>>, <<63,234,167,239,199,35,70,192>>,
            <<63,233,126,149,139,30,21,70>>, <<63,232,59,151,67,114,31,119>>, <<63,230,224,57,201,1,163,43>>, <<63,229,109,218,119,177,85,75>>,
            <<63,227,229,237,207,11,101,172>>, <<63,226,73,253,251,156,126,244>>, <<63,224,155,169,74,131,208,161>>, <<63,221,185,65,17,139,119,160>>,
            <<63,218,29,74,160,4,62,179>>, <<63,214,103,16,132,141,113,35>>, <<63,210,154,78,109,131,182,160>>, <<63,205,117,173,100,182,30,50>>,
            <<63,197,153,28,247,82,175,233>>, <<63,187,77,167,97,18,112,27>>, <<63,166,155,62,27,42,11,199>>, <<191,146,247,30,3,77,117,130>>,
            <<191,180,196,105,80,54,10,188>>, <<191,194,91,20,25,50,203,138>>, <<191,202,65,125,125,103,133,171>>, <<191,209,6,191,103,207,96,253>>,
            <<191,212,219,160,76,206,31,238>>, <<191,216,155,134,235,127,118,111>>, <<191,220,66,173,218,204,139,93>>, <<191,223,205,104,149,171,42,13>>,
            <<191,225,156,19,150,132,161,87>>, <<191,227,63,188,238,123,224,186>>, <<191,228,208,10,64,189,206,178>>, <<191,230,75,104,243,196,191,131>>,
            <<191,231,176,91,123,108,103,175>>, <<191,232,253,122,216,174,26,202>>, <<191,234,49,120,2,175,239,10>>, <<191,235,75,29,55,185,107,163>>,
            <<191,236,73,79,52,188,150,235>>, <<191,237,43,14,82,57,81,94>>, <<191,237,239,119,133,92,78,68>>, <<191,238,149,197,68,87,164,181>>,
            <<191,239,29,80,77,14,212,69>>, <<191,239,133,144,77,78,182,2>>, <<191,239,206,28,107,231,229,102>>, <<191,239,246,171,178,34,17,204>>,
            <<191,239,255,21,85,29,232,104>>, <<191,239,231,80,222,219,229,130>>, <<191,239,175,118,54,190,190,182>>, <<191,239,87,189,137,128,232,36>>,
            <<191,238,224,127,16,181,65,46>>, <<191,238,74,50,186,11,239,48>>, <<191,237,149,111,174,180,106,154>>, <<191,236,194,235,187,86,52,100>>,
            <<191,235,211,122,153,57,19,254>>, <<191,234,200,13,25,84,149,240>>, <<191,233,161,176,50,29,112,29>>, <<191,232,97,139,241,3,138,33>>,
            <<191,231,8,226,80,177,250,210>>, <<191,229,153,13,245,58,180,193>>, <<191,228,19,128,207,117,151,26>>, <<191,226,121,194,168,239,154,71>>,
            <<191,224,205,111,153,225,229,202>>, <<191,222,32,108,213,119,191,206>>, <<191,218,135,173,197,195,153,216>>, <<191,214,212,64,12,167,6,237>>,
            <<191,211,9,220,135,255,174,146>>, <<191,206,88,166,90,104,5,90>>, <<191,198,127,14,103,69,111,148>>, <<191,189,29,172,174,217,244,13>>,
            <<191,170,63,232,52,55,142,191>>, <<63,135,87,189,190,151,70,242>>, <<63,178,242,244,72,114,191,152>>, <<63,193,115,241,6,107,136,151>>,
            <<63,201,92,218,82,111,101,154>>, <<63,208,150,32,191,202,217,75>>, <<63,212,109,37,214,100,141,13>>, <<63,216,47,159,195,125,129,200>>,
            <<63,219,217,198,134,231,84,146>>, <<63,223,103,234,151,91,148,154>>, <<63,225,107,60,75,183,171,165>>, <<63,227,16,254,119,24,200,131>>,
            <<63,228,163,147,159,235,99,253>>, <<63,230,33,102,225,121,94,123>>, <<63,231,136,248,55,116,66,72>>, <<63,232,216,222,0,45,130,170>>,
            <<63,234,15,198,104,75,187,134>>, <<63,235,44,120,190,142,100,122>>, <<63,236,45,214,174,74,129,122>>, <<63,237,18,221,95,100,40,103>>,
            <<63,237,218,166,122,162,196,207>>, <<63,238,132,105,17,90,231,90>>, <<63,239,15,122,103,132,36,129>>, <<63,239,123,78,159,112,13,136>>,
            <<63,239,199,121,70,117,71,163>>, <<63,239,243,173,194,1,170,84>>, <<63,239,255,191,156,165,78,32>>, <<63,239,235,162,178,201,90,192>>,
            <<63,239,183,107,62,229,113,91>>, <<63,239,99,77,197,39,126,209>>, <<63,238,239,158,222,162,87,147>>, <<63,238,92,210,228,56,106,220>>,
            <<63,237,171,125,121,151,199,219>>, <<63,236,220,80,248,189,186,128>>, <<63,235,240,29,190,150,111,130>>, <<63,234,231,209,89,110,29,121>>,
            <<63,233,196,117,154,5,148,41>>, <<63,232,135,47,136,58,188,10>>, <<63,231,49,62,60,82,142,118>>, <<63,229,195,249,158,11,102,131>>,
            <<63,228,64,209,10,188,105,131>>, <<63,226,169,73,227,219,254,43>>, <<63,224,254,254,7,98,129,186>>, <<63,222,135,52,103,35,189,88>>,
            <<63,218,241,184,175,130,177,92>>, <<63,215,65,35,167,190,6,251>>, <<63,211,121,43,80,211,81,213>>, <<63,207,59,58,98,218,236,78>>,
            <<63,199,100,181,5,141,31,124>>, <<63,190,237,81,38,240,120,236>>, <<63,173,228,58,255,248,65,195>>, <<191,113,129,227,168,119,162,178>>,
            <<191,177,33,64,59,54,164,250>>, <<191,192,140,147,232,1,252,48>>, <<191,200,119,226,205,79,136,219>>, <<191,208,37,74,237,218,230,80>>,
            <<191,211,254,103,112,179,26,65>>, <<191,215,195,104,43,42,22,168>>, <<191,219,112,130,146,141,149,189>>, <<191,223,2,4,37,157,18,175>>,
            <<191,225,58,43,18,60,130,78>>, <<191,226,226,0,150,84,154,113>>, <<191,228,118,216,90,203,130,3>>, <<191,229,247,27,52,253,78,210>>,
            <<191,231,97,70,173,110,152,227>>, <<191,232,179,238,132,123,140,248>>, <<191,233,237,190,32,174,250,67>>, <<191,235,13,121,229,80,44,10>>,
            <<191,236,18,0,111,207,135,113>>, <<191,236,250,75,186,210,29,146>>, <<191,237,197,114,37,184,40,39>>, <<191,238,114,167,95,149,7,137>>,
            <<191,239,1,61,52,172,41,43>>, <<191,239,112,164,61,165,8,45>>, <<191,239,192,108,111,197,3,71>>, <<191,239,240,69,141,158,219,29>>,
            <<191,239,255,255,119,197,243,18>>, <<191,239,239,138,93,52,126,225>>, <<191,239,190,246,203,51,197,10>>, <<191,239,110,117,156,182,124,67>>,
            <<191,238,254,87,201,54,24,61>>, <<191,238,111,14,19,68,87,74>>, <<191,237,193,40,151,34,232,167>>, <<191,236,245,86,57,211,161,205>>,
            <<191,236,12,99,249,50,51,216>>, <<191,235,7,60,29,201,96,170>>, <<191,233,230,229,79,49,240,80>>, <<191,232,172,129,139,233,93,162>>,
            <<191,231,89,77,5,169,27,171>>, <<191,229,238,156,227,100,70,249>>, <<191,228,109,221,234,43,117,143>>, <<191,226,216,147,14,79,120,94>>,
            <<191,225,48,83,238,52,201,112>>, <<191,222,237,150,112,187,158,89>>, <<191,219,91,105,252,147,124,234>>, <<191,215,173,185,235,172,201,16>>,
            <<191,211,232,57,85,205,174,255>>, <<191,208,14,179,70,63,158,248>>, <<191,200,74,13,214,97,96,213>>, <<191,192,94,71,97,171,122,212>>,
            <<191,176,196,21,48,213,156,211>>, <<191,103,87,220,204,122,78,113>>, <<63,174,158,166,106,183,212,130>>, <<63,191,73,255,126,224,82,109>>,
            <<63,199,146,153,231,137,56,87>>, <<63,207,104,126,210,137,253,9>>, <<63,211,143,102,140,10,101,110>>, <<63,215,86,225,138,110,200,243>>,
            <<63,219,6,227,91,215,249,205>>, <<63,222,155,182,147,87,15,208>>, <<63,225,8,224,141,67,206,174>>, <<63,226,178,195,232,120,185,65>>,
            <<63,228,73,217,6,35,36,96>>, <<63,229,204,134,122,251,158,36>>, <<63,231,57,71,97,94,250,57>>, <<63,232,142,172,224,111,143,58>>,
            <<63,233,203,95,157,9,69,109>>, <<63,234,238,33,19,20,210,1>>, <<63,235,245,204,213,224,94,134>>, <<63,236,225,89,182,57,121,248>>,
            <<63,237,175,218,205,34,63,210>>, <<63,238,96,128,106,20,58,170>>, <<63,238,242,152,227,226,54,61>>, <<63,239,101,145,75,102,114,140>>,
            <<63,239,184,245,255,73,174,220>>, <<63,239,236,115,32,78,114,90>>, <<63,239,255,212,229,171,119,137>>, <<63,239,243,7,209,32,152,215>>,
            <<63,239,198,24,194,145,179,42>>, <<63,239,121,52,235,19,209,127>>, <<63,239,12,169,159,121,184,63>>, <<63,238,128,228,10,141,113,131>>,
            <<63,237,214,112,191,69,8,208>>, <<63,237,13,251,43,97,32,51>>, <<63,236,40,76,235,3,57,214>>, <<63,235,38,76,253,233,100,100>>,
            <<63,234,8,254,223,26,238,101>>, <<63,232,209,129,127,240,71,219>>, <<63,231,129,14,39,123,243,197>>, <<63,230,24,247,55,118,254,182>>,
            <<63,228,154,166,215,238,77,139>>, <<63,227,7,157,139,6,65,11>>, <<63,225,97,112,170,67,170,201>>, <<63,223,83,145,157,188,234,32>>,
            <<63,219,196,192,77,113,166,55>>, <<63,216,26,1,111,78,221,169>>, <<63,212,87,5,37,149,88,211>>, <<63,208,127,147,243,143,77,188>>,
            <<63,201,47,21,222,253,83,231>>, <<63,193,69,175,191,178,59,205>>, <<63,178,149,213,30,237,22,243>>, <<63,132,108,204,209,202,50,46>>,
            <<191,170,250,102,136,244,113,175>>, <<191,189,122,111,29,206,63,172>>, <<191,198,173,2,155,173,31,140>>, <<191,206,133,255,84,2,32,195>>,
            <<191,211,32,36,153,152,82,74>>, <<191,214,234,13,74,60,6,48>>, <<191,218,156,234,66,14,88,123>>, <<191,222,53,3,52,199,159,141>>,
            <<191,224,215,93,96,188,145,216>>, <<191,226,131,73,10,159,101,112>>, <<191,228,28,150,55,153,199,137>>, <<191,229,161,169,65,18,80,56>>,
            <<191,231,16,250,216,75,155,245>>, <<191,232,105,25,143,242,59,191>>, <<191,233,168,171,79,168,250,228>>, <<191,234,206,110,176,29,136,132>>,
            <<191,235,217,60,62,72,58,17>>, <<191,236,200,7,164,145,34,88>>, <<191,237,153,224,184,176,16,26>>, <<191,238,77,244,109,55,143,43>>,
            <<191,238,227,141,165,216,146,228>>, <<191,239,90,21,237,136,217,122>>, <<191,239,177,22,13,213,24,157>>, <<191,239,232,54,134,198,134,47>>,
            <<191,239,255,63,230,227,112,230>>, <<191,239,246,27,2,242,47,118>>, <<191,239,204,209,13,70,97,47>>, <<191,239,131,139,140,129,26,219>>,
            <<191,239,26,148,49,205,67,153>>, <<191,238,146,84,142,194,19,160>>, <<191,237,235,85,171,54,113,112>>, <<191,237,38,63,123,111,187,107>>,
            <<191,236,67,216,55,54,153,229>>, <<191,235,69,3,146,124,62,76>>, <<191,234,42,193,216,87,121,190>>, <<191,232,246,46,233,65,104,105>>,
            <<191,231,168,129,29,147,139,107>>, <<191,230,67,8,13,103,171,188>>, <<191,228,199,43,63,18,124,60>>, <<191,227,54,104,189,141,5,217>>,
            <<191,225,146,83,152,56,93,11>>, <<191,223,185,36,154,251,150,21>>, <<191,220,45,186,67,199,228,170>>, <<191,216,133,248,202,133,191,23>>,
            <<191,212,197,141,79,172,185,53>>, <<191,208,240,61,193,242,240,62>>, <<191,202,19,202,37,168,132,246>>, <<191,194,44,222,171,236,85,39>>,
            <<191,180,103,87,61,65,94,22>>, <<191,145,129,175,65,42,240,218>>, <<63,167,85,204,237,165,37,0>>, <<63,187,170,124,178,139,117,206>>,
            <<63,197,199,31,229,79,235,52>>, <<63,205,163,26,81,105,250,45>>, <<63,210,176,163,11,99,32,77>>, <<63,214,124,236,212,132,71,37>>,
            <<63,218,50,152,165,163,153,96>>, <<63,221,205,235,95,127,129,139>>, <<63,224,165,162,49,82,111,123>>, <<63,226,83,144,154,177,165,159>>,
            <<63,227,239,16,133,183,45,9>>, <<63,229,118,132,21,208,136,2>>, <<63,230,232,97,152,59,138,96>>, <<63,232,67,53,15,251,200,73>>,
            <<63,233,133,161,171,249,230,48>>, <<63,234,174,99,37,213,107,89>>, <<63,235,188,79,8,7,147,24>>, <<63,236,174,85,218,15,90,34>>,
            <<63,237,131,132,49,121,2,98>>, <<63,238,59,3,166,174,0,156>>, <<63,238,212,27,172,151,211,67>>, <<63,239,78,50,74,60,28,68>>,
            <<63,239,168,204,181,151,242,39>>, <<63,239,227,143,207,30,73,169>>, <<63,239,254,64,125,93,103,195>>, <<63,239,248,195,232,111,44,204>>,
            <<63,239,211,31,148,248,104,199>>, <<63,239,141,121,94,156,22,216>>, <<63,239,40,23,81,232,44,120>>, <<63,238,163,95,101,225,255,65>>,
            <<63,237,255,215,21,121,140,231>>, <<63,237,62,34,217,74,70,23>>, <<63,236,95,5,130,48,232,24>>, <<63,235,99,95,117,92,73,224>>,
            <<63,234,76,45,202,158,120,96>>, <<63,233,26,137,77,225,9,215>>, <<63,231,207,165,100,188,115,183>>, <<63,230,108,206,217,79,7,10>>,
            <<63,228,243,106,139,137,116,69>>, <<63,227,100,244,10,66,254,241>>, <<63,225,194,252,21,124,73,249>>, <<63,224,15,39,11,82,254,175>>,
            <<63,220,150,86,130,115,163,131>>, <<63,216,241,158,150,61,127,48>>, <<63,213,51,208,100,119,144,250>>, <<63,209,96,175,58,183,114,8>>,
            <<63,202,248,39,177,193,79,49>>, <<63,195,19,209,37,121,104,21>>, <<63,182,56,149,127,157,85,111>>, <<63,152,204,189,224,25,51,26>>,
            <<191,163,176,229,182,118,90,226>>, <<191,185,218,46,68,26,61,186>>, <<191,196,224,244,193,1,89,29>>, <<191,204,191,210,189,94,236,24>>,
            <<191,210,64,227,84,68,125,87>>, <<191,214,15,129,148,55,211,215>>, <<191,217,199,239,232,49,2,237>>, <<191,221,102,112,106,93,149,168>>,
            <<191,224,115,175,164,107,43,88>>, <<191,226,35,155,55,101,109,200>>, <<191,227,193,72,135,225,152,38>>, <<191,229,75,23,136,180,173,131>>,
            <<191,230,191,124,40,53,23,55>>, <<191,232,28,255,222,146,119,40>>, <<191,233,98,67,38,131,125,209>>, <<191,234,141,254,222,208,15,235>>,
            <<191,235,159,5,147,82,228,77>>, <<191,236,148,68,172,40,198,163>>, <<191,237,108,197,129,219,236,74>>, <<191,238,39,174,85,117,211,55>>,
            <<191,238,196,67,43,126,67,21>>, <<191,239,65,230,137,10,215,87>>, <<191,239,160,26,18,33,121,94>>, <<191,239,222,127,8,205,220,111>>,
            <<191,239,252,214,172,106,209,145>>, <<191,239,251,2,120,191,5,52>>, <<191,239,217,4,68,174,29,128>>, <<191,239,150,254,64,95,24,133>>,
            <<191,239,53,50,210,217,252,5>>, <<191,238,180,4,87,63,30,113>>, <<191,238,19,244,185,219,160,32>>, <<191,237,85,164,245,126,20,27>>,
            <<191,236,121,212,113,143,71,47>>, <<191,235,129,96,65,145,132,215>>, <<191,234,109,66,70,200,64,119>>, <<191,233,62,144,52,231,175,217>>,
            <<191,231,246,122,122,200,226,227>>, <<191,230,150,75,16,59,217,160>>, <<191,229,31,100,42,42,124,138>>, <<191,227,147,62,214,91,193,163>>,
            <<191,225,243,105,128,59,56,31>>, <<191,224,65,134,96,36,190,11>>, <<191,220,254,147,173,138,84,180>>, <<191,217,92,241,108,113,142,235>>,
            <<191,213,161,204,245,63,68,240>>, <<191,209,208,230,231,229,26,143>>, <<191,203,220,43,139,197,196,20>>, <<191,195,250,132,44,65,224,135>>,
            <<191,184,9,137,218,175,142,214>>, <<191,160,11,189,2,21,243,38>>, <<63,160,11,189,2,21,157,40>>, <<63,184,9,137,218,175,100,2>>,
            <<63,195,250,132,44,66,10,128>>, <<63,203,220,43,139,197,175,21>>, <<63,209,208,230,231,229,46,247>>, <<63,213,161,204,245,63,88,239>>,
            <<63,217,92,241,108,113,162,108>>, <<63,220,254,147,173,138,75,30>>, <<63,224,65,134,96,36,185,106>>, <<63,225,243,105,128,59,64,234>>,
            <<63,227,147,62,214,91,189,98>>, <<63,229,31,100,42,42,144,138>>, <<63,230,150,75,16,59,213,209>>, <<63,231,246,122,122,200,233,237>>,
            <<63,233,62,144,52,231,172,139>>, <<63,234,109,66,70,200,70,117>>, <<63,235,129,96,65,145,138,69>>, <<63,236,121,212,113,143,76,8>>,
            <<63,237,85,164,245,126,17,245>>, <<63,238,19,244,185,219,158,74>>, <<63,238,180,4,87,63,33,111>>, <<63,239,53,50,210,217,250,212>>,
            <<63,239,150,254,64,95,28,197>>, <<63,239,217,4,68,174,28,250>>, <<63,239,251,2,120,191,5,147>>, <<63,239,252,214,172,106,209,183>>,
            <<63,239,222,127,8,205,220,235>>, <<63,239,160,26,18,33,119,191>>, <<63,239,65,230,137,10,216,126>>, <<63,238,196,67,43,126,64,41>>,
            <<63,238,39,174,85,117,213,4>>, <<63,237,108,197,129,219,232,29>>, <<63,236,148,68,172,40,201,15>>, <<63,235,159,5,147,82,222,240>>,
            <<63,234,141,254,222,208,18,235>>, <<63,233,98,67,38,131,129,23>>, <<63,232,28,255,222,146,112,44>>, <<63,230,191,124,40,53,26,255>>,
            <<63,229,75,23,136,180,165,149>>, <<63,227,193,72,135,225,143,202>>, <<63,226,35,155,55,101,101,8>>, <<63,224,115,175,164,107,47,244>>,
            <<63,221,102,112,106,93,130,201>>, <<63,217,199,239,232,48,239,123>>, <<63,214,15,129,148,55,221,240>>, <<63,210,64,227,84,68,104,250>>,
            <<63,204,191,210,189,95,1,14>>, <<63,196,224,244,193,1,47,49>>, <<63,185,218,46,68,26,104,134>>, <<63,163,176,229,182,117,177,11>>,
            <<191,152,204,189,224,26,134,238>>, <<191,182,56,149,127,157,170,24>>, <<191,195,19,209,37,121,82,208>>, <<191,202,248,39,177,193,58,43>>,
            <<191,209,96,175,58,183,134,123>>, <<191,213,51,208,100,119,134,213>>, <<191,216,241,158,150,61,176,57>>, <<191,220,150,86,130,115,153,228>>,
            <<191,224,15,39,11,83,7,223>>, <<191,225,194,252,21,124,69,128>>, <<191,227,100,244,10,66,250,170>>, <<191,228,243,106,139,137,124,76>>,
            <<191,230,108,206,217,79,3,52>>, <<191,231,207,165,100,188,122,208>>, <<191,233,26,137,77,225,6,129>>, <<191,234,76,45,202,158,126,110>>,
            <<191,235,99,95,117,92,71,25>>, <<191,236,95,5,130,48,237,2>>, <<191,237,62,34,217,74,67,232>>, <<191,237,255,215,21,121,139,8>>,
            <<191,238,163,95,101,226,2,82>>, <<191,239,40,23,81,232,43,62>>, <<191,239,141,121,94,156,24,157>>, <<191,239,211,31,148,248,104,55>>,
            <<191,239,248,195,232,111,45,62>>, <<191,239,254,64,125,93,103,224>>, <<191,239,227,143,207,30,72,198>>, <<191,239,168,204,181,151,240,155>>,
            <<191,239,78,50,74,60,26,16>>, <<191,238,212,27,172,151,212,180>>, <<191,238,59,3,166,174,2,95>>, <<191,237,131,132,49,120,254,71>>,
            <<191,236,174,85,218,15,92,132>>, <<191,235,188,79,8,7,141,204>>, <<191,234,174,99,37,213,101,123>>, <<191,233,133,161,171,249,223,199>>,
            <<191,232,67,53,15,251,203,203>>, <<191,230,232,97,152,59,142,34>>, <<191,229,118,132,21,208,128,33>>, <<191,227,239,16,133,183,49,62>>,
            <<191,226,83,144,154,177,156,233>>, <<191,224,165,162,49,82,116,18>>, <<191,221,205,235,95,127,110,190>>, <<191,218,50,152,165,163,163,48>>,
            <<191,214,124,236,212,132,81,55>>, <<191,210,176,163,11,99,11,251>>, <<191,205,163,26,81,106,15,26>>, <<191,197,199,31,229,79,193,85>>,
            <<191,187,170,124,178,139,160,147>>, <<191,167,85,204,237,164,123,54>>, <<63,145,129,175,65,42,68,206>>, <<63,180,103,87,61,65,178,205>>,
            <<63,194,44,222,171,236,63,221>>, <<63,202,19,202,37,168,174,144>>, <<63,208,240,61,193,243,4,187>>, <<63,212,197,141,79,172,175,9>>,
            <<63,216,133,248,202,133,210,183>>, <<63,220,45,186,67,199,219,2>>, <<63,223,185,36,154,251,168,137>>, <<63,225,146,83,152,56,88,141>>,
            <<63,227,54,104,189,141,14,88>>, <<63,228,199,43,63,18,132,80>>, <<63,230,67,8,13,103,179,94>>, <<63,231,168,129,29,147,135,204>>,
            <<63,232,246,46,233,65,101,11>>, <<63,234,42,193,216,87,127,219>>, <<63,235,69,3,146,124,59,124>>, <<63,236,67,216,55,54,158,224>>,
            <<63,237,38,63,123,111,185,51>>, <<63,237,235,85,171,54,117,53>>, <<63,238,146,84,142,194,18,9>>, <<63,239,26,148,49,205,66,86>>,
            <<63,239,131,139,140,129,28,179>>, <<63,239,204,209,13,70,98,95>>, <<63,239,246,27,2,242,47,251>>, <<63,239,255,63,230,227,112,249>>,
            <<63,239,232,54,134,198,133,96>>, <<63,239,177,22,13,213,25,91>>, <<63,239,90,21,237,136,218,142>>, <<63,238,227,141,165,216,144,30>>,
            <<63,238,77,244,109,55,139,193>>, <<63,237,153,224,184,176,12,17>>, <<63,236,200,7,164,145,36,177>>, <<63,235,217,60,62,72,52,213>>,
            <<63,234,206,110,176,29,139,116>>, <<63,233,168,171,79,168,244,139>>, <<63,232,105,25,143,242,63,58>>, <<63,231,16,250,216,75,148,152>>,
            <<63,229,161,169,65,18,72,100>>, <<63,228,28,150,55,153,203,183>>, <<63,226,131,73,10,159,92,198>>, <<63,224,215,93,96,188,150,106>>,
            <<63,222,53,3,52,199,140,210>>, <<63,218,156,234,66,14,98,67>>, <<63,214,234,13,74,59,242,89>>, <<63,211,32,36,153,152,92,142>>,
            <<63,206,133,255,84,1,247,127>>, <<63,198,173,2,155,173,52,183>>, <<63,189,122,111,29,206,106,103>>, <<63,170,250,102,136,243,199,245>>,
            <<191,132,108,204,209,200,218,14>>, <<191,178,149,213,30,237,107,181>>, <<191,193,69,175,191,178,38,125>>, <<191,201,47,21,222,253,125,144>>,
            <<191,208,127,147,243,143,67,88>>, <<191,212,87,5,37,149,78,160>>, <<191,216,26,1,111,78,241,88>>, <<191,219,196,192,77,113,185,91>>,
            <<191,223,83,145,157,188,252,167>>, <<191,225,97,112,170,67,166,69>>, <<191,227,7,157,139,6,73,150>>, <<191,228,154,166,215,238,73,109>>,
            <<191,230,24,247,55,118,250,210>>, <<191,231,129,14,39,123,240,31>>, <<191,232,209,129,127,240,78,143>>, <<191,234,8,254,223,26,244,146>>,
            <<191,235,38,76,253,233,97,139>>, <<191,236,40,76,235,3,62,226>>, <<191,237,13,251,43,97,36,167>>, <<191,237,214,112,191,69,12,166>>,
            <<191,238,128,228,10,141,111,227>>, <<191,239,12,169,159,121,186,208>>, <<191,239,121,52,235,19,211,107>>, <<191,239,198,24,194,145,178,135>>,
            <<191,239,243,7,209,32,153,112>>, <<191,239,255,212,229,171,119,146>>, <<191,239,236,115,32,78,113,158>>, <<191,239,184,245,255,73,175,145>>,
            <<191,239,101,145,75,102,112,126>>, <<191,238,242,152,227,226,55,155>>, <<191,238,96,128,106,20,55,83>>, <<191,237,175,218,205,34,65,212>>,
            <<191,236,225,89,182,57,124,72>>, <<191,235,245,204,213,224,89,91>>, <<191,234,238,33,19,20,212,233>>, <<191,233,203,95,157,9,53,172>>,
            <<191,232,142,172,224,111,146,172>>, <<191,231,57,71,97,94,242,234>>, <<191,229,204,134,122,251,162,20>>, <<191,228,73,217,6,35,40,136>>,
            <<191,226,178,195,232,120,176,163>>, <<191,225,8,224,141,67,197,176>>, <<191,222,155,182,147,86,253,39>>, <<191,219,6,227,91,216,3,140>>,
            <<191,215,86,225,138,110,181,43>>, <<191,211,143,102,140,10,111,171>>, <<191,207,104,126,210,137,211,215>>, <<191,199,146,153,231,137,77,123>>,
            <<191,191,73,255,126,223,254,21>>, <<191,174,158,166,106,183,42,217>>, <<63,103,87,220,204,116,237,222>>, <<63,176,196,21,48,213,241,159>>,
            <<63,192,94,71,97,171,164,249>>, <<63,200,74,13,214,97,138,141>>, <<63,208,14,179,70,63,148,143>>, <<63,211,232,57,85,205,195,48>>,
            <<63,215,173,185,235,172,191,18>>, <<63,219,91,105,252,147,115,49>>, <<63,222,237,150,112,187,148,239>>, <<63,225,48,83,238,52,196,231>>,
            <<63,226,216,147,14,79,128,244>>, <<63,228,109,221,234,43,113,108>>, <<63,229,238,156,227,100,78,181>>, <<63,231,89,77,5,169,34,238>>,
            <<63,232,172,129,139,233,100,101>>, <<63,233,230,229,79,49,237,40>>, <<63,235,7,60,29,201,93,201>>, <<63,236,12,99,249,50,56,245>>,
            <<63,236,245,86,57,211,159,131>>, <<63,237,193,40,151,34,242,115>>, <<63,238,111,14,19,68,85,161>>, <<63,238,254,87,201,54,26,225>>,
            <<63,239,110,117,156,182,123,64>>, <<63,239,190,246,203,51,196,93>>, <<63,239,239,138,93,52,127,141>>, <<63,239,255,255,119,197,243,20>>,
            <<63,239,240,69,141,158,218,117>>, <<63,239,192,108,111,197,3,242>>, <<63,239,112,164,61,165,6,51>>, <<63,239,1,61,52,172,42,128>>,
            <<63,238,114,167,95,148,255,88>>, <<63,237,197,114,37,184,42,32>>, <<63,236,250,75,186,210,25,16>>, <<63,236,18,0,111,207,138,6>>,
            <<63,235,13,121,229,80,46,234>>, <<63,233,237,190,32,174,244,9>>, <<63,232,179,238,132,123,134,56>>, <<63,231,97,70,173,110,145,162>>,
            <<63,229,247,27,52,253,82,187>>, <<63,228,118,216,90,203,121,216>>, <<63,226,226,0,150,84,158,201>>, <<63,225,58,43,18,60,134,214>>,
            <<63,223,2,4,37,157,28,23>>, <<63,219,112,130,146,141,159,117>>, <<63,215,195,104,43,42,2,238>>, <<63,211,254,103,112,179,36,120>>,
            <<63,208,37,74,237,218,209,193>>, <<63,200,119,226,205,79,95,38>>, <<63,192,140,147,232,1,210,14>>, <<63,177,33,64,59,54,207,230>>,
            <<63,113,129,227,168,122,82,250>>, <<191,173,228,58,255,248,235,111>>, <<191,190,237,81,38,240,78,56>>, <<191,199,100,181,5,141,73,66>>,
            <<191,207,59,58,98,218,215,115>>, <<191,211,121,43,80,211,102,18>>, <<191,215,65,35,167,189,252,246>>, <<191,218,241,184,175,130,196,161>>,
            <<191,222,135,52,103,35,208,4>>, <<191,224,254,254,7,98,138,187>>, <<191,226,169,73,227,220,6,205>>, <<191,228,64,209,10,188,101,89>>,
            <<191,229,195,249,158,11,110,77>>, <<191,231,49,62,60,82,138,193>>, <<191,232,135,47,136,58,205,36>>, <<191,233,196,117,154,5,144,249>>,
            <<191,234,231,209,89,110,35,57>>, <<191,235,240,29,190,150,108,226>>, <<191,236,220,80,248,189,184,45>>, <<191,237,171,125,121,151,203,214>>,
            <<191,238,92,210,228,56,105,41>>, <<191,238,239,158,222,162,90,74>>, <<191,239,99,77,197,39,125,197>>, <<191,239,183,107,62,229,114,196>>,
            <<191,239,235,162,178,201,90,95>>, <<191,239,255,191,156,165,78,54>>, <<191,239,243,173,194,1,170,159>>, <<191,239,199,121,70,117,72,69>>,
            <<191,239,123,78,159,112,11,161>>, <<191,239,15,122,103,132,37,204>>, <<191,238,132,105,17,90,228,40>>, <<191,237,218,166,122,162,192,252>>,
            <<191,237,18,221,95,100,35,247>>, <<191,236,45,214,174,74,132,6>>, <<191,235,44,120,190,142,94,222>>, <<191,234,15,198,104,75,181,93>>,
            <<191,232,216,222,0,45,134,13>>, <<191,231,136,248,55,116,59,21>>, <<191,230,33,102,225,121,98,93>>, <<191,228,163,147,159,235,91,223>>,
            <<191,227,16,254,119,24,204,213>>, <<191,225,107,60,75,183,162,187>>, <<191,223,103,234,151,91,130,23>>, <<191,219,217,198,134,231,65,113>>,
            <<191,216,47,159,195,125,139,189>>, <<191,212,109,37,214,100,151,62>>, <<191,208,150,32,191,202,196,198>>, <<191,201,92,218,82,111,122,176>>,
            <<191,193,115,241,6,107,94,127>>, <<191,178,242,244,72,114,234,127>>, <<191,135,87,189,190,148,159,35>>, <<63,170,63,232,52,55,56,211>>,
            <<63,189,29,172,174,217,201,80>>, <<63,198,127,14,103,69,153,104>>, <<63,206,88,166,90,103,240,117>>, <<63,211,9,220,135,255,194,218>>,
            <<63,214,212,64,12,166,252,225>>, <<63,218,135,173,197,195,173,45>>, <<63,222,32,108,213,119,182,81>>, <<63,224,205,111,153,225,238,212>>,
            <<63,226,121,194,168,239,149,227>>, <<63,228,19,128,207,117,146,234>>, <<63,229,153,13,245,58,188,152>>, <<63,231,8,226,80,177,247,22>>,
            <<63,232,97,139,241,3,145,2>>, <<63,233,161,176,50,29,108,229>>, <<63,234,200,13,25,84,155,192>>, <<63,235,211,122,153,57,17,87>>,
            <<63,236,194,235,187,86,57,12>>, <<63,237,149,111,174,180,110,167>>, <<63,238,74,50,186,11,242,157>>, <<63,238,224,127,16,181,63,196>>,
            <<63,239,87,189,137,128,231,14>>, <<63,239,175,118,54,190,192,50>>, <<63,239,231,80,222,219,229,23>>, <<63,239,255,21,85,29,232,145>>,
            <<63,239,246,171,178,34,17,74>>, <<63,239,206,28,107,231,228,58>>, <<63,239,133,144,77,78,182,239>>, <<63,239,29,80,77,14,213,135>>,
            <<63,238,149,197,68,87,161,150>>, <<63,237,239,119,133,92,80,43>>, <<63,237,43,14,82,57,77,0>>, <<63,236,73,79,52,188,153,110>>,
            <<63,235,75,29,55,185,102,24>>, <<63,234,49,120,2,175,242,33>>, <<63,232,253,122,216,174,30,38>>, <<63,231,176,91,123,108,96,139>>,
            <<63,230,75,104,243,196,195,94>>, <<63,228,208,10,64,189,198,161>>, <<63,227,63,188,238,123,229,6>>, <<63,225,156,19,150,132,152,120>>,
            <<63,223,205,104,149,171,51,98>>, <<63,220,66,173,218,204,120,78>>, <<63,216,155,134,235,127,128,93>>, <<63,212,219,160,76,206,11,216>>,
            <<63,209,6,191,103,207,76,130>>, <<63,202,65,125,125,103,154,185>>, <<63,194,91,20,25,50,98,38>>, <<63,180,196,105,80,54,53,156>>,
            <<63,146,247,30,3,76,33,164>>, <<191,166,155,62,27,41,181,212>>, <<191,187,77,167,97,18,196,154>>, <<191,197,153,28,247,82,217,203>>,
            <<191,205,117,173,100,182,71,140>>, <<191,210,154,78,109,131,172,86>>, <<191,214,103,16,132,141,103,16>>, <<191,218,29,74,160,4,82,25>>,
            <<191,221,185,65,17,139,110,26>>, <<191,224,155,169,74,131,217,181>>, <<191,226,73,253,251,156,122,138>>, <<191,227,229,237,207,11,109,253>>,
            <<191,229,109,218,119,177,81,77>>, <<191,230,224,57,201,1,159,105>>, <<191,232,59,151,67,114,38,103>>, <<191,233,126,149,139,30,27,177>>,
            <<191,234,167,239,199,35,76,161>>, <<191,235,182,122,232,88,76,153>>, <<191,236,169,38,214,19,46,179>>, <<191,237,126,255,127,209,199,210>>,
            <<191,238,55,45,210,177,13,109>>, <<191,238,208,248,145,187,206,217>>, <<191,239,75,197,16,55,246,1>>, <<191,239,167,23,205,54,129,112>>,
            <<191,239,226,148,239,201,235,167>>, <<191,239,254,0,163,102,20,187>>, <<191,239,249,63,84,12,174,3>>, <<191,239,212,85,202,9,195,110>>,
            <<191,239,143,105,37,36,111,81>>, <<191,239,42,190,183,72,118,107>>, <<191,238,166,187,190,206,144,145>>, <<191,238,3,229,0,169,73,18>>,
            <<191,237,66,222,66,220,225,125>>, <<191,236,100,105,167,200,198,20>>, <<191,235,105,102,234,231,216,172>>, <<191,234,82,210,127,204,67,92>>,
            <<191,233,33,196,148,56,207,151>>, <<191,231,215,111,246,87,176,220>>, <<191,230,117,32,224,41,50,37>>, <<191,228,252,59,169,98,8,199>>,
            <<191,227,110,59,97,7,106,41>>, <<191,225,204,176,80,51,133,252>>, <<191,224,25,62,103,128,19,205>>, <<191,220,171,55,49,88,226,139>>,
            <<191,217,7,28,60,81,241,70>>, <<191,213,73,213,100,128,182,166>>, <<191,209,119,37,111,90,136,116>>, <<191,203,37,201,85,207,0,218>>,
            <<191,195,65,250,31,157,230,195>>, <<191,182,149,153,70,120,27,31>>, <<191,154,66,30,19,252,179,59>>, <<63,162,246,72,210,178,168,34>>,
            <<63,185,125,71,68,220,214,213>>, <<63,196,178,227,178,117,67,37>>, <<63,204,146,82,116,165,28,37>>, <<63,210,42,130,116,98,231,192>>,
            <<63,213,249,150,122,147,104,6>>, <<63,217,178,144,160,24,76,153>>, <<63,221,81,178,114,128,5,168>>, <<63,224,105,171,190,211,55,199>>,
            <<63,226,25,252,122,193,54,187>>, <<63,227,184,24,161,16,123,104>>, <<63,229,66,95,181,29,77,141>>, <<63,230,183,69,44,122,144,158>>,
            <<63,232,21,81,253,194,147,168>>, <<63,233,91,38,25,199,178,96>>, <<63,234,135,121,205,168,238,41>>, <<63,235,153,31,12,102,22,180>>,
            <<63,236,143,2,158,168,200,72>>, <<63,237,104,45,55,144,23,199>>, <<63,238,35,196,109,104,239,73>>, <<63,238,193,11,149,88,131,76>>,
            <<63,239,63,100,129,28,153,131>>, <<63,239,158,80,30,34,3,30>>, <<63,239,221,110,245,82,31,34>>, <<63,239,252,129,139,22,15,210>>,
            <<63,239,251,104,159,47,171,62>>, <<63,239,218,37,76,39,158,208>>, <<63,239,152,217,6,49,79,83>>, <<63,239,55,197,121,133,110,239>>,
            <<63,238,183,76,72,85,88,21>>, <<63,238,23,238,168,153,77,58>>, <<63,237,90,76,226,28,189,166>>, <<63,236,127,37,173,74,231,51>>,
            <<63,235,135,85,115,94,48,99>>, <<63,234,115,213,112,179,24,54>>, <<63,233,69,186,186,29,124,239>>, <<63,231,254,53,38,60,226,36>>,
            <<63,230,158,142,27,231,5,195>>, <<63,229,40,39,70,221,131,16>>, <<63,227,156,121,52,25,201,160>>, <<63,225,253,17,215,23,81,217>>,
            <<63,224,75,146,249,151,55,189>>, <<63,221,19,97,46,224,211,61>>, <<63,217,114,94,80,39,1,106>>, <<63,213,183,195,174,244,130,152>>,
            <<63,209,231,81,96,154,144,141>>, <<63,204,9,186,228,95,27,112>>, <<63,196,40,160,25,191,128,189>>, <<63,184,102,126,32,22,58,25>>,
            <<63,160,198,99,104,4,57,209>>, <<191,158,162,40,243,94,197,102>>, <<191,183,172,146,98,167,152,137>>, <<191,195,204,101,150,92,241,3>>,
            <<191,203,174,152,126,90,68,143>>, <<191,209,186,122,16,110,163,79>>, <<191,213,139,211,90,210,248,215>>, <<191,217,71,129,40,243,243,178>>,
            <<191,220,233,194,80,191,110,175>>, <<191,224,55,119,157,18,128,233>>, <<191,225,233,190,198,6,152,131>>, <<191,227,138,1,221,243,88,212>>,
            <<191,229,22,158,62,25,182,248>>, <<191,230,142,5,3,82,224,92>>, <<191,231,238,188,159,60,233,196>>, <<191,233,55,98,83,244,98,215>>,
            <<191,234,102,171,152,219,44,43>>, <<191,235,123,103,103,6,240,254>>, <<191,236,116,127,108,8,58,119>>, <<191,237,80,249,33,213,207,122>>,
            <<191,238,15,246,202,194,246,120>>, <<191,238,176,184,80,130,199,108>>, <<191,239,50,156,5,88,236,22>>, <<191,239,149,31,70,180,182,226>>,
            <<191,239,215,223,0,147,224,95>>, <<191,239,250,152,17,39,245,141>>, <<191,239,253,39,140,90,224,25>>, <<191,239,223,138,222,238,66,230>>,
            <<191,239,161,223,209,18,134,111>>, <<191,239,68,100,104,114,227,219>>, <<191,238,199,118,169,212,155,162>>, <<191,238,43,148,58,135,249,82>>,
            <<191,237,113,89,226,10,129,108>>, <<191,236,153,130,236,88,231,58>>, <<191,235,164,232,109,144,35,205>>, <<191,234,148,128,103,154,1,220>>,
            <<191,233,105,92,210,194,5,199>>, <<191,232,36,170,138,42,119,12>>, <<191,230,199,176,29,55,8,168>>, <<191,229,83,204,135,29,217,214>>,
            <<191,227,202,117,205,232,93,167>>, <<191,226,45,55,138,71,210,35>>, <<191,224,125,177,89,183,17,188>>, <<191,221,123,42,120,245,100,50>>,
            <<191,217,221,75,194,69,199,42>>, <<191,214,37,105,190,140,212,44>>, <<191,210,87,65,198,127,9,92>>, <<191,204,237,79,50,253,161,168>>,
            <<191,197,15,3,8,125,200,23>>, <<191,186,55,17,210,230,130,138>>, <<191,164,107,127,251,156,34,176>>, <<63,151,87,90,95,157,237,48>>,
            <<63,181,219,142,195,252,147,127>>, <<63,194,229,165,161,158,53,145>>, <<63,202,202,130,119,54,229,37>>, <<63,209,74,54,182,64,253,23>>,
            <<63,213,29,200,146,89,36,54>>, <<63,216,220,29,158,168,53,41>>, <<63,220,129,114,5,247,232,190>>, <<63,224,5,13,140,57,184,47>>,
            <<63,225,185,69,125,221,206,254>>, <<63,227,91,170,30,252,181,21>>, <<63,228,234,150,164,44,198,13>>, <<63,230,100,121,214,187,232,2>>,
            <<63,231,199,215,168,51,189,53>>, <<63,233,19,74,176,150,185,159>>, <<63,234,69,133,149,213,0,101>>, <<63,235,93,84,91,16,161,91>>,
            <<63,236,89,157,150,94,150,225>>, <<63,237,57,99,139,206,172,119>>, <<63,237,251,197,44,155,231,227>>, <<63,238,159,254,249,134,37,161>>,
            <<63,239,37,107,199,112,167,61>>, <<63,239,139,133,101,127,195,216>>, <<63,239,209,229,36,15,7,4>>, <<63,239,248,68,59,247,177,200>>,
            <<63,239,254,124,21,191,229,72>>, <<63,239,228,134,112,106,202,72>>, <<63,239,170,125,103,194,196,75>>, <<63,239,80,155,90,23,72,89>>,
            <<63,238,215,58,173,136,205,189>>, <<63,238,62,213,117,29,200,150>>, <<63,237,136,4,245,252,96,64>>, <<63,236,179,129,13,67,236,146>>,
            <<63,235,194,31,119,33,209,1>>, <<63,234,180,210,247,219,41,235>>, <<63,233,140,170,103,163,222,47>>, <<63,232,74,207,162,56,75,133>>,
            <<63,230,240,134,91,76,21,209>>, <<63,229,127,42,216,250,182,44>>, <<63,227,248,48,149,129,108,210>>, <<63,226,93,32,201,163,174,216>>,
            <<63,224,175,152,225,47,236,135>>, <<63,221,226,145,182,105,189,200>>, <<63,218,71,227,47,14,121,150>>, <<63,214,146,198,38,157,103,93>>,
            <<63,210,198,245,44,189,129,125>>, <<63,205,208,131,76,198,108,213>>, <<63,197,245,31,237,158,205,216>>, <<63,188,7,78,85,206,72,112>>,
            <<63,168,16,88,165,104,17,231>>, <<191,144,12,62,42,211,193,67>>, <<191,180,10,66,115,106,174,245>>, <<191,193,254,166,211,168,160,127>>,
            <<191,201,230,19,85,206,146,161>>, <<191,208,217,185,219,56,136,106>>, <<191,212,175,119,143,33,42,19>>, <<191,216,112,103,102,93,69,55>>,
            <<191,220,24,194,237,23,131,136>>, <<191,223,164,220,103,232,212,136>>, <<191,225,136,145,67,126,5,94>>, <<191,227,45,17,254,77,133,54>>,
            <<191,228,190,73,121,197,246,90>>, <<191,230,58,164,48,224,112,224>>, <<191,231,160,163,154,2,59,175>>, <<191,232,238,223,167,184,57,19>>,
            <<191,234,36,8,50,213,143,151>>, <<191,235,62,230,76,136,225,35>>, <<191,236,62,93,119,19,196,109>>, <<191,237,33,108,195,234,178,29>>,
            <<191,237,231,47,214,29,9,41>>, <<191,238,142,223,200,1,165,51>>, <<191,239,23,211,243,64,164,179>>, <<191,239,129,130,154,113,170,108>>,
            <<191,239,203,129,115,163,163,255>>, <<191,239,245,134,19,66,232,55>>, <<191,239,255,102,54,242,41,49>>, <<191,239,233,23,240,10,227,99>>,
            <<191,239,178,177,173,154,158,193>>, <<191,239,92,106,37,210,236,193>>, <<191,238,230,152,31,2,208,115>>, <<191,238,81,178,24,80,238,35>>,
            <<191,237,158,77,210,142,76,147>>, <<191,236,205,31,185,153,96,217>>, <<191,235,222,250,46,233,61,65>>, <<191,234,212,204,181,246,187,208>>,
            <<191,233,175,163,3,89,114,44>>, <<191,232,112,163,239,137,72,239>>, <<191,231,25,16,78,85,35,112>>, <<191,229,170,65,172,55,133,79>>,
            <<191,228,37,168,242,206,38,185>>, <<191,226,140,204,245,210,197,166>>, <<191,224,225,72,234,8,123,194>>, <<191,222,73,149,143,86,175,73>>,
            <<191,218,178,35,51,255,191,17>>, <<191,214,255,215,123,110,148,156>>, <<191,211,54,106,31,214,102,156>>, <<191,206,179,84,62,21,139,217>>,
            <<191,198,218,243,203,209,82,173>>, <<191,189,215,45,160,212,88,155>>, <<191,171,180,225,70,231,228,68>>, <<63,129,129,217,45,98,211,107>>,
            <<63,178,56,179,124,116,22,90>>, <<63,193,23,108,44,188,199,142>>, <<63,201,1,78,17,220,250,41>>, <<63,208,105,4,245,114,187,112>>,
            <<63,212,64,225,192,16,55,117>>, <<63,216,4,95,230,78,111,254>>, <<63,219,175,182,98,71,157,26>>, <<63,223,63,52,121,62,89,187>>,
            <<63,225,87,162,184,226,127,151>>, <<63,226,254,58,22,220,170,204>>, <<63,228,145,183,82,60,19,58>>, <<63,230,16,132,156,227,22,167>>,
            <<63,231,121,32,247,10,168,32>>, <<63,232,202,33,178,119,192,120>>, <<63,234,2,51,223,62,123,123>>, <<63,235,32,29,160,164,49,241>>,
            <<63,236,34,191,104,201,41,184>>, <<63,237,9,21,25,221,36,195>>, <<63,237,210,55,11,187,87,241>>, <<63,238,125,90,244,231,12,255>>,
            <<63,239,9,212,181,254,54,206>>, <<63,239,119,23,6,213,212,228>>, <<63,239,196,180,4,145,189,129>>, <<63,239,242,93,160,40,220,165>>,
            <<63,239,255,229,236,230,254,159>>, <<63,239,237,63,78,156,252,165>>, <<63,239,186,124,135,80,232,76>>, <<63,239,103,208,164,96,120,223>>,
            <<63,238,245,142,203,40,168,88>>, <<63,238,100,41,229,102,46,240>>, <<63,237,180,52,45,162,217,40>>, <<63,236,230,94,156,36,59,38>>,
            <<63,235,251,120,52,239,88,10>>, <<63,234,244,109,55,148,74,69>>, <<63,233,210,70,49,147,230,78>>, <<63,232,150,38,244,77,12,9>>,
            <<63,231,65,77,111,126,228,108>>, <<63,229,213,16,113,133,159,180>>, <<63,228,82,222,78,148,170,35>>, <<63,226,188,59,112,72,7,2>>,
            <<63,225,18,192,207,0,3,243>>, <<63,222,176,52,173,31,237,104>>, <<63,219,28,10,111,186,210,246>>, <<63,215,108,156,82,66,220,43>>,
            <<63,211,165,159,45,25,247,115>>, <<63,207,149,191,20,144,27,164>>, <<63,199,192,123,166,182,247,133>>, <<63,191,166,169,173,53,135,47>>,
            <<63,175,89,13,194,168,162,151>>, <<191,87,87,222,89,249,8,189>>, <<191,176,102,231,235,119,33,41>>, <<191,192,47,248,173,226,75,124>>,
            <<191,200,28,53,164,60,253,137>>, <<191,207,240,50,247,143,27,231>>, <<191,211,210,8,148,239,236,204>>, <<191,215,152,8,133,197,55,17>>,
            <<191,219,70,77,194,232,62,243>>, <<191,222,217,36,158,139,76,4>>, <<191,225,38,122,128,200,114,113>>, <<191,226,207,35,4,117,86,187>>,
            <<191,228,100,224,193,203,126,189>>, <<191,229,230,27,166,220,51,218>>, <<191,231,81,80,66,180,158,136>>, <<191,232,165,17,75,7,238,245>>,
            <<191,233,224,9,11,146,148,145>>, <<191,235,0,250,189,196,90,253>>, <<191,236,6,195,199,88,149,78>>, <<191,236,240,92,222,155,128,164>>,
            <<191,237,188,219,19,54,132,98>>, <<191,238,107,112,186,122,38,18>>, <<191,238,251,110,62,54,156,135>>, <<191,239,108,66,205,84,52,45>>,
            <<191,239,189,124,237,121,15,229>>, <<191,239,238,202,237,42,84,34>>, <<191,239,255,251,53,245,166,224>>, <<191,239,240,252,126,80,128,26>>,
            <<191,239,193,221,218,251,24,68>>, <<191,239,114,206,175,213,132,236>>, <<191,239,4,30,128,54,38,123>>, <<191,238,118,60,158,241,158,80>>,
            <<191,237,201,183,190,100,53,249>>, <<191,236,255,61,96,237,254,205>>, <<191,236,23,153,42,113,113,225>>, <<191,235,19,180,19,132,57,142>>,
            <<191,233,244,147,127,32,115,182>>, <<191,232,187,88,51,193,135,97>>, <<191,231,105,61,56,245,104,13>>, <<191,229,255,150,154,133,246,3>>,
            <<191,228,127,208,18,121,214,198>>, <<191,226,235,107,155,67,159,155>>, <<191,225,67,255,235,144,141,150>>, <<191,223,22,109,186,120,20,50>>,
            <<191,219,133,151,130,8,58,63>>, <<191,215,217,19,65,90,173,78>>, <<191,212,20,146,226,172,154,195>>, <<191,208,59,224,111,151,196,155>>,
            <<191,200,165,180,130,238,43,185>>, <<191,192,186,222,58,188,156,193>>, <<191,177,126,104,254,52,102,191>>, <<191,119,87,214,150,121,51,91>>,
            <<63,173,41,203,155,55,103,82>>, <<63,190,144,158,177,187,180,178>>, <<63,199,54,205,6,221,88,98>>, <<63,207,13,241,203,136,247,231>>,
            <<63,211,98,237,126,105,241,32>>, <<63,215,43,98,173,21,29,108>>, <<63,218,220,138,109,140,7,194>>, <<63,222,114,174,43,64,152,15>>,
            <<63,224,245,25,62,172,230,78>>, <<63,226,159,205,99,180,169,95>>, <<63,228,55,198,93,147,251,90>>, <<63,229,187,105,219,216,49,236>>,
            <<63,231,41,50,1,107,94,238>>, <<63,232,127,174,236,173,181,233>>, <<63,233,189,136,41,116,90,233>>, <<63,234,225,126,11,119,53,227>>,
            <<63,235,234,106,239,211,35,172>>, <<63,236,215,68,100,92,101,175>>, <<63,237,167,28,51,152,31,161>>, <<63,238,89,33,84,79,249,230>>,
            <<63,238,236,160,187,206,114,247>>, <<63,239,97,6,17,240,187,119>>, <<63,239,181,220,70,88,181,26>>, <<63,239,234,206,6,41,114,23>>,
            <<63,239,255,166,17,215,87,37>>, <<63,239,244,79,114,181,252,53>>, <<63,239,200,213,144,13,151,247>>, <<63,239,125,100,35,162,254,171>>,
            <<63,239,18,71,13,189,145,188>>, <<63,238,135,234,8,215,136,149>>, <<63,237,222,216,61,69,34,110>>, <<63,237,23,187,181,63,224,123>>,
            <<63,236,51,92,177,226,87,187>>, <<63,235,50,160,225,192,251,23>>, <<63,234,22,138,121,233,250,45>>, <<63,232,224,55,50,52,162,61>>,
            <<63,231,144,223,37,230,25,71>>, <<63,230,41,211,153,202,246,129>>, <<63,228,172,125,169,3,90,120>>, <<63,227,26,92,217,212,209,81>>,
            <<63,225,117,5,155,240,210,91>>, <<63,223,124,63,99,101,50,150>>, <<63,219,238,201,11,220,86,232>>, <<63,216,69,58,223,249,234,91>>,
            <<63,212,131,67,207,140,100,85>>, <<63,208,172,171,87,37,79,123>>, <<63,201,138,155,102,28,23,237>>, <<63,193,162,47,250,193,184,138>>,
            <<63,179,80,16,236,160,210,15>>, <<63,138,66,171,144,105,27,163>>, <<191,169,133,102,97,129,60,164>>, <<191,188,192,230,96,77,223,158>>,
            <<191,198,81,23,52,183,180,235>>, <<191,206,43,73,87,79,73,68>>, <<191,210,243,145,238,3,131,172>>, <<191,214,190,111,197,150,70,217>>,
            <<191,218,114,109,193,242,210,235>>, <<191,222,11,210,116,36,98,56>>, <<191,224,195,127,150,202,137,203>>, <<191,226,112,57,210,7,220,246>>,
            <<191,228,10,104,187,150,236,194>>, <<191,229,144,111,201,213,215,158>>, <<191,231,0,198,184,156,9,222>>, <<191,232,89,251,19,190,129,246>>,
            <<191,233,154,177,171,164,132,52>>, <<191,234,193,167,242,117,69,39>>, <<191,235,205,181,64,127,219,171>>, <<191,236,189,203,254,150,161,187>>,
            <<191,237,144,250,181,50,169,246>>, <<191,238,70,108,255,78,12,48>>, <<191,238,221,108,96,0,254,98>>, <<191,239,85,96,250,10,243,189>>,
            <<191,239,173,210,40,142,228,166>>, <<191,239,230,102,248,105,143,126>>, <<191,239,254,230,129,167,57,229>>, <<191,239,247,56,32,191,78,131>>,
            <<191,239,207,99,143,92,24,80>>, <<191,239,135,144,220,149,184,96>>, <<191,239,32,8,68,168,56,116>>, <<191,238,153,49,232,77,43,81>>,
            <<191,237,243,149,100,1,219,92>>, <<191,237,47,217,71,163,190,134>>, <<191,236,78,194,110,235,146,24>>, <<191,235,81,51,59,112,163,53>>,
            <<191,234,56,42,176,250,86,112>>, <<191,233,4,195,117,5,221,252>>, <<191,231,184,50,178,129,76,67>>, <<191,230,83,198,226,218,99,117>>,
            <<191,228,216,230,125,153,186,160>>, <<191,227,73,14,143,220,74,201>>, <<191,225,165,209,61,22,188,59>>, <<191,223,225,168,85,69,53,23>>,
            <<191,220,87,157,175,92,20,38>>, <<191,216,177,17,198,108,33,29>>, <<191,212,241,176,131,149,102,54>>, <<191,209,29,62,201,207,71,202>>,
            <<191,202,111,45,86,246,133,138>>, <<191,194,137,71,21,85,227,186>>, <<191,181,33,120,159,231,179,75>>, <<191,148,108,138,63,138,30,200>>,
            <<63,165,224,172,70,200,249,31>>, <<63,186,240,206,109,189,162,10>>, <<63,197,107,23,41,198,131,185>>, <<63,205,72,60,140,181,206,30>>,
            <<63,210,131,247,86,23,248,39>>, <<63,214,81,49,57,161,60,229>>, <<63,218,7,249,33,6,14,159>>, <<63,221,164,146,207,77,124,215>>,
            <<63,224,145,174,46,23,197,254>>, <<63,226,64,104,237,170,45,62>>, <<63,227,220,200,114,181,76,70>>, <<63,229,101,45,255,196,42,132>>,
            <<63,230,216,14,238,180,17,9>>, <<63,232,51,246,61,158,198,15>>, <<63,233,119,134,6,0,126,25>>, <<63,234,161,120,220,160,122,238>>,
            <<63,235,176,163,24,218,147,145>>, <<63,236,163,244,1,255,234,131>>, <<63,237,122,118,225,160,156,11>>, <<63,238,51,83,249,169,139,23>>,
            <<63,238,205,209,93,95,150,41>>, <<63,239,73,83,172,93,124,171>>, <<63,239,165,94,174,216,144,240>>, <<63,239,225,149,210,143,19,179>>,
            <<63,239,253,188,135,226,106,71>>, <<63,239,249,182,126,191,200,107>>, <<63,239,213,135,195,25,215,220>>, <<63,239,145,84,184,214,209,179>>,
            <<63,239,45,97,247,55,36,88>>, <<63,238,170,20,3,217,107,31>>, <<63,238,7,238,237,161,4,172>>, <<63,237,71,149,199,229,88,40>>,
            <<63,236,105,202,6,110,152,25>>, <<63,235,111,106,186,229,251,94>>, <<63,234,89,115,180,124,17,188>>, <<63,233,40,252,130,167,197,239>>,
            <<63,231,223,55,91,251,255,208>>, <<63,230,125,111,234,47,49,181>>, <<63,229,5,9,252,138,29,116>>, <<63,227,119,128,34,13,250,218>>,
            <<63,225,214,98,44,185,24,43>>, <<63,224,35,83,159,105,38,6>>, <<63,220,192,20,15,224,255,27>>, <<63,217,28,150,142,9,85,0>>,
            <<63,213,95,215,143,134,181,203>>, <<63,209,141,153,81,45,20,47>>, <<63,203,83,103,93,78,1,46>>, <<63,195,112,32,137,231,183,207>>,
            <<63,182,242,154,12,44,201,177>>, <<63,155,183,122,201,157,40,103>>, <<191,162,59,169,105,39,30,47>>, <<191,185,32,92,225,137,149,188>>,
            <<191,196,132,207,226,250,207,180>>, <<191,204,100,206,94,221,186,207>>, <<191,210,20,31,41,212,96,194>>, <<191,213,227,168,116,138,28,30>>,
            <<191,217,157,45,236,211,90,189>>, <<191,221,60,240,148,31,103,213>>, <<191,224,95,165,170,68,72,65>>, <<191,226,16,91,85,162,201,55>>,
            <<191,227,174,230,26,173,229,33>>, <<191,229,57,165,13,128,194,98>>, <<191,230,175,11,43,31,53,188>>, <<191,232,13,160,232,192,69,194>>,
            <<191,233,84,5,173,128,227,27>>, <<191,234,128,241,53,2,164,124>>, <<191,235,147,52,217,146,171,216>>, <<191,236,137,188,196,139,251,199>>,
            <<191,237,99,145,3,195,138,237>>, <<191,238,31,214,130,230,149,89>>, <<191,238,189,207,231,208,248,181>>, <<191,239,60,222,80,253,136,85>>,
            <<191,239,156,129,245,81,22,143>>, <<191,239,220,90,164,159,60,136>>, <<191,239,252,40,40,103,237,124>>, <<191,239,251,202,132,108,79,93>>,
            <<191,239,219,66,22,217,246,18>>, <<191,239,154,175,151,236,43,81>>, <<191,239,58,83,249,3,166,126>>, <<191,238,186,144,35,85,175,61>>,
            <<191,238,27,228,150,116,148,53>>, <<191,237,94,240,231,19,61,72>>, <<191,236,132,115,30,133,254,144>>, <<191,235,141,70,251,162,15,65>>,
            <<191,234,122,101,21,187,176,102>>, <<191,233,76,225,226,161,201,133>>, <<191,232,5,236,160,145,144,103>>, <<191,230,166,206,37,59,43,26>>,
            <<191,229,48,231,147,8,65,144>>, <<191,227,165,176,245,243,34,4>>, <<191,226,6,183,201,82,15,177>>, <<191,224,85,157,104,19,180,109>>,
            <<191,221,40,42,209,254,122,213>>, <<191,217,135,199,209,58,167,232>>, <<191,213,205,183,133,6,184,126>>, <<191,209,253,185,119,147,74,22>>,
            <<191,204,55,70,130,22,192,186>>, <<191,196,86,185,88,179,21,209>>, <<191,184,195,111,38,126,15,5>>, <<191,161,129,7,146,165,222,151>>,
            <<63,157,44,211,207,76,86,138>>, <<63,183,79,151,196,92,80,104>>, <<63,195,158,68,94,51,74,167>>, <<63,203,129,1,194,44,228,3>>,
            <<63,209,164,10,221,50,157,76>>, <<63,213,117,214,226,155,189,140>>, <<63,217,50,13,136,136,99,146>>, <<63,220,212,237,27,69,48,203>>,
            <<63,224,45,102,177,183,3,170>>, <<63,225,224,17,169,194,194,55>>, <<63,227,128,194,76,27,16,192>>, <<63,229,13,213,131,213,223,10>>,
            <<63,230,133,187,246,69,231,83>>, <<63,231,230,251,148,160,154,211>>, <<63,233,48,49,24,56,28,149>>, <<63,234,96,17,103,204,41,8>>,
            <<63,235,117,106,228,137,205,170>>, <<63,236,111,38,157,107,72,29>>, <<63,237,76,73,103,195,9,250>>, <<63,238,11,244,219,215,66,30>>,
            <<63,238,173,104,52,144,158,222>>, <<63,239,48,1,17,90,99,180>>, <<63,239,147,60,25,113,220,201>>, <<63,239,214,181,127,255,237,177>>,
            <<63,239,250,41,104,120,163,236>>, <<63,239,253,116,42,219,120,204>>, <<63,239,224,146,119,143,175,242>>, <<63,239,163,161,90,184,210,238>>,
            <<63,239,70,222,30,255,224,223>>, <<63,238,202,166,15,238,137,51>>, <<63,238,47,118,28,26,157,4>>, <<63,237,117,234,87,127,219,201>>,
            <<63,236,158,189,94,134,170,34>>, <<63,235,170,199,154,85,89,96>>, <<63,234,154,254,103,41,43,105>>, <<63,233,112,115,29,145,125,131>>,
            <<63,232,44,81,255,133,114,57>>, <<63,230,207,225,10,104,255,206>>, <<63,229,92,126,175,48,102,49>>, <<63,227,211,160,113,236,96,182>>,
            <<63,226,54,209,114,33,12,120>>, <<63,224,135,176,221,98,22,112>>, <<63,221,143,224,155,133,237,28>>, <<63,217,242,164,43,126,255,119>>,
            <<63,214,59,78,246,168,155,95>>, <<63,210,109,157,200,24,167,106>>, <<63,205,26,199,207,116,53,142>>, <<63,197,61,14,130,202,34,249>>,
            <<63,186,147,241,228,229,210,192>>, <<63,165,38,23,137,83,65,249>>, <<191,149,225,243,196,52,155,82>>, <<191,181,126,133,31,244,215,76>>,
            <<191,194,183,119,154,48,223,69>>, <<191,202,156,217,172,66,54,81>>, <<191,209,51,187,228,244,134,12>>, <<191,213,7,189,241,19,115,161>>,
            <<191,216,198,153,88,110,39,137>>, <<191,220,108,137,190,173,105,207>>, <<191,223,245,227,215,24,98,112>>, <<191,225,175,140,138,162,235,22>>,
            <<191,227,82,93,160,112,237,47>>, <<191,228,225,191,244,120,134,206>>, <<191,230,92,33,217,139,159,240>>, <<191,231,192,6,193,199,78,34>>,
            <<191,233,12,8,189,80,149,174>>, <<191,234,62,217,226,82,153,55>>, <<191,235,87,69,156,210,156,253>>, <<191,236,84,49,229,9,243,46>>,
            <<191,237,52,160,91,11,198,42>>, <<191,237,247,175,70,154,244,38>>, <<191,238,156,154,122,46,6,49>>, <<191,239,34,188,24,60,216,84>>,
            <<191,239,137,141,58,17,243,140>>, <<191,239,208,166,119,119,116,7>>, <<191,239,247,192,78,183,56,235>>, <<191,239,254,179,108,133,159,116>>,
            <<191,239,229,120,211,142,161,59>>, <<191,239,172,41,227,125,106,191>>, <<191,239,83,0,63,119,106,211>>, <<191,238,218,85,148,36,111,252>>,
            <<191,238,66,163,61,126,82,51>>, <<191,237,140,129,204,194,136,8>>, <<191,236,184,168,111,0,217,113>>, <<191,235,199,236,52,225,21,199>>,
            <<191,234,187,63,60,89,92,195>>, <<191,233,147,175,189,44,110,52>>, <<191,232,82,102,249,36,179,84>>, <<191,230,248,168,17,29,237,72>>,
            <<191,229,135,206,192,9,48,100>>, <<191,228,1,77,253,51,131,238>>, <<191,226,102,174,135,44,220,98>>, <<191,224,185,141,88,201,1,95>>,
            <<191,221,247,52,19,138,232,236>>, <<191,218,93,42,57,111,195,230>>, <<191,214,168,156,119,240,153,157>>, <<191,210,221,68,206,154,234,209>>,
            <<191,205,253,232,80,192,241,67>>, <<191,198,35,29,10,32,186,178>>, <<191,188,100,28,62,130,75,142>>, <<191,168,202,225,41,160,175,59>>,
            <<63,141,45,149,227,224,54,167>>, <<63,179,173,42,255,20,135,137>>, <<63,193,208,108,150,141,183,135>>, <<63,201,184,89,19,237,210,42>>,
            <<63,208,195,51,182,158,245,36>>, <<63,212,153,95,14,27,150,218>>, <<63,216,90,210,193,228,86,56>>, <<63,220,3,199,217,133,113,238>>,
            <<63,223,144,143,255,37,162,193>>, <<63,225,126,204,153,161,247,79>>, <<63,227,35,184,177,251,82,66>>, <<63,228,181,100,242,6,161,232>>,
            <<63,230,50,61,95,76,215,142>>, <<63,231,152,194,241,196,86,50>>, <<63,232,231,141,21,11,125,158>>, <<63,234,29,75,19,15,58,67>>,
            <<63,235,56,197,102,175,144,68>>, <<63,236,56,222,245,14,164,157>>, <<63,237,28,150,44,78,126,120>>, <<63,237,227,6,6,157,87,253>>,
            <<63,238,139,102,240,140,14,10>>, <<63,239,21,15,145,198,171,151>>, <<63,239,127,117,119,101,172,220>>, <<63,239,202,45,159,44,77,223>>,
            <<63,239,244,236,227,40,12,95>>, <<63,239,255,136,69,68,248,170>>, <<63,239,233,245,26,139,0,96>>, <<63,239,180,73,21,216,142,150>>,
            <<63,239,94,186,50,15,205,121>>, <<63,238,233,158,123,204,113,244>>, <<63,238,85,107,186,216,180,107>>, <<63,237,162,182,251,184,98,80>>,
            <<63,236,210,51,249,193,122,27>>, <<63,235,228,180,106,88,136,99>>, <<63,234,219,39,42,7,112,192>>, <<63,233,182,151,76,65,129,87>>,
            <<63,232,120,43,14,199,227,126>>, <<63,231,33,34,177,187,99,108>>, <<63,229,178,215,53,133,141,54>>, <<63,228,46,184,255,221,204,225>>,
            <<63,226,150,78,105,69,197,148>>, <<63,224,235,50,52,115,203,54>>, <<63,222,94,35,226,104,84,63>>, <<63,218,199,88,152,197,9,69>>,
            <<63,215,21,158,157,88,214,249>>, <<63,211,76,173,23,195,169,84>>, <<63,206,224,165,18,154,47,6>>, <<63,199,8,225,241,149,101,99>>,
            <<63,190,51,232,43,149,174,129>>, <<63,172,111,88,85,67,5,19>>, <<191,125,45,198,105,127,204,177>>, <<191,177,219,143,109,106,126,151>>,
            <<191,192,233,38,83,178,197,59>>, <<191,200,211,130,241,37,122,128>>, <<191,208,82,115,200,117,103,200>>, <<191,212,42,187,168,199,60,74>>,
            <<191,215,238,187,43,92,171,211>>, <<191,219,154,168,200,53,101,123>>, <<191,223,42,211,44,149,106,7>>, <<191,225,77,210,120,226,5,14>>,
            <<191,226,244,212,27,219,195,141>>, <<191,228,136,197,16,5,6,149>>, <<191,230,8,15,18,221,101,24>>, <<191,231,113,48,167,46,93,193>>,
            <<191,232,194,190,152,190,242,142>>, <<191,233,251,101,105,157,187,111>>, <<191,235,25,234,167,145,113,93>>, <<191,236,29,46,40,89,93,218>>,
            <<191,237,4,43,43,126,247,102>>, <<191,237,205,249,96,149,153,109>>, <<191,238,121,205,208,224,34,11>>, <<191,239,6,251,171,114,4,170>>,
            <<191,239,116,244,242,254,49,184>>, <<191,239,195,75,12,164,222,7>>, <<191,239,241,175,47,49,24,26>>, <<191,239,255,242,178,85,159,105>>,
            <<191,239,238,7,61,153,207,237>>, <<191,239,187,254,214,199,41,120>>, <<191,239,106,11,207,201,13,133>>, <<191,238,248,128,148,16,230,88>>,
            <<191,238,103,207,85,177,139,24>>, <<191,237,184,137,154,133,117,231>>, <<191,236,235,95,169,211,14,146>>, <<191,236,1,31,219,2,63,94>>,
            <<191,234,250,181,198,22,39,216>>, <<191,233,217,41,86,186,133,203>>, <<191,232,157,157,194,212,153,126>>, <<191,231,73,80,101,161,10,172>>,
            <<191,229,221,151,128,134,156,118>>, <<191,228,91,224,226,221,183,205>>, <<191,226,197,176,122,7,151,223>>, <<191,225,28,158,203,70,241,252>>,
            <<191,222,196,174,177,196,109,28>>, <<191,219,49,45,232,90,245,255>>, <<191,215,130,83,252,86,54,139>>, <<191,211,187,213,49,13,63,208>>,
            <<191,207,194,251,34,232,170,72>>, <<191,199,238,90,60,251,136,101>>, <<191,192,1,167,210,206,220,46>>, <<191,176,9,184,119,127,47,160>>,
            <<61,67,221,197,188,226,0,187>>, <<63,176,9,184,119,127,126,239>>, <<63,192,1,167,210,206,196,27>>, <<63,199,238,90,60,251,175,109>>,
            <<63,207,194,251,34,232,208,197>>, <<63,211,187,213,49,13,52,69>>, <<63,215,130,83,252,86,73,5>>, <<63,219,49,45,232,90,235,4>>,
            <<63,222,196,174,177,196,126,136>>, <<63,225,28,158,203,70,236,220>>, <<63,226,197,176,122,7,159,235>>, <<63,228,91,224,226,221,191,119>>,
            <<63,229,221,151,128,134,163,183>>, <<63,231,73,80,101,161,6,131>>, <<63,232,157,157,194,212,149,157>>, <<63,233,217,41,86,186,139,166>>,
            <<63,234,250,181,198,22,36,149>>, <<63,236,1,31,219,2,75,234>>, <<63,236,235,95,169,211,11,249>>, <<63,237,184,137,154,133,121,149>>,
            <<63,238,103,207,85,177,137,52>>, <<63,238,248,128,148,16,228,209>>, <<63,239,106,11,207,201,15,105>>, <<63,239,187,254,214,199,42,191>>,
            <<63,239,238,7,61,153,208,149>>, <<63,239,255,242,178,85,159,99>>, <<63,239,241,175,47,49,23,132>>, <<63,239,195,75,12,164,222,196>>,
            <<63,239,116,244,242,254,44,246>>, <<63,239,6,251,171,114,6,38>>, <<63,238,121,205,208,224,31,4>>, <<63,237,205,249,96,149,149,208>>,
            <<63,237,4,43,43,126,249,245>>, <<63,236,29,46,40,89,89,28>>, <<63,235,25,234,167,145,108,21>>, <<63,233,251,101,105,157,181,162>>,
            <<63,232,194,190,152,190,246,102>>, <<63,231,113,48,167,46,86,254>>, <<63,230,8,15,18,221,93,227>>, <<63,228,136,197,16,5,11,60>>,
            <<63,226,244,212,27,219,200,113>>, <<63,225,77,210,120,226,10,40>>, <<63,223,42,211,44,149,88,173>>, <<63,219,154,168,200,53,112,109>>,
            <<63,215,238,187,43,92,153,102>>, <<63,212,42,187,168,199,41,111>>, <<63,208,82,115,200,117,84,146>>, <<63,200,211,130,241,37,146,79>>,
            <<63,192,233,38,83,178,221,73>>, <<63,177,219,143,109,106,47,81>>, <<63,125,45,198,105,130,213,58>>, <<191,172,111,88,85,67,163,194>>,
            <<191,190,51,232,43,149,126,79>>, <<191,199,8,225,241,149,140,121>>, <<191,206,224,165,18,154,23,121>>, <<191,211,76,173,23,195,188,69>>,
            <<191,215,21,158,157,88,233,128>>, <<191,218,199,88,152,197,27,80>>, <<191,222,94,35,226,104,101,188>>, <<191,224,235,50,52,115,198,15>>,
            <<191,226,150,78,105,69,205,170>>, <<191,228,46,184,255,221,200,44>>, <<191,229,178,215,53,133,160,70>>, <<191,231,33,34,177,187,95,58>>,
            <<191,232,120,43,14,199,233,229>>, <<191,233,182,151,76,65,135,64>>, <<191,234,219,39,42,7,109,115>>, <<191,235,228,180,106,88,141,66>>,
            <<191,236,210,51,249,193,119,120>>, <<191,237,162,182,251,184,102,16>>, <<191,238,85,107,186,216,178,125>>, <<191,238,233,158,123,204,116,133>>,
            <<191,239,94,186,50,15,207,111>>, <<191,239,180,73,21,216,143,239>>, <<191,239,233,245,26,138,255,238>>, <<191,239,255,136,69,68,248,154>>,
            <<191,239,244,236,227,40,11,219>>, <<191,239,202,45,159,44,78,144>>, <<191,239,127,117,119,101,171,28>>, <<191,239,21,15,145,198,169,58>>,
            <<191,238,139,102,240,140,11,20>>, <<191,237,227,6,6,157,90,40>>, <<191,237,28,150,44,78,122,88>>, <<191,236,56,222,245,14,159,238>>,
            <<191,235,56,197,102,175,147,116>>, <<191,234,29,75,19,15,52,133>>, <<191,232,231,141,21,11,129,109>>, <<191,231,152,194,241,196,79,125>>,
            <<191,230,50,61,95,76,219,237>>, <<191,228,181,100,242,6,154,85>>, <<191,227,35,184,177,251,74,77>>, <<191,225,126,204,153,161,238,254>>,
            <<191,223,144,143,255,37,145,120>>, <<191,220,3,199,217,133,124,214>>, <<191,216,90,210,193,228,67,217>>, <<191,212,153,95,14,27,162,87>>,
            <<191,208,195,51,182,158,225,247>>, <<191,201,184,89,19,237,233,239>>, <<191,193,208,108,150,141,144,46>>, <<191,179,173,42,255,20,56,78>>,
            <<191,141,45,149,227,225,186,228>>, <<63,168,202,225,41,161,77,249>>, <<63,188,100,28,62,130,27,81>>, <<63,198,35,29,10,32,225,212>>,
            <<63,205,253,232,80,192,217,171>>, <<63,210,221,68,206,154,253,205>>, <<63,214,168,156,119,240,142,68>>, <<63,218,93,42,57,111,214,0>>,
            <<63,221,247,52,19,138,222,51>>, <<63,224,185,141,88,200,252,51>>, <<63,226,102,174,135,44,228,131>>, <<63,228,1,77,253,51,127,49>>,
            <<63,229,135,206,192,9,55,189>>, <<63,230,248,168,17,29,233,15>>, <<63,232,82,102,249,36,185,200>>, <<63,233,147,175,189,44,106,142>>,
            <<63,234,187,63,60,89,98,56>>, <<63,235,199,236,52,225,26,181>>, <<63,236,184,168,111,0,221,210>>, <<63,237,140,129,204,194,139,216>>,
            <<63,238,66,163,61,126,80,58>>, <<63,238,218,85,148,36,114,159>>, <<63,239,83,0,63,119,105,149>>, <<63,239,172,41,227,125,108,42>>,
            <<63,239,229,120,211,142,162,7>>, <<63,239,254,179,108,133,159,161>>, <<63,239,247,192,78,183,56,121>>, <<63,239,208,166,119,119,116,174>>,
            <<63,239,137,141,58,17,241,221>>, <<63,239,34,188,24,60,217,186>>, <<63,238,156,154,122,46,3,76>>, <<63,237,247,175,70,154,246,71>>,
            <<63,237,52,160,91,11,194,27>>, <<63,236,84,49,229,9,246,0>>, <<63,235,87,69,156,210,160,36>>, <<63,234,62,217,226,82,147,136>>,
            <<63,233,12,8,189,80,153,117>>, <<63,231,192,6,193,199,71,122>>, <<63,230,92,33,217,139,164,71>>, <<63,228,225,191,244,120,127,71>>,
            <<63,227,82,93,160,112,242,5>>, <<63,225,175,140,138,162,226,206>>, <<63,223,245,227,215,24,108,243>>, <<63,220,108,137,190,173,88,2>>,
            <<63,216,198,153,88,110,21,56>>, <<63,213,7,189,241,19,127,23>>, <<63,209,51,187,228,244,114,233>>, <<63,202,156,217,172,66,78,14>>,
            <<63,194,183,119,154,48,183,246>>, <<63,181,126,133,31,245,7,169>>, <<63,149,225,243,196,51,93,136>>, <<191,165,38,23,137,83,224,196>>,
            <<191,186,147,241,228,230,33,202>>, <<191,197,61,14,130,202,74,39>>, <<191,205,26,199,207,116,29,236>>, <<191,210,109,157,200,24,186,113>>,
            <<191,214,59,78,246,168,143,254>>, <<191,217,242,164,43,127,17,160>>, <<191,221,143,224,155,133,226,89>>, <<191,224,135,176,221,98,30,242>>,
            <<191,226,54,209,114,33,20,163>>, <<191,227,211,160,113,236,91,243>>, <<191,229,92,126,175,48,109,150>>, <<191,230,207,225,10,105,6,198>>,
            <<191,232,44,81,255,133,120,188>>, <<191,233,112,115,29,145,121,213>>, <<191,234,154,254,103,41,48,238>>, <<191,235,170,199,154,85,86,83>>,
            <<191,236,158,189,94,134,167,108>>, <<191,237,117,234,87,127,223,170>>, <<191,238,47,118,28,26,160,80>>, <<191,238,202,166,15,238,139,231>>,
            <<191,239,70,222,30,255,223,150>>, <<191,239,163,161,90,184,212,106>>, <<191,239,224,146,119,143,175,106>>, <<191,239,253,116,42,219,121,11>>,
            <<191,239,250,41,104,120,164,39>>, <<191,239,214,181,127,255,236,178>>, <<191,239,147,60,25,113,219,44>>, <<191,239,48,1,17,90,101,16>>,
            <<191,238,173,104,52,144,151,125>>, <<191,238,11,244,219,215,68,52>>, <<191,237,76,73,103,195,5,251>>, <<191,236,111,38,157,107,74,230>>,
            <<191,235,117,106,228,137,200,144>>, <<191,234,96,17,103,204,35,104>>, <<191,233,48,49,24,56,22,116>>, <<191,231,230,251,148,160,148,56>>,
            <<191,230,133,187,246,69,235,163>>, <<191,229,13,213,131,213,215,143>>, <<191,227,128,194,76,27,21,143>>, <<191,225,224,17,169,194,185,250>>,
            <<191,224,45,102,177,183,8,230>>, <<191,220,212,237,27,69,31,14>>, <<191,217,50,13,136,136,110,186>>, <<191,213,117,214,226,155,200,251>>,
            <<191,209,164,10,221,50,138,51>>, <<191,203,129,1,194,44,189,53>>, <<191,195,158,68,94,51,35,100>>, <<191,183,79,151,196,92,128,189>>,
            <<191,157,44,211,207,75,24,207>>, <<63,161,129,7,146,165,125,147>>, <<63,184,195,111,38,125,222,182>>, <<63,196,86,185,88,178,253,219>>,
            <<63,204,55,70,130,22,231,123>>, <<63,209,253,185,119,147,93,39>>, <<63,213,205,183,133,6,173,21>>, <<63,217,135,199,209,58,186,32>>,
            <<63,221,40,42,209,254,140,133>>, <<63,224,85,157,104,19,188,247>>, <<63,226,6,183,201,82,10,174>>, <<63,227,165,176,245,243,41,219>>,
            <<63,229,48,231,147,8,73,2>>, <<63,230,166,206,37,59,38,209>>, <<63,232,5,236,160,145,161,137>>, <<63,233,76,225,226,161,197,206>>,
            <<63,234,122,101,21,187,181,250>>, <<63,235,141,70,251,162,12,43>>, <<63,236,132,115,30,134,3,18>>, <<63,237,94,240,231,19,65,58>>,
            <<63,238,27,228,150,116,151,146>>, <<63,238,186,144,35,85,173,139>>, <<63,239,58,83,249,3,165,43>>, <<63,239,154,175,151,236,44,223>>,
            <<63,239,219,66,22,217,245,127>>, <<63,239,251,202,132,108,80,50>>, <<63,239,252,40,40,103,237,171>>, <<63,239,220,90,164,159,59,156>>,
            <<63,239,156,129,245,81,23,128>>, <<63,239,60,222,80,253,137,166>>, <<63,238,189,207,231,208,245,243>>, <<63,238,31,214,130,230,145,255>>,
            <<63,237,99,145,3,195,134,255>>, <<63,236,137,188,196,139,254,134>>, <<63,235,147,52,217,146,166,206>>, <<63,234,128,241,53,2,167,227>>,
            <<63,233,84,5,173,128,230,208>>, <<63,232,13,160,232,192,73,195>>, <<63,230,175,11,43,31,46,186>>, <<63,229,57,165,13,128,186,243>>,
            <<63,227,174,230,26,173,233,234>>, <<63,226,16,91,85,162,193,4>>, <<63,224,95,165,170,68,63,184>>, <<63,221,60,240,148,31,86,41>>,
            <<63,217,157,45,236,211,101,220>>, <<63,213,227,168,116,138,9,115>>, <<63,210,20,31,41,212,77,179>>, <<63,204,100,206,94,221,210,121>>,
            <<63,196,132,207,226,250,168,124>>, <<63,185,32,92,225,137,198,8>>, <<63,162,59,169,105,38,127,91>>, <<191,155,183,122,201,156,102,86>>,
            <<191,182,242,154,12,45,24,214>>, <<191,195,112,32,137,231,223,20>>, <<191,203,83,103,93,78,39,255>>, <<191,209,141,153,81,45,8,131>>,
            <<191,213,95,215,143,134,170,91>>, <<191,217,28,150,142,9,103,70>>, <<191,220,192,20,15,224,244,68>>, <<191,224,35,83,159,105,60,107>>,
            <<191,225,214,98,44,185,19,34>>, <<191,227,119,128,34,14,2,188>>, <<191,229,5,9,252,138,24,225>>, <<191,230,125,111,234,47,45,100>>,
            <<191,231,223,55,91,252,6,110>>, <<191,233,40,252,130,167,204,18>>, <<191,234,89,115,180,124,23,95>>, <<191,235,111,106,186,229,248,62>>,
            <<191,236,105,202,6,110,156,170>>, <<191,237,71,149,199,229,85,182>>, <<191,238,7,238,237,161,13,161>>, <<191,238,170,20,3,217,105,99>>,
            <<191,239,45,97,247,55,38,149>>, <<191,239,145,84,184,214,211,83>>, <<191,239,213,135,195,25,215,62>>, <<191,239,249,182,126,191,200,207>>,
            <<191,239,253,188,135,226,106,108>>, <<191,239,225,149,210,143,18,216>>, <<191,239,165,94,174,216,145,215>>, <<191,239,73,83,172,93,122,149>>,
            <<191,238,205,209,93,95,147,120>>, <<191,238,51,83,249,169,141,25>>, <<191,237,122,118,225,160,158,103>>, <<191,236,163,244,1,255,237,55>>,
            <<191,235,176,163,24,218,142,150>>, <<191,234,161,120,220,160,126,75>>, <<191,233,119,134,6,0,120,21>>, <<191,232,51,246,61,158,191,143>>,
            <<191,230,216,14,238,180,10,21>>, <<191,229,101,45,255,196,47,7>>, <<191,227,220,200,114,181,81,8>>, <<191,226,64,104,237,170,37,22>>,
            <<191,224,145,174,46,23,203,46>>, <<191,221,164,146,207,77,107,60>>, <<191,218,7,249,33,6,25,181>>, <<191,214,81,49,57,161,42,71>>,
            <<191,210,131,247,86,24,3,196>>, <<191,205,72,60,140,181,167,112>>, <<191,197,107,23,41,198,92,141>>, <<191,186,240,206,109,189,83,4>>,
            <<191,165,224,172,70,200,90,86>>, <<63,148,108,138,63,137,92,174>>, <<63,181,33,120,159,232,2,124>>, <<63,194,137,71,21,85,203,183>>,
            <<63,202,111,45,86,246,235,9>>, <<63,209,29,62,201,207,60,25>>, <<63,212,241,176,131,149,120,252>>, <<63,216,177,17,198,108,51,113>>,
            <<63,220,87,157,175,92,9,69>>, <<63,223,225,168,85,69,70,81>>, <<63,225,165,209,61,22,183,43>>, <<63,227,73,14,143,220,82,182>>,
            <<63,228,216,230,125,153,182,6>>, <<63,230,83,198,226,218,106,146>>, <<63,231,184,50,178,129,82,238>>, <<63,233,4,195,117,5,228,46>>,
            <<63,234,56,42,176,250,82,246>>, <<63,235,81,51,59,112,160,12>>, <<63,236,78,194,110,235,150,185>>, <<63,237,47,217,71,163,188,9>>,
            <<63,237,243,149,100,1,222,219>>, <<63,238,153,49,232,77,41,138>>, <<63,239,32,8,68,168,58,194>>, <<63,239,135,144,220,149,183,86>>,
            <<63,239,207,99,143,92,23,167>>, <<63,239,247,56,32,191,78,249>>, <<63,239,254,230,129,167,57,255>>, <<63,239,230,102,248,105,142,181>>,
            <<63,239,173,210,40,142,229,130>>, <<63,239,85,96,250,10,241,185>>, <<63,238,221,108,96,0,255,252>>, <<63,238,70,108,255,78,8,248>>,
            <<63,237,144,250,181,50,166,41>>, <<63,236,189,203,254,150,157,93>>, <<63,235,205,181,64,127,214,193>>, <<63,234,193,167,242,117,72,123>>,
            <<63,233,154,177,171,164,126,62>>, <<63,232,89,251,19,190,133,229>>, <<63,231,0,198,184,156,2,246>>, <<63,229,144,111,201,213,220,25>>,
            <<63,228,10,104,187,150,229,4>>, <<63,226,112,57,210,7,212,216>>, <<63,224,195,127,150,202,142,246>>, <<63,222,11,210,116,36,80,174>>,
            <<63,218,114,109,193,242,221,248>>, <<63,214,190,111,197,150,52,71>>, <<63,210,243,145,238,3,143,67>>, <<63,206,43,73,87,79,34,167>>,
            <<63,198,81,23,52,183,204,209>>, <<63,188,192,230,96,77,144,167>>, <<63,169,133,102,97,129,157,151>>, <<191,138,66,171,144,103,151,100>>,
            <<191,179,80,16,236,161,33,76>>, <<191,193,162,47,250,193,160,129>>, <<191,201,138,155,102,28,62,220>>, <<191,208,172,171,87,37,67,196>>,
            <<191,212,131,67,207,140,119,38>>, <<191,216,69,58,223,249,223,33>>, <<191,219,238,201,11,220,104,200>>, <<191,223,124,63,99,101,67,225>>,
            <<191,225,117,5,155,240,218,175>>, <<191,227,26,92,217,212,217,73>>, <<191,228,172,125,169,3,85,215>>, <<191,230,41,211,153,202,253,172>>,
            <<191,231,144,223,37,230,21,44>>, <<191,232,224,55,50,52,168,124>>, <<191,234,22,138,121,233,246,170>>, <<191,235,50,160,225,193,0,83>>,
            <<191,236,51,92,177,226,92,109>>, <<191,237,23,187,181,63,221,244>>, <<191,237,222,216,61,69,37,255>>, <<191,238,135,234,8,215,134,196>>,
            <<191,239,18,71,13,189,148,28>>, <<191,239,125,100,35,162,253,151>>, <<191,239,200,213,144,13,153,29>>, <<191,239,244,79,114,181,252,189>>,
            <<191,239,255,166,17,215,87,52>>, <<191,239,234,206,6,41,113,96>>, <<191,239,181,220,70,88,181,234>>, <<191,239,97,6,17,240,185,133>>,
            <<191,238,236,160,187,206,116,134>>, <<191,238,89,33,84,79,246,191>>, <<191,237,167,28,51,152,33,233>>, <<191,236,215,68,100,92,97,97>>,
            <<191,235,234,106,239,211,38,163>>, <<191,234,225,126,11,119,48,128>>, <<191,233,189,136,41,116,85,3>>, <<191,232,127,174,236,173,185,208>>,
            <<191,231,41,50,1,107,77,9>>, <<191,229,187,105,219,216,54,96>>, <<191,228,55,198,93,147,243,167>>, <<191,226,159,205,99,180,174,78>>,
            <<191,224,245,25,62,172,221,226>>, <<191,222,114,174,43,64,134,150>>, <<191,218,220,138,109,139,245,186>>, <<191,215,43,98,173,21,10,231>>,
            <<191,211,98,237,126,105,252,176>>, <<191,207,13,241,203,136,209,91>>, <<191,199,54,205,6,221,112,63>>, <<191,190,144,158,177,187,101,204>>,
            <<191,173,41,203,155,55,200,60>>, <<63,119,87,214,150,126,42,199>>, <<63,177,126,104,254,52,182,7>>, <<63,192,186,222,58,188,132,178>>,
            <<63,200,165,180,130,238,82,182>>, <<63,208,59,224,111,151,215,211>>, <<63,212,20,146,226,172,173,160>>, <<63,215,217,19,65,90,162,12>>,
            <<63,219,133,151,130,8,76,47>>, <<63,223,22,109,186,120,9,151>>, <<63,225,67,255,235,144,136,122>>, <<63,226,235,107,155,67,154,183>>,
            <<63,228,127,208,18,121,210,29>>, <<63,229,255,150,154,133,253,58>>, <<63,231,105,61,56,245,99,234>>, <<63,232,187,88,51,193,141,174>>,
            <<63,233,244,147,127,32,112,41>>, <<63,235,19,180,19,132,62,217>>, <<63,236,23,153,42,113,110,249>>, <<63,236,255,61,96,238,3,1>>,
            <<63,237,201,183,190,100,57,154>>, <<63,238,118,60,158,241,156,116>>, <<63,239,4,30,128,54,44,221>>, <<63,239,114,206,175,213,131,205>>,
            <<63,239,193,221,218,251,25,125>>, <<63,239,240,252,126,80,127,188>>, <<63,239,255,251,53,245,166,219>>, <<63,239,238,202,237,42,83,125>>,
            <<63,239,189,124,237,121,14,162>>, <<63,239,108,66,205,84,50,76>>, <<63,238,251,110,62,54,158,12>>, <<63,238,107,112,186,122,34,253>>,
            <<63,237,188,219,19,54,134,160>>, <<63,236,240,92,222,155,117,146>>, <<63,236,6,195,199,88,152,60>>, <<63,235,0,250,189,196,85,169>>,
            <<63,233,224,9,11,146,152,35>>, <<63,232,165,17,75,7,242,212>>, <<63,231,81,80,66,180,151,186>>, <<63,229,230,27,166,220,44,156>>,
            <<63,228,100,224,193,203,119,21>>, <<63,226,207,35,4,117,91,163>>, <<63,225,38,122,128,200,106,14>>, <<63,222,217,36,158,139,86,166>>,
            <<63,219,70,77,194,232,73,237>>, <<63,215,152,8,133,197,66,88>>, <<63,211,210,8,148,239,217,232>>, <<63,207,240,50,247,142,245,109>>,
            <<63,200,28,53,164,61,21,94>>, <<63,192,47,248,173,226,36,18>>, <<63,176,102,231,235,118,209,219>>, <<63,87,87,222,89,229,42,249>>,
            <<191,175,89,13,194,168,65,180>>, <<191,191,166,169,173,53,214,10>>, <<191,199,192,123,166,183,30,144>>, <<191,207,149,191,20,144,4,32>>,
            <<191,211,165,159,45,26,10,92>>, <<191,215,108,156,82,66,208,225>>, <<191,219,28,10,111,186,228,245>>, <<191,222,176,52,173,31,226,194>>,
            <<191,225,18,192,207,0,12,89>>, <<191,226,188,59,112,72,15,15>>, <<191,228,82,222,78,148,177,207>>, <<191,229,213,16,113,133,166,247>>,
            <<191,231,65,77,111,126,224,65>>, <<191,232,150,38,244,77,18,101>>, <<191,233,210,70,49,147,226,185>>, <<191,234,244,109,55,148,88,63>>,
            <<191,235,251,120,52,239,85,24>>, <<191,236,230,94,156,36,63,106>>, <<191,237,180,52,45,162,214,230>>, <<191,238,100,41,229,102,45,10>>,
            <<191,238,245,142,203,40,170,219>>, <<191,239,103,208,164,96,122,199>>, <<191,239,186,124,135,80,233,150>>, <<191,239,237,63,78,156,252,60>>,
            <<191,239,255,229,236,230,254,172>>, <<191,239,242,93,160,40,220,255>>, <<191,239,196,180,4,145,188,80>>, <<191,239,119,23,6,213,213,254>>,
            <<191,239,9,212,181,254,52,100>>, <<191,238,125,90,244,231,9,251>>, <<191,237,210,55,11,187,90,36>>, <<191,237,9,21,25,221,32,150>>,
            <<191,236,34,191,104,201,36,253>>, <<191,235,32,29,160,164,44,172>>, <<191,234,2,51,223,62,127,4>>, <<191,232,202,33,178,119,186,48>>,
            <<191,231,121,32,247,10,161,96>>, <<191,230,16,132,156,227,27,12>>, <<191,228,145,183,82,60,11,158>>, <<191,226,254,58,22,220,175,173>>,
            <<191,225,87,162,184,226,119,62>>, <<191,223,63,52,121,62,100,82>>, <<191,219,175,182,98,71,139,49>>, <<191,216,4,95,230,78,93,148>>,
            <<191,212,64,225,192,16,36,157>>, <<191,208,105,4,245,114,199,43>>, <<191,201,1,78,17,221,17,246>>, <<191,193,23,108,44,188,160,46>>,
            <<191,178,56,179,124,116,70,196>>, <<191,129,129,217,45,96,87,184>>, <<63,171,180,225,70,231,131,86>>, <<63,189,215,45,160,212,167,136>>,
            <<63,198,218,243,203,209,58,205>>, <<63,206,179,84,62,21,116,73>>, <<63,211,54,106,31,214,121,143>>, <<63,214,255,215,123,110,167,38>>,
            <<63,218,178,35,51,255,209,31>>, <<63,222,73,149,143,86,164,153>>, <<63,224,225,72,234,8,132,51>>, <<63,226,140,204,245,210,192,180>>,
            <<63,228,37,168,242,206,58,223>>, <<63,229,170,65,172,55,128,216>>, <<63,231,25,16,78,85,42,80>>, <<63,232,112,163,239,137,79,88>>,
            <<63,233,175,163,3,89,110,141>>, <<63,234,212,204,181,246,193,57>>, <<63,235,222,250,46,233,58,70>>, <<63,236,205,31,185,153,101,45>>,
            <<63,237,158,77,210,142,74,71>>, <<63,238,81,178,24,80,241,80>>, <<63,238,230,152,31,2,211,8>>, <<63,239,92,106,37,210,238,187>>,
            <<63,239,178,177,173,154,157,236>>, <<63,239,233,23,240,10,226,239>>, <<63,239,255,102,54,242,41,80>>, <<63,239,245,134,19,66,232,134>>,
            <<63,239,203,129,115,163,162,223>>, <<63,239,129,130,154,113,168,175>>, <<63,239,23,211,243,64,162,89>>, <<63,238,142,223,200,1,167,0>>,
            <<63,237,231,47,214,29,11,82>>, <<63,237,33,108,195,234,174,0>>, <<63,236,62,93,119,19,199,71>>, <<63,235,62,230,76,136,219,238>>,
            <<63,234,36,8,50,213,147,23>>, <<63,232,238,223,167,184,50,218>>, <<63,231,160,163,154,2,63,198>>, <<63,230,58,164,48,224,117,61>>,
            <<63,228,190,73,121,197,238,202>>, <<63,227,45,17,254,77,125,67>>, <<63,225,136,145,67,125,253,15>>, <<63,223,164,220,103,232,223,20>>,
            <<63,220,24,194,237,23,113,175>>, <<63,216,112,103,102,93,80,110>>, <<63,212,175,119,143,33,23,70>>, <<63,208,217,185,219,56,148,31>>,
            <<63,201,230,19,85,206,107,184>>, <<63,193,254,166,211,168,121,41>>, <<63,180,10,66,115,106,223,87>>, <<63,144,12,62,42,210,131,112>>,
            <<191,168,16,88,165,103,176,240>>, <<191,188,7,78,85,206,151,109>>, <<191,197,245,31,237,158,181,240>>, <<191,205,208,131,76,198,147,121>>,
            <<191,210,198,245,44,189,148,123>>, <<191,214,146,198,38,157,121,244>>, <<191,218,71,227,47,14,110,134>>, <<191,221,226,145,182,105,179,13>>,
            <<191,224,175,152,225,47,245,1>>, <<191,226,93,32,201,163,169,224>>, <<191,227,248,48,149,129,116,149>>, <<191,229,127,42,216,250,177,173>>,
            <<191,230,240,134,91,76,28,190>>, <<191,232,74,207,162,56,71,146>>, <<191,233,140,170,103,163,218,136>>, <<191,234,180,210,247,219,47,100>>,
            <<191,235,194,31,119,33,213,242>>, <<191,236,179,129,13,67,240,246>>, <<191,237,136,4,245,252,93,234>>, <<191,238,62,213,117,29,203,213>>,
            <<191,238,215,58,173,136,204,31>>, <<191,239,80,155,90,23,74,100>>, <<191,239,170,125,103,194,197,185>>, <<191,239,228,134,112,106,203,24>>,
            <<191,239,254,124,21,191,229,121>>, <<191,239,248,68,59,247,178,11>>, <<191,239,209,229,36,15,5,247>>, <<191,239,139,133,101,127,196,221>>,
            <<191,239,37,107,199,112,164,246>>, <<191,238,159,254,249,134,39,99>>, <<191,237,251,197,44,155,228,107>>, <<191,237,57,99,139,206,168,107>>,
            <<191,236,89,157,150,94,153,177>>, <<191,235,93,84,91,16,156,53>>, <<191,234,69,133,149,213,3,219>>, <<191,233,19,74,176,150,179,116>>,
            <<191,231,199,215,168,51,193,68>>, <<191,230,100,121,214,187,224,233>>, <<191,228,234,150,164,44,190,136>>, <<191,227,91,170,30,252,173,44>>,
            <<191,225,185,69,125,221,212,11>>, <<191,224,5,13,140,57,189,112>>, <<191,220,129,114,5,247,214,244>>, <<191,216,220,29,158,168,64,87>>,
            <<191,213,29,200,146,89,17,117>>, <<191,209,74,54,182,65,8,197>>, <<191,202,202,130,119,54,190,74>>, <<191,194,229,165,161,158,77,146>>,
            <<191,181,219,142,195,252,68,82>>, <<191,151,87,90,95,156,175,105>>, <<63,164,107,127,251,156,193,126>>, <<63,186,55,17,210,230,209,150>>,
            <<63,197,15,3,8,125,176,40>>, <<63,204,237,79,50,253,200,93>>, <<63,210,87,65,198,126,253,188>>, <<63,214,37,105,190,140,230,207>>,
            <<63,217,221,75,194,69,188,17>>, <<63,221,123,42,120,245,117,212>>, <<63,224,125,177,89,183,26,63>>, <<63,226,45,55,138,71,205,37>>,
            <<63,227,202,117,205,232,101,117>>, <<63,229,83,204,135,29,225,62>>, <<63,230,199,176,29,55,15,162>>, <<63,232,36,170,138,42,115,17>>,
            <<63,233,105,92,210,194,11,209>>, <<63,234,148,128,103,154,7,99>>, <<63,235,164,232,109,144,32,190>>, <<63,236,153,130,236,88,235,174>>,
            <<63,237,113,89,226,10,127,11>>, <<63,238,43,148,58,135,252,161>>, <<63,238,199,118,169,212,153,249>>, <<63,239,68,100,104,114,229,248>>,
            <<63,239,161,223,209,18,133,132>>, <<63,239,223,138,222,238,67,200>>, <<63,239,253,39,140,90,223,240>>, <<63,239,250,152,17,39,245,197>>,
            <<63,239,215,223,0,147,223,100>>, <<63,239,149,31,70,180,183,220>>, <<63,239,50,156,5,88,230,80>>, <<63,238,176,184,80,130,201,36>>,
            <<63,238,15,246,202,194,243,17>>, <<63,237,80,249,33,213,209,233>>, <<63,236,116,127,108,8,53,236>>, <<63,235,123,103,103,6,235,232>>,
            <<63,234,102,171,152,219,38,142>>, <<63,233,55,98,83,244,92,185>>, <<63,231,238,188,159,60,237,203>>, <<63,230,142,5,3,82,217,80>>,
            <<63,229,22,158,62,25,187,136>>, <<63,227,138,1,221,243,80,247>>, <<63,225,233,190,198,6,157,138>>, <<63,224,55,119,157,18,120,89>>,
            <<63,220,233,194,80,191,92,246>>, <<63,217,71,129,40,243,254,215>>, <<63,213,139,211,90,210,230,34>>, <<63,209,186,122,16,110,144,57>>,
            <<63,203,174,152,126,90,29,196>>, <<63,195,204,101,150,93,8,253>>, <<63,183,172,146,98,167,73,105>>, <<63,158,162,40,243,95,135,116>>,
            <<191,160,198,99,104,3,216,205>>, <<191,184,102,126,32,22,9,200>>, <<191,196,40,160,25,191,104,198>>, <<191,204,9,186,228,95,66,52>>,
            <<191,209,231,81,96,154,132,230>>, <<191,213,183,195,174,244,149,72>>, <<191,217,114,94,80,39,19,164>>, <<191,221,19,97,46,224,228,240>>,
            <<191,224,75,146,249,151,50,133>>, <<191,225,253,17,215,23,90,16>>, <<191,227,156,121,52,25,209,121>>, <<191,229,40,39,70,221,126,131>>,
            <<191,230,158,142,27,231,24,27>>, <<191,231,254,53,38,60,222,33>>, <<191,233,69,186,186,29,131,7>>, <<191,234,115,213,112,179,20,204>>,
            <<191,235,135,85,115,94,53,115>>, <<191,236,127,37,173,74,235,184>>, <<191,237,90,76,226,28,193,155>>, <<191,238,23,238,168,153,80,155>>,
            <<191,238,183,76,72,85,86,97>>, <<191,239,55,197,121,133,113,30>>, <<191,239,152,217,6,49,78,93>>, <<191,239,218,37,76,39,161,77>>,
            <<191,239,251,104,159,47,171,10>>, <<191,239,252,129,139,22,15,136>>, <<191,239,221,110,245,82,30,57>>, <<191,239,158,80,30,34,4,13>>,
            <<191,239,63,100,129,28,151,95>>, <<191,238,193,11,149,88,132,250>>, <<191,238,35,196,109,104,235,242>>, <<191,237,104,45,55,144,26,44>>,
            <<191,236,143,2,158,168,195,205>>, <<191,235,153,31,12,102,25,198>>, <<191,234,135,121,205,168,241,142>>, <<191,233,91,38,25,199,182,20>>,
            <<191,232,21,81,253,194,141,29>>, <<191,230,183,69,44,122,137,159>>, <<191,229,66,95,181,29,82,21>>, <<191,227,184,24,161,16,115,149>>,
            <<191,226,25,252,122,193,46,138>>, <<191,224,105,171,190,211,47,64>>, <<191,221,81,178,114,128,16,113>>, <<191,217,178,144,160,24,58,104>>,
            <<191,213,249,150,122,147,85,93>>, <<191,210,42,130,116,98,243,98>>, <<191,204,146,82,116,164,245,106>>, <<191,196,178,227,178,117,91,24>>,
            <<191,185,125,71,68,220,135,195>>, <<191,162,246,72,210,179,9,34>>, <<63,154,66,30,19,253,240,252>>, <<63,182,149,153,70,120,106,71>>,
            <<63,195,65,250,31,158,14,11>>, <<63,203,37,201,85,207,39,174>>, <<63,209,119,37,111,90,124,200>>, <<63,213,73,213,100,128,201,99>>,
            <<63,217,7,28,60,81,230,27>>, <<63,220,171,55,49,89,16,234>>, <<63,224,25,62,103,128,14,143>>, <<63,225,204,176,80,51,142,61>>,
            <<63,227,110,59,97,7,101,87>>, <<63,228,252,59,169,98,4,50>>, <<63,230,117,32,224,41,57,56>>, <<63,231,215,111,246,87,172,208>>,
            <<63,233,33,196,148,56,213,189>>, <<63,234,82,210,127,204,63,233>>, <<63,235,105,102,234,231,221,204>>, <<63,236,100,105,167,200,195,72>>,
            <<63,237,66,222,66,220,229,130>>, <<63,238,3,229,0,169,70,248>>, <<63,238,166,187,190,206,147,108>>, <<63,239,42,190,183,72,120,171>>,
            <<63,239,143,105,37,36,110,80>>, <<63,239,212,85,202,9,196,117>>, <<63,239,249,63,84,12,173,195>>, <<63,239,254,0,163,102,20,131>>,
            <<63,239,226,148,239,201,236,42>>, <<63,239,167,23,205,54,127,250>>, <<63,239,75,197,16,55,243,238>>, <<63,238,208,248,145,187,208,124>>,
            <<63,238,55,45,210,177,10,39>>, <<63,237,126,255,127,209,202,44>>, <<63,236,169,38,214,19,42,72>>, <<63,235,182,122,232,88,79,161>>,
            <<63,234,167,239,199,35,71,34>>, <<63,233,126,149,139,30,21,176>>, <<63,232,59,151,67,114,31,234>>, <<63,230,224,57,201,1,163,167>>,
            <<63,229,109,218,119,177,85,206>>, <<63,227,229,237,207,11,102,54>>, <<63,226,73,253,251,156,127,133>>, <<63,224,155,169,74,131,209,56>>,
            <<63,221,185,65,17,139,120,217>>, <<63,218,29,74,160,4,63,245>>, <<63,214,103,16,132,141,114,109>>, <<63,210,154,78,109,131,183,242>>,
            <<63,205,117,173,100,182,32,226>>, <<63,197,153,28,247,82,178,161>>, <<63,187,77,167,97,18,117,151>>, <<63,166,155,62,27,42,22,205>>,
            <<191,146,247,30,3,77,95,114>>, <<191,180,196,105,80,54,5,60>>, <<191,194,91,20,25,50,200,207>>, <<191,202,65,125,125,103,130,248>>,
            <<191,209,6,191,103,207,95,169>>, <<191,212,219,160,76,206,30,160>>, <<191,216,155,134,235,127,117,41>>, <<191,220,66,173,218,204,138,33>>,
            <<191,223,205,104,149,171,40,218>>, <<191,225,156,19,150,132,160,195>>, <<191,227,63,188,238,123,224,45>>, <<191,228,208,10,64,189,206,44>>,
            <<191,230,75,104,243,196,202,126>>, <<191,231,176,91,123,108,103,57>>, <<191,232,253,122,216,174,36,91>>, <<191,234,49,120,2,175,238,165>>,
            <<191,235,75,29,55,185,107,71>>, <<191,236,73,79,52,188,150,152>>, <<191,237,43,14,82,57,81,21>>, <<191,237,239,119,133,92,78,6>>,
            <<191,238,149,197,68,87,164,129>>, <<191,239,29,80,77,14,212,28>>, <<191,239,133,144,77,78,181,228>>, <<191,239,206,28,107,231,229,83>>,
            <<191,239,246,171,178,34,17,0>>, <<191,239,255,21,85,29,232,107>>, <<191,239,231,80,222,219,229,144>>, <<191,239,175,118,54,190,190,207>>,
            <<191,239,87,189,137,128,232,71>>, <<191,238,224,127,16,181,65,92>>, <<191,238,74,50,186,11,239,105>>, <<191,237,149,111,174,180,106,221>>,
            <<191,236,194,235,187,86,52,177>>, <<191,235,211,122,153,57,20,85>>, <<191,234,200,13,25,84,150,80>>, <<191,233,161,176,50,29,112,135>>,
            <<191,232,97,139,241,3,138,147>>, <<191,231,8,226,80,177,251,76>>, <<191,229,153,13,245,58,181,68>>, <<191,228,19,128,207,117,139,45>>,
            <<191,226,121,194,168,239,154,216>>, <<191,224,205,111,153,225,216,194>>, <<191,222,32,108,213,119,193,5>>, <<191,218,135,173,197,195,155,25>>,
            <<191,214,212,64,12,167,8,55>>, <<191,211,9,220,135,255,175,227>>, <<191,206,88,166,90,103,201,219>>, <<191,198,127,14,103,69,114,75>>,
            <<191,189,29,172,174,217,249,136>>, <<191,170,63,232,52,55,153,196>>, <<63,135,87,189,190,151,26,209>>, <<63,178,242,244,72,114,186,24>>,
            <<63,193,115,241,6,107,133,219>>, <<63,201,92,218,82,111,98,230>>, <<63,208,150,32,191,202,215,246>>, <<63,212,109,37,214,100,139,190>>,
            <<63,216,47,159,195,125,128,129>>, <<63,219,217,198,134,231,83,84>>, <<63,223,103,234,151,91,147,103>>, <<63,225,107,60,75,183,171,16>>,
            <<63,227,16,254,119,24,199,245>>, <<63,228,163,147,159,235,99,118>>, <<63,230,33,102,225,121,93,251>>, <<63,231,136,248,55,116,65,208>>,
            <<63,232,216,222,0,45,130,58>>, <<63,234,15,198,104,75,187,32>>, <<63,235,44,120,190,142,100,29>>, <<63,236,45,214,174,74,129,38>>,
            <<63,237,18,221,95,100,40,30>>, <<63,237,218,166,122,162,190,205>>, <<63,238,132,105,17,90,231,37>>, <<63,239,15,122,103,132,36,87>>,
            <<63,239,123,78,159,112,13,104>>, <<63,239,199,121,70,117,73,111>>, <<63,239,243,173,194,1,170,74>>, <<63,239,255,191,156,165,78,34>>,
            <<63,239,235,162,178,201,90,205>>, <<63,239,183,107,62,229,113,114>>, <<63,239,99,77,197,39,126,243>>, <<63,238,239,158,222,162,87,192>>,
            <<63,238,92,210,228,56,102,6>>, <<63,237,171,125,121,151,200,29>>, <<63,236,220,80,248,189,186,204>>, <<63,235,240,29,190,150,111,216>>,
            <<63,234,231,209,89,110,29,216>>, <<63,233,196,117,154,5,148,146>>, <<63,232,135,47,136,58,188,124>>, <<63,231,49,62,60,82,142,239>>,
            <<63,229,195,249,158,11,103,5>>, <<63,228,64,209,10,188,106,11>>, <<63,226,169,73,227,219,254,187>>, <<63,224,254,254,7,98,130,80>>,
            <<63,222,135,52,103,35,190,142>>, <<63,218,241,184,175,130,178,156>>, <<63,215,65,35,167,190,8,68>>, <<63,211,121,43,80,211,83,37>>,
            <<63,207,59,58,98,218,238,251>>, <<63,199,100,181,5,141,34,50>>, <<63,190,237,81,38,240,126,102>>, <<63,173,228,58,255,248,76,198>>,
            <<191,113,129,227,168,127,74,105>>, <<191,177,33,64,59,54,159,121>>, <<191,192,140,147,232,1,249,116>>, <<191,200,119,226,205,79,134,38>>,
            <<191,208,37,74,237,218,228,250>>, <<191,211,254,103,112,179,24,241>>, <<191,215,195,104,43,42,21,96>>, <<191,219,112,130,146,141,177,103>>,
            <<191,223,2,4,37,157,17,122>>, <<191,225,58,43,18,60,129,185>>, <<191,226,226,0,150,84,153,227>>, <<191,228,118,216,90,203,129,123>>,
            <<191,229,247,27,52,253,78,82>>, <<191,231,97,70,173,110,152,106>>, <<191,232,179,238,132,123,130,93>>, <<191,233,237,190,32,174,249,219>>,
            <<191,235,13,121,229,80,43,172>>, <<191,236,18,0,111,207,135,28>>, <<191,236,250,75,186,210,29,71>>, <<191,237,197,114,37,184,39,230>>,
            <<191,238,114,167,95,149,7,83>>, <<191,239,1,61,52,172,41,0>>, <<191,239,112,164,61,165,8,12>>, <<191,239,192,108,111,197,3,49>>,
            <<191,239,240,69,141,158,219,18>>, <<191,239,255,255,119,197,243,19>>, <<191,239,239,138,93,52,126,236>>, <<191,239,190,246,203,51,195,29>>,
            <<191,239,110,117,156,182,124,100>>, <<191,238,254,87,201,54,24,105>>, <<191,238,111,14,19,68,87,129>>, <<191,237,193,40,151,34,232,232>>,
            <<191,236,245,86,57,211,162,24>>, <<191,236,12,99,249,50,52,45>>, <<191,235,7,60,29,201,88,119>>, <<191,233,230,229,79,49,240,184>>,
            <<191,232,172,129,139,233,94,18>>, <<191,231,89,77,5,169,28,35>>, <<191,229,238,156,227,100,71,121>>, <<191,228,109,221,234,43,118,23>>,
            <<191,226,216,147,14,79,120,236>>, <<191,225,48,83,238,52,202,5>>, <<191,222,237,150,112,187,159,142>>, <<191,219,91,105,252,147,126,41>>,
            <<191,215,173,185,235,172,202,88>>, <<191,211,232,57,85,205,176,79>>, <<191,208,14,179,70,63,160,78>>, <<191,200,74,13,214,97,99,139>>,
            <<191,192,94,71,97,171,125,145>>, <<191,176,196,21,48,213,162,84>>, <<191,103,87,220,204,122,254,249>>, <<63,174,158,166,106,183,201,126>>,
            <<63,191,73,255,126,224,76,244>>, <<63,199,146,153,231,137,53,161>>, <<63,207,104,126,210,137,250,92>>, <<63,211,143,102,140,10,100,29>>,
            <<63,215,86,225,138,110,199,170>>, <<63,219,6,227,91,215,248,140>>, <<63,222,155,182,147,87,14,154>>, <<63,225,8,224,141,67,206,24>>,
            <<63,226,178,195,232,120,184,178>>, <<63,228,73,217,6,35,48,55>>, <<63,229,204,134,122,251,157,163>>, <<63,231,57,71,97,94,249,191>>,
            <<63,232,142,172,224,111,142,200>>, <<63,233,203,95,157,9,69,5>>, <<63,234,238,33,19,20,209,162>>, <<63,235,245,204,213,224,94,48>>,
            <<63,236,225,89,182,57,128,144>>, <<63,237,175,218,205,34,63,144>>, <<63,238,96,128,106,20,58,114>>, <<63,238,242,152,227,226,54,16>>,
            <<63,239,101,145,75,102,114,105>>, <<63,239,184,245,255,73,174,197>>, <<63,239,236,115,32,78,114,78>>, <<63,239,255,212,229,171,119,136>>,
            <<63,239,243,7,209,32,152,225>>, <<63,239,198,24,194,145,179,63>>, <<63,239,121,52,235,19,209,159>>, <<63,239,12,169,159,121,184,105>>,
            <<63,238,128,228,10,141,113,184>>, <<63,237,214,112,191,69,9,15>>, <<63,237,13,251,43,97,32,125>>, <<63,236,40,76,235,3,58,42>>,
            <<63,235,38,76,253,233,100,193>>, <<63,234,8,254,223,26,238,204>>, <<63,232,209,129,127,240,72,74>>, <<63,231,129,14,39,123,244,61>>,
            <<63,230,24,247,55,118,243,163>>, <<63,228,154,166,215,238,78,18>>, <<63,227,7,157,139,6,65,153>>, <<63,225,97,112,170,67,171,93>>,
            <<63,223,83,145,157,188,235,84>>, <<63,219,196,192,77,113,167,117>>, <<63,216,26,1,111,78,222,240>>, <<63,212,87,5,37,149,59,202>>,
            <<63,208,127,147,243,143,79,17>>, <<63,201,47,21,222,253,86,155>>, <<63,193,69,175,191,178,62,137>>, <<63,178,149,213,30,237,28,116>>,
            <<63,132,108,204,209,202,94,80>>, <<191,170,250,102,136,244,102,170>>, <<191,189,122,111,29,206,58,49>>, <<191,198,173,2,155,173,28,213>>,
            <<191,206,133,255,84,2,30,21>>, <<191,211,32,36,153,152,80,249>>, <<191,214,234,13,74,60,4,230>>, <<191,218,156,234,66,14,87,58>>,
            <<191,222,53,3,52,199,158,85>>, <<191,224,215,93,96,188,145,66>>, <<191,226,131,73,10,159,100,224>>, <<191,228,28,150,55,153,198,255>>,
            <<191,229,161,169,65,18,79,182>>, <<191,231,16,250,216,75,155,123>>, <<191,232,105,25,143,242,59,77>>, <<191,233,168,171,79,168,250,122>>,
            <<191,234,206,110,176,29,136,36>>, <<191,235,217,60,62,72,57,186>>, <<191,236,200,7,164,145,34,10>>, <<191,237,153,224,184,176,15,215>>,
            <<191,238,77,244,109,55,142,242>>, <<191,238,227,141,165,216,146,182>>, <<191,239,90,21,237,136,220,139>>, <<191,239,177,22,13,213,24,132>>,
            <<191,239,232,54,134,198,134,33>>, <<191,239,255,63,230,227,112,228>>, <<191,239,246,27,2,242,47,126>>, <<191,239,204,209,13,70,97,67>>,
            <<191,239,131,139,140,129,26,249>>, <<191,239,26,148,49,205,67,194>>, <<191,238,146,84,142,194,19,212>>, <<191,237,235,85,171,54,113,175>>,
            <<191,237,38,63,123,111,187,180>>, <<191,236,67,216,55,54,154,55>>, <<191,235,69,3,146,124,62,169>>, <<191,234,42,193,216,87,122,35>>,
            <<191,232,246,46,233,65,104,215>>, <<191,231,168,129,29,147,139,226>>, <<191,230,67,8,13,103,172,59>>, <<191,228,199,43,63,18,124,194>>,
            <<191,227,54,104,189,141,6,102>>, <<191,225,146,83,152,56,93,159>>, <<191,223,185,36,154,251,151,72>>, <<191,220,45,186,67,199,229,231>>,
            <<191,216,133,248,202,133,192,94>>, <<191,212,197,141,79,172,186,131>>, <<191,208,240,61,193,242,241,147>>, <<191,202,19,202,37,168,135,170>>,
            <<191,194,44,222,171,236,87,226>>, <<191,180,103,87,61,65,99,150>>, <<191,145,129,175,65,43,6,234>>, <<63,167,85,204,237,165,25,250>>,
            <<63,187,170,124,178,139,112,82>>, <<63,197,199,31,229,79,232,124>>, <<63,205,163,26,81,106,53,193>>, <<63,210,176,163,11,99,30,251>>,
            <<63,214,124,236,212,132,99,208>>, <<63,218,50,152,165,163,152,30>>, <<63,221,205,235,95,127,128,83>>, <<63,224,165,162,49,82,110,228>>,
            <<63,226,83,144,154,177,165,14>>, <<63,227,239,16,133,183,44,127>>, <<63,229,118,132,21,208,135,127>>, <<63,230,232,97,152,59,137,229>>,
            <<63,232,67,53,15,251,199,214>>, <<63,233,133,161,171,249,229,197>>, <<63,234,174,99,37,213,106,247>>, <<63,235,188,79,8,7,146,192>>,
            <<63,236,174,85,218,15,89,212>>, <<63,237,131,132,49,121,2,30>>, <<63,238,59,3,166,174,0,98>>, <<63,238,212,27,172,151,211,20>>,
            <<63,239,78,50,74,60,28,31>>, <<63,239,168,204,181,151,242,13>>, <<63,239,227,143,207,30,73,154>>, <<63,239,254,64,125,93,103,191>>,
            <<63,239,248,195,232,111,44,211>>, <<63,239,211,31,148,248,104,218>>, <<63,239,141,121,94,156,22,245>>, <<63,239,40,23,81,232,44,160>>,
            <<63,238,163,95,101,225,255,116>>, <<63,237,255,215,21,121,135,147>>, <<63,237,62,34,217,74,70,95>>, <<63,236,95,5,130,48,225,4>>,
            <<63,235,99,95,117,92,74,60>>, <<63,234,76,45,202,158,120,197>>, <<63,233,26,137,77,225,10,68>>, <<63,231,207,165,100,188,116,45>>,
            <<63,230,108,206,217,78,252,29>>, <<63,228,243,106,139,137,116,202>>, <<63,227,100,244,10,66,255,125>>, <<63,225,194,252,21,124,74,140>>,
            <<63,224,15,39,11,82,255,72>>, <<63,220,150,86,130,115,164,191>>, <<63,216,241,158,150,61,157,237>>, <<63,213,51,208,100,119,146,71>>,
            <<63,209,96,175,58,183,115,92>>, <<63,202,248,39,177,193,81,228>>, <<63,195,19,209,37,121,106,207>>, <<63,182,56,149,127,157,90,238>>,
            <<63,152,204,189,224,25,73,41>>, <<191,163,176,229,182,118,79,219>>, <<191,185,218,46,68,26,56,61>>, <<191,196,224,244,193,1,86,100>>,
            <<191,204,191,210,189,94,233,104>>, <<191,210,64,227,84,68,124,5>>, <<191,214,15,129,148,55,210,140>>, <<191,217,199,239,232,49,1,170>>,
            <<191,221,102,112,106,93,148,111>>, <<191,224,115,175,164,107,42,192>>, <<191,226,35,155,55,101,109,55>>, <<191,227,193,72,135,225,151,155>>,
            <<191,229,75,23,136,180,172,255>>, <<191,230,191,124,40,53,22,187>>, <<191,232,28,255,222,146,118,180>>, <<191,233,98,67,38,131,135,36>>,
            <<191,234,141,254,222,208,15,136>>, <<191,235,159,5,147,82,227,244>>, <<191,236,148,68,172,40,198,84>>, <<191,237,108,197,129,219,236,5>>,
            <<191,238,39,174,85,117,210,252>>, <<191,238,196,67,43,126,66,228>>, <<191,239,65,230,137,10,218,158>>, <<191,239,160,26,18,33,121,67>>,
            <<191,239,222,127,8,205,220,95>>, <<191,239,252,214,172,106,209,140>>, <<191,239,251,2,120,191,5,58>>, <<191,239,217,4,68,174,29,145>>,
            <<191,239,150,254,64,95,24,161>>, <<191,239,53,50,210,217,252,44>>, <<191,238,180,4,87,63,30,163>>, <<191,238,19,244,185,219,160,93>>,
            <<191,237,85,164,245,126,20,97>>, <<191,236,121,212,113,143,71,127>>, <<191,235,129,96,65,145,133,49>>, <<191,234,109,66,70,200,64,219>>,
            <<191,233,62,144,52,231,176,69>>, <<191,231,246,122,122,200,227,88>>, <<191,230,150,75,16,59,218,29>>, <<191,229,31,100,42,42,137,20>>,
            <<191,227,147,62,214,91,194,47>>, <<191,225,243,105,128,59,56,177>>, <<191,224,65,134,96,36,176,219>>, <<191,220,254,147,173,138,85,239>>,
            <<191,217,92,241,108,113,144,47>>, <<191,213,161,204,245,63,70,61>>, <<191,209,208,230,231,229,27,226>>, <<191,203,220,43,139,197,198,197>>,
            <<191,195,250,132,44,65,227,65>>, <<191,184,9,137,218,175,20,229>>, <<191,160,11,189,2,21,254,45>>, <<63,160,11,189,2,21,146,33>>,
            <<63,184,9,137,218,175,94,132>>, <<63,195,250,132,44,66,7,198>>, <<63,203,220,43,139,197,172,100>>, <<63,209,208,230,231,229,45,164>>,
            <<63,213,161,204,245,63,87,163>>, <<63,217,92,241,108,113,161,40>>, <<63,220,254,147,173,138,73,227>>, <<63,224,65,134,96,36,184,210>>,
            <<63,225,243,105,128,59,64,88>>, <<63,227,147,62,214,91,188,215>>, <<63,229,31,100,42,42,144,5>>, <<63,230,150,75,16,59,213,83>>,
            <<63,231,246,122,122,200,233,120>>, <<63,233,62,144,52,231,172,31>>, <<63,234,109,66,70,200,70,17>>, <<63,235,129,96,65,145,137,235>>,
            <<63,236,121,212,113,143,75,183>>, <<63,237,85,164,245,126,24,19>>, <<63,238,19,244,185,219,158,14>>, <<63,238,180,4,87,63,33,62>>,
            <<63,239,53,50,210,217,250,173>>, <<63,239,150,254,64,95,28,169>>, <<63,239,217,4,68,174,28,233>>, <<63,239,251,2,120,191,5,141>>,
            <<63,239,252,214,172,106,209,74>>, <<63,239,222,127,8,205,220,251>>, <<63,239,160,26,18,33,119,218>>, <<63,239,65,230,137,10,216,163>>,
            <<63,238,196,67,43,126,64,89>>, <<63,238,39,174,85,117,213,63>>, <<63,237,108,197,129,219,232,99>>, <<63,236,148,68,172,40,194,43>>,
            <<63,235,159,5,147,82,231,93>>, <<63,234,141,254,222,208,19,77>>, <<63,233,98,67,38,131,129,131>>, <<63,232,28,255,222,146,112,160>>,
            <<63,230,191,124,40,53,27,123>>, <<63,229,75,23,136,180,166,25>>, <<63,227,193,72,135,225,144,85>>, <<63,226,35,155,55,101,101,153>>,
            <<63,224,115,175,164,107,48,140>>, <<63,221,102,112,106,93,132,3>>, <<63,217,199,239,232,48,240,190>>, <<63,214,15,129,148,55,223,59>>,
            <<63,210,64,227,84,68,106,77>>, <<63,204,191,210,189,95,3,190>>, <<63,196,224,244,193,1,49,233>>, <<63,185,218,46,68,26,110,4>>,
            <<63,163,176,229,182,117,188,18>>, <<191,152,204,189,224,26,112,222>>, <<191,182,56,149,127,157,164,153>>, <<191,195,19,209,37,121,143,95>>,
            <<191,202,248,39,177,193,55,120>>, <<191,209,96,175,58,183,133,39>>, <<191,213,51,208,100,119,133,135>>, <<191,216,241,158,150,61,174,244>>,
            <<191,220,150,86,130,115,152,168>>, <<191,224,15,39,11,83,7,71>>, <<191,225,194,252,21,124,82,60>>, <<191,227,100,244,10,66,250,30>>,
            <<191,228,243,106,139,137,123,199>>, <<191,230,108,206,217,79,2,182>>, <<191,231,207,165,100,188,122,90>>, <<191,233,26,137,77,225,6,19>>,
            <<191,234,76,45,202,158,126,9>>, <<191,235,99,95,117,92,70,189>>, <<191,236,95,5,130,48,236,177>>, <<191,237,62,34,217,74,67,160>>,
            <<191,237,255,215,21,121,138,203>>, <<191,238,163,95,101,226,2,31>>, <<191,239,40,23,81,232,43,22>>, <<191,239,141,121,94,156,24,128>>,
            <<191,239,211,31,148,248,104,37>>, <<191,239,248,195,232,111,45,55>>, <<191,239,254,64,125,93,103,227>>, <<191,239,227,143,207,30,72,213>>,
            <<191,239,168,204,181,151,240,181>>, <<191,239,78,50,74,60,29,134>>, <<191,238,212,27,172,151,208,153>>, <<191,238,59,3,166,174,2,153>>,
            <<191,237,131,132,49,120,254,139>>, <<191,236,174,85,218,15,92,211>>, <<191,235,188,79,8,7,142,36>>, <<191,234,174,99,37,213,101,221>>,
            <<191,233,133,161,171,249,224,50>>, <<191,232,67,53,15,251,193,207>>, <<191,230,232,97,152,59,142,157>>, <<191,229,118,132,21,208,128,164>>,
            <<191,227,239,16,133,183,49,200>>, <<191,226,83,144,154,177,157,122>>, <<191,224,165,162,49,82,116,169>>, <<191,221,205,235,95,127,111,246>>,
            <<191,218,50,152,165,163,164,114>>, <<191,214,124,236,212,132,82,129>>, <<191,210,176,163,11,99,13,76>>, <<191,205,163,26,81,106,17,201>>,
            <<191,197,199,31,229,79,196,13>>, <<191,187,170,124,178,139,166,15>>, <<191,167,85,204,237,164,134,60>>, <<63,145,129,175,65,42,46,190>>,
            <<63,180,103,87,61,65,173,77>>, <<63,194,44,222,171,236,61,34>>, <<63,202,19,202,37,168,171,220>>, <<63,208,240,61,193,243,3,103>>,
            <<63,212,197,141,79,172,173,187>>, <<63,216,133,248,202,133,209,113>>, <<63,220,45,186,67,199,217,197>>, <<63,223,185,36,154,251,167,86>>,
            <<63,225,146,83,152,56,87,249>>, <<63,227,54,104,189,141,13,202>>, <<63,228,199,43,63,18,131,202>>, <<63,230,67,8,13,103,178,223>>,
            <<63,231,168,129,29,147,146,27>>, <<63,232,246,46,233,65,100,157>>, <<63,234,42,193,216,87,127,117>>, <<63,235,69,3,146,124,59,32>>,
            <<63,236,67,216,55,54,158,141>>, <<63,237,38,63,123,111,184,234>>, <<63,237,235,85,171,54,116,246>>, <<63,238,146,84,142,194,22,143>>,
            <<63,239,26,148,49,205,66,44>>, <<63,239,131,139,140,129,28,148>>, <<63,239,204,209,13,70,96,130>>, <<63,239,246,27,2,242,47,243>>,
            <<63,239,255,63,230,227,112,251>>, <<63,239,232,54,134,198,133,109>>, <<63,239,177,22,13,213,25,116>>, <<63,239,90,21,237,136,218,177>>,
            <<63,238,227,141,165,216,144,76>>, <<63,238,77,244,109,55,139,250>>, <<63,237,153,224,184,176,12,84>>, <<63,236,200,7,164,145,36,254>>,
            <<63,235,217,60,62,72,53,44>>, <<63,234,206,110,176,29,139,212>>, <<63,233,168,171,79,168,244,244>>, <<63,232,105,25,143,242,63,172>>,
            <<63,231,16,250,216,75,149,19>>, <<63,229,161,169,65,18,72,230>>, <<63,228,28,150,55,153,204,65>>, <<63,226,131,73,10,159,80,73>>,
            <<63,224,215,93,96,188,151,1>>, <<63,222,53,3,52,199,142,9>>, <<63,218,156,234,66,14,99,132>>, <<63,214,234,13,74,59,243,163>>,
            <<63,211,32,36,153,152,63,85>>, <<63,206,133,255,84,1,250,45>>, <<63,198,173,2,155,172,248,113>>, <<63,189,122,111,29,206,111,226>>,
            <<63,170,250,102,136,243,210,249>>, <<191,132,108,204,209,200,173,236>>, <<191,178,149,213,30,237,102,53>>, <<191,193,69,175,191,178,35,193>>,
            <<191,201,47,21,222,253,122,220>>, <<191,208,127,147,243,143,66,3>>, <<191,212,87,5,37,149,77,82>>, <<191,216,26,1,111,78,240,17>>,
            <<191,219,196,192,77,113,184,29>>, <<191,223,83,145,157,188,251,115>>, <<191,225,97,112,170,67,165,177>>, <<191,227,7,157,139,6,73,8>>,
            <<191,228,154,166,215,238,72,230>>, <<191,230,24,247,55,118,250,83>>, <<191,231,129,14,39,123,239,167>>, <<191,232,209,129,127,240,78,32>>,
            <<191,234,8,254,223,26,244,44>>, <<191,235,38,76,253,233,97,46>>, <<191,236,40,76,235,3,62,143>>, <<191,237,13,251,43,97,29,168>>,
            <<191,237,214,112,191,69,12,103>>, <<191,238,128,228,10,141,111,173>>, <<191,239,12,169,159,121,186,166>>, <<191,239,121,52,235,19,211,75>>,
            <<191,239,198,24,194,145,178,114>>, <<191,239,243,7,209,32,154,76>>, <<191,239,255,212,229,171,119,147>>, <<191,239,236,115,32,78,113,170>>,
            <<191,239,184,245,255,73,175,168>>, <<191,239,101,145,75,102,112,160>>, <<191,238,242,152,227,226,51,182>>, <<191,238,96,128,106,20,55,138>>,
            <<191,237,175,218,205,34,66,22>>, <<191,236,225,89,182,57,124,148>>, <<191,235,245,204,213,224,89,177>>, <<191,234,238,33,19,20,213,72>>,
            <<191,233,203,95,157,9,54,20>>, <<191,232,142,172,224,111,147,29>>, <<191,231,57,71,97,94,243,99>>, <<191,229,204,134,122,251,162,149>>,
            <<191,228,73,217,6,35,41,17>>, <<191,226,178,195,232,120,177,50>>, <<191,225,8,224,141,67,198,69>>, <<191,222,155,182,147,86,254,93>>,
            <<191,219,6,227,91,216,4,204>>, <<191,215,86,225,138,110,182,115>>, <<191,211,143,102,140,10,112,251>>, <<191,207,104,126,210,137,214,132>>,
            <<191,199,146,153,231,137,80,49>>, <<191,191,73,255,126,224,3,143>>, <<191,174,158,166,106,183,53,221>>, <<63,103,87,220,204,116,61,85>>,
            <<63,176,196,21,48,213,236,30>>, <<63,192,94,71,97,171,162,60>>, <<63,200,74,13,214,97,135,216>>, <<63,208,14,179,70,63,147,57>>,
            <<63,211,232,57,85,205,193,225>>, <<63,215,173,185,235,172,219,133>>, <<63,219,91,105,252,147,113,242>>, <<63,222,237,150,112,187,175,190>>,
            <<63,225,48,83,238,52,196,82>>, <<63,226,216,147,14,79,128,101>>, <<63,228,109,221,234,43,112,228>>, <<63,229,238,156,227,100,78,52>>,
            <<63,231,89,77,5,169,34,118>>, <<63,232,172,129,139,233,99,245>>, <<63,233,230,229,79,49,236,192>>, <<63,235,7,60,29,201,93,106>>,
            <<63,236,12,99,249,50,56,160>>, <<63,236,245,86,57,211,159,56>>, <<63,237,193,40,151,34,242,50>>, <<63,238,111,14,19,68,85,106>>,
            <<63,238,254,87,201,54,26,182>>, <<63,239,110,117,156,182,123,31>>, <<63,239,190,246,203,51,196,70>>, <<63,239,239,138,93,52,127,130>>,
            <<63,239,255,255,119,197,243,20>>, <<63,239,240,69,141,158,218,128>>, <<63,239,192,108,111,197,4,8>>, <<63,239,112,164,61,165,6,84>>,
            <<63,239,1,61,52,172,42,172>>, <<63,238,114,167,95,148,255,143>>, <<63,237,197,114,37,184,42,97>>, <<63,236,250,75,186,210,25,91>>,
            <<63,236,18,0,111,207,130,172>>, <<63,235,13,121,229,80,47,72>>, <<63,233,237,190,32,174,244,112>>, <<63,232,179,238,132,123,134,168>>,
            <<63,231,97,70,173,110,146,27>>, <<63,229,247,27,52,253,83,60>>, <<63,228,118,216,90,203,122,96>>, <<63,226,226,0,150,84,146,108>>,
            <<63,225,58,43,18,60,135,107>>, <<63,223,2,4,37,157,29,76>>, <<63,219,112,130,146,141,160,180>>, <<63,215,195,104,43,42,4,54>>,
            <<63,211,254,103,112,179,37,200>>, <<63,208,37,74,237,218,211,22>>, <<63,200,119,226,205,79,97,219>>, <<63,192,140,147,232,1,212,202>>,
            <<63,177,33,64,59,54,213,103>>, <<63,113,129,227,168,122,171,63>>, <<191,173,228,58,255,248,224,108>>, <<191,190,237,81,38,240,72,190>>,
            <<191,199,100,181,5,141,70,140>>, <<191,207,59,58,98,218,212,198>>, <<191,211,121,43,80,211,100,194>>, <<191,215,65,35,167,189,251,173>>,
            <<191,218,241,184,175,130,195,97>>, <<191,222,135,52,103,35,206,206>>, <<191,224,254,254,7,98,138,37>>, <<191,226,169,73,227,220,6,61>>,
            <<191,228,64,209,10,188,100,208>>, <<191,229,195,249,158,11,109,203>>, <<191,231,49,62,60,82,138,72>>, <<191,232,135,47,136,58,204,178>>,
            <<191,233,196,117,154,5,144,144>>, <<191,234,231,209,89,110,34,217>>, <<191,235,240,29,190,150,116,90>>, <<191,236,220,80,248,189,183,225>>,
            <<191,237,171,125,121,151,203,148>>, <<191,238,92,210,228,56,104,241>>, <<191,238,239,158,222,162,90,29>>, <<191,239,99,77,197,39,125,162>>,
            <<191,239,183,107,62,229,114,173>>, <<191,239,235,162,178,201,91,116>>, <<191,239,255,191,156,165,78,52>>, <<191,239,243,173,194,1,170,169>>,
            <<191,239,199,121,70,117,72,89>>, <<191,239,123,78,159,112,11,192>>, <<191,239,15,122,103,132,37,247>>, <<191,238,132,105,17,90,228,93>>,
            <<191,237,218,166,122,162,193,59>>, <<191,237,18,221,95,100,36,65>>, <<191,236,45,214,174,74,132,90>>, <<191,235,44,120,190,142,95,59>>,
            <<191,234,15,198,104,75,181,195>>, <<191,232,216,222,0,45,134,124>>, <<191,231,136,248,55,116,59,141>>, <<191,230,33,102,225,121,98,221>>,
            <<191,228,163,147,159,235,92,102>>, <<191,227,16,254,119,24,205,98>>, <<191,225,107,60,75,183,163,79>>, <<191,223,103,234,151,91,131,75>>,
            <<191,219,217,198,134,231,66,175>>, <<191,216,47,159,195,125,111,99>>, <<191,212,109,37,214,100,152,141>>, <<191,208,150,32,191,202,198,27>>,
            <<191,201,92,218,82,111,125,100>>, <<191,193,115,241,6,107,97,58>>, <<191,178,242,244,72,114,239,255>>, <<191,135,87,189,190,148,203,68>>,
            <<63,170,63,232,52,56,45,120>>, <<63,189,29,172,174,217,195,212>>, <<63,198,127,14,103,69,150,177>>, <<63,206,88,166,90,103,237,199>>,
            <<63,211,9,220,135,255,193,137>>, <<63,214,212,64,12,166,251,151>>, <<63,218,135,173,197,195,171,236>>, <<63,222,32,108,213,119,181,25>>,
            <<63,224,205,111,153,225,238,62>>, <<63,226,121,194,168,239,149,83>>, <<63,228,19,128,207,117,146,96>>, <<63,229,153,13,245,58,188,22>>,
            <<63,231,8,226,80,177,246,156>>, <<63,232,97,139,241,3,144,144>>, <<63,233,161,176,50,29,108,123>>, <<63,234,200,13,25,84,155,95>>,
            <<63,235,211,122,153,57,16,255>>, <<63,236,194,235,187,86,56,190>>, <<63,237,149,111,174,180,110,100>>, <<63,238,74,50,186,11,242,100>>,
            <<63,238,224,127,16,181,67,202>>, <<63,239,87,189,137,128,230,234>>, <<63,239,175,118,54,190,192,26>>, <<63,239,231,80,222,219,229,10>>,
            <<63,239,255,21,85,29,232,142>>, <<63,239,246,171,178,34,17,83>>, <<63,239,206,28,107,231,228,78>>, <<63,239,133,144,77,78,180,76>>,
            <<63,239,29,80,77,14,213,176>>, <<63,238,149,197,68,87,161,202>>, <<63,237,239,119,133,92,80,105>>, <<63,237,43,14,82,57,77,72>>,
            <<63,236,73,79,52,188,153,193>>, <<63,235,75,29,55,185,102,116>>, <<63,234,49,120,2,175,242,135>>, <<63,232,253,122,216,174,30,148>>,
            <<63,231,176,91,123,108,97,2>>, <<63,230,75,104,243,196,195,221>>, <<63,228,208,10,64,189,199,39>>, <<63,227,63,188,238,123,229,147>>,
            <<63,225,156,19,150,132,153,11>>, <<63,223,205,104,149,171,52,148>>, <<63,220,66,173,218,204,121,138>>, <<63,216,155,134,235,127,129,162>>,
            <<63,212,219,160,76,206,13,38>>, <<63,209,6,191,103,207,77,215>>, <<63,202,65,125,125,103,157,108>>, <<63,194,91,20,25,50,164,56>>,
            <<63,180,196,105,80,54,59,27>>, <<63,146,247,30,3,76,55,180>>, <<191,166,155,62,27,41,170,206>>, <<191,187,77,167,97,18,191,30>>,
            <<191,197,153,28,247,82,215,19>>, <<191,205,117,173,100,182,68,221>>, <<191,210,154,78,109,131,201,162>>, <<191,214,103,16,132,141,101,197>>,
            <<191,218,29,74,160,4,80,214>>, <<191,221,185,65,17,139,108,225>>, <<191,224,155,169,74,131,217,30>>, <<191,226,73,253,251,156,121,249>>,
            <<191,227,229,237,207,11,109,115>>, <<191,229,109,218,119,177,92,172>>, <<191,230,224,57,201,1,158,237>>, <<191,232,59,151,67,114,37,244>>,
            <<191,233,126,149,139,30,27,71>>, <<191,234,167,239,199,35,76,63>>, <<191,235,182,122,232,88,76,65>>, <<191,236,169,38,214,19,46,101>>,
            <<191,237,126,255,127,209,199,142>>, <<191,238,55,45,210,177,13,51>>, <<191,238,208,248,145,187,206,170>>, <<191,239,75,197,16,55,245,220>>,
            <<191,239,167,23,205,54,129,86>>, <<191,239,226,148,239,201,235,152>>, <<191,239,254,0,163,102,20,184>>, <<191,239,249,63,84,12,174,10>>,
            <<191,239,212,85,202,9,195,129>>, <<191,239,143,105,37,36,111,110>>, <<191,239,42,190,183,72,118,147>>, <<191,238,166,187,190,206,144,196>>,
            <<191,238,3,229,0,169,73,79>>, <<191,237,66,222,66,220,219,74>>, <<191,236,100,105,167,200,198,102>>, <<191,235,105,102,234,231,217,7>>,
            <<191,234,82,210,127,204,67,193>>, <<191,233,33,196,148,56,208,4>>, <<191,231,215,111,246,87,166,165>>, <<191,230,117,32,224,41,50,162>>,
            <<191,228,252,59,169,97,253,56>>, <<191,227,110,59,97,7,106,182>>, <<191,225,204,176,80,51,134,143>>, <<191,224,25,62,103,128,20,102>>,
            <<191,220,171,55,49,89,0,99>>, <<191,217,7,28,60,81,242,139>>, <<191,213,73,213,100,128,183,243>>, <<191,209,119,37,111,90,137,200>>,
            <<191,203,37,201,85,207,3,140>>, <<191,195,65,250,31,157,233,125>>, <<191,182,149,153,70,120,32,158>>, <<191,154,66,30,19,252,201,74>>,
            <<63,162,246,72,210,178,157,27>>, <<63,185,125,71,68,220,209,88>>, <<63,196,178,227,178,117,64,108>>, <<63,204,146,82,116,165,25,117>>,
            <<63,210,42,130,116,98,230,109>>, <<63,213,249,150,122,147,102,186>>, <<63,217,178,144,160,24,75,86>>, <<63,221,81,178,114,128,4,110>>,
            <<63,224,105,171,190,211,55,47>>, <<63,226,25,252,122,193,54,41>>, <<63,227,184,24,161,16,122,221>>, <<63,229,66,95,181,29,77,9>>,
            <<63,230,183,69,44,122,144,34>>, <<63,232,21,81,253,194,147,51>>, <<63,233,91,38,25,199,177,244>>, <<63,234,135,121,205,168,246,185>>,
            <<63,235,153,31,12,102,22,91>>, <<63,236,143,2,158,168,199,248>>, <<63,237,104,45,55,144,23,130>>, <<63,238,35,196,109,104,239,13>>,
            <<63,238,193,11,149,88,135,135>>, <<63,239,63,100,129,28,153,93>>, <<63,239,158,80,30,34,3,3>>, <<63,239,221,110,245,82,31,18>>,
            <<63,239,252,129,139,22,15,205>>, <<63,239,251,104,159,47,171,68>>, <<63,239,218,37,76,39,158,225>>, <<63,239,152,217,6,49,79,111>>,
            <<63,239,55,197,121,133,111,22>>, <<63,238,183,76,72,85,88,70>>, <<63,238,23,238,168,153,77,118>>, <<63,237,90,76,226,28,189,237>>,
            <<63,236,127,37,173,74,231,132>>, <<63,235,135,85,115,94,48,189>>, <<63,234,115,213,112,179,24,154>>, <<63,233,69,186,186,29,125,91>>,
            <<63,231,254,53,38,60,226,153>>, <<63,230,158,142,27,231,17,145>>, <<63,229,40,39,70,221,131,149>>, <<63,227,156,121,52,25,202,44>>,
            <<63,225,253,17,215,23,82,107>>, <<63,224,75,146,249,151,56,85>>, <<63,221,19,97,46,224,212,120>>, <<63,217,114,94,80,39,2,173>>,
            <<63,213,183,195,174,244,131,228>>, <<63,209,231,81,96,154,145,224>>, <<63,204,9,186,228,95,30,33>>, <<63,196,40,160,25,191,68,66>>,
            <<63,184,102,126,32,22,63,150>>, <<63,160,198,99,104,3,68,251>>, <<191,158,162,40,243,94,175,88>>, <<191,183,172,146,98,167,147,10>>,
            <<191,195,204,101,150,92,238,74>>, <<191,203,174,152,126,90,65,221>>, <<191,209,186,122,16,110,161,252>>, <<191,213,139,211,90,210,247,138>>,
            <<191,217,71,129,40,243,242,109>>, <<191,220,233,194,80,191,109,117>>, <<191,224,55,119,157,18,128,81>>, <<191,225,233,190,198,6,151,241>>,
            <<191,227,138,1,221,243,88,73>>, <<191,229,22,158,62,25,182,115>>, <<191,230,142,5,3,82,223,223>>, <<191,231,238,188,159,60,233,78>>,
            <<191,233,55,98,83,244,98,106>>, <<191,234,102,171,152,219,43,199>>, <<191,235,123,103,103,6,240,164>>, <<191,236,116,127,108,8,58,38>>,
            <<191,237,80,249,33,213,207,52>>, <<191,238,15,246,202,194,246,60>>, <<191,238,176,184,80,130,199,58>>, <<191,239,50,156,5,88,235,238>>,
            <<191,239,149,31,70,180,182,198>>, <<191,239,215,223,0,147,224,78>>, <<191,239,250,152,17,39,246,27>>, <<191,239,253,39,140,90,224,29>>,
            <<191,239,223,138,222,238,66,246>>, <<191,239,161,223,209,18,134,138>>, <<191,239,68,100,104,114,228,1>>, <<191,238,199,118,169,212,155,210>>,
            <<191,238,43,148,58,135,249,141>>, <<191,237,113,89,226,10,123,108>>, <<191,236,153,130,236,88,238,182>>, <<191,235,164,232,109,144,36,38>>,
            <<191,234,148,128,103,154,2,62>>, <<191,233,105,92,210,194,6,51>>, <<191,232,36,170,138,42,119,128>>, <<191,230,199,176,29,55,9,36>>,
            <<191,229,83,204,135,29,218,90>>, <<191,227,202,117,205,232,94,50>>, <<191,226,45,55,138,71,210,180>>, <<191,224,125,177,89,183,18,83>>,
            <<191,221,123,42,120,245,101,107>>, <<191,217,221,75,194,69,200,109>>, <<191,214,37,105,190,140,213,119>>, <<191,210,87,65,198,127,10,174>>,
            <<191,204,237,79,50,253,164,88>>, <<191,197,15,3,8,125,202,208>>, <<191,186,55,17,210,230,136,7>>, <<191,164,107,127,251,156,45,183>>,
            <<63,151,87,90,95,157,215,32>>, <<63,181,219,142,195,252,142,0>>, <<63,194,229,165,161,158,50,215>>, <<63,202,202,130,119,54,226,114>>,
            <<63,209,74,54,182,64,251,195>>, <<63,213,29,200,146,89,34,233>>, <<63,216,220,29,158,168,51,228>>, <<63,220,129,114,5,247,231,129>>,
            <<63,224,5,13,140,57,197,112>>, <<63,225,185,69,125,221,206,107>>, <<63,227,91,170,30,252,180,136>>, <<63,228,234,150,164,44,197,135>>,
            <<63,230,100,121,214,187,231,132>>, <<63,231,199,215,168,51,188,191>>, <<63,233,19,74,176,150,185,50>>, <<63,234,69,133,149,213,9,34>>,
            <<63,235,93,84,91,16,161,0>>, <<63,236,89,157,150,94,150,143>>, <<63,237,57,99,139,206,172,47>>, <<63,237,251,197,44,155,231,165>>,
            <<63,238,159,254,249,134,37,110>>, <<63,239,37,107,199,112,167,21>>, <<63,239,139,133,101,127,195,187>>, <<63,239,209,229,36,15,6,241>>,
            <<63,239,248,68,59,247,177,192>>, <<63,239,254,124,21,191,229,75>>, <<63,239,228,134,112,106,202,87>>, <<63,239,170,125,103,194,198,178>>,
            <<63,239,80,155,90,23,72,125>>, <<63,238,215,58,173,136,205,236>>, <<63,238,62,213,117,29,200,208>>, <<63,237,136,4,245,252,96,132>>,
            <<63,236,179,129,13,67,236,224>>, <<63,235,194,31,119,33,209,89>>, <<63,234,180,210,247,219,42,76>>, <<63,233,140,170,103,163,212,247>>,
            <<63,232,74,207,162,56,75,248>>, <<63,230,240,134,91,76,22,76>>, <<63,229,127,42,216,250,182,174>>, <<63,227,248,48,149,129,109,92>>,
            <<63,226,93,32,201,163,175,104>>, <<63,224,175,152,225,47,237,30>>, <<63,221,226,145,182,105,162,180>>, <<63,218,71,227,47,14,122,216>>,
            <<63,214,146,198,38,157,104,167>>, <<63,210,198,245,44,189,130,207>>, <<63,205,208,131,76,198,111,132>>, <<63,197,245,31,237,158,208,144>>,
            <<63,188,7,78,85,206,77,236>>, <<63,168,16,88,165,104,28,236>>, <<191,144,12,62,42,211,171,50>>, <<191,180,10,66,115,106,169,117>>,
            <<191,193,254,166,211,168,157,196>>, <<191,201,230,19,85,206,143,237>>, <<191,208,217,185,219,56,135,21>>, <<191,212,175,119,143,33,40,197>>,
            <<191,216,112,103,102,93,67,241>>, <<191,220,24,194,237,23,130,75>>, <<191,223,164,220,103,232,211,85>>, <<191,225,136,145,67,126,4,203>>,
            <<191,227,45,17,254,77,132,169>>, <<191,228,190,73,121,197,245,212>>, <<191,230,58,164,48,224,123,227>>, <<191,231,160,163,154,2,59,56>>,
            <<191,232,238,223,167,184,56,165>>, <<191,234,36,8,50,213,143,49>>, <<191,235,62,230,76,136,224,199>>, <<191,236,62,93,119,19,196,26>>,
            <<191,237,33,108,195,234,177,212>>, <<191,237,231,47,214,29,14,156>>, <<191,238,142,223,200,1,164,254>>, <<191,239,23,211,243,64,164,137>>,
            <<191,239,129,130,154,113,167,128>>, <<191,239,203,129,115,163,163,235>>, <<191,239,245,134,19,66,232,47>>, <<191,239,255,102,54,242,41,51>>,
            <<191,239,233,23,240,10,226,62>>, <<191,239,178,177,173,154,158,217>>, <<191,239,92,106,37,210,236,229>>, <<191,238,230,152,31,2,208,161>>,
            <<191,238,81,178,24,80,238,91>>, <<191,237,158,77,210,142,76,213>>, <<191,236,205,31,185,153,97,38>>, <<191,235,222,250,46,233,61,151>>,
            <<191,234,212,204,181,246,188,48>>, <<191,233,175,163,3,89,114,149>>, <<191,232,112,163,239,137,73,97>>, <<191,231,25,16,78,85,35,234>>,
            <<191,229,170,65,172,55,133,208>>, <<191,228,37,168,242,206,39,66>>, <<191,226,140,204,245,210,198,53>>, <<191,224,225,72,234,8,124,88>>,
            <<191,222,73,149,143,86,176,128>>, <<191,218,178,35,51,255,192,81>>, <<191,214,255,215,123,110,149,230>>, <<191,211,54,106,31,214,103,237>>,
            <<191,206,179,84,62,21,80,100>>, <<191,198,218,243,203,209,85,100>>, <<191,189,215,45,160,212,94,22>>, <<191,171,180,225,70,231,239,72>>,
            <<63,129,129,217,45,98,167,73>>, <<63,178,56,179,124,116,16,218>>, <<63,193,23,108,44,188,196,211>>, <<63,201,1,78,17,221,54,57>>,
            <<63,208,105,4,245,114,186,27>>, <<63,212,64,225,192,16,54,38>>, <<63,216,4,95,230,78,110,183>>, <<63,219,175,182,98,71,155,220>>,
            <<63,223,63,52,121,62,88,135>>, <<63,225,87,162,184,226,127,2>>, <<63,226,254,58,22,220,170,61>>, <<63,228,145,183,82,60,18,178>>,
            <<63,230,16,132,156,227,22,39>>, <<63,231,121,32,247,10,167,168>>, <<63,232,202,33,178,119,192,8>>, <<63,234,2,51,223,62,123,20>>,
            <<63,235,32,29,160,164,49,147>>, <<63,236,34,191,104,201,33,197>>, <<63,237,9,21,25,221,36,120>>, <<63,237,210,55,11,187,87,177>>,
            <<63,238,125,90,244,231,12,201>>, <<63,239,9,212,181,254,54,163>>, <<63,239,119,23,6,213,212,196>>, <<63,239,196,180,4,145,191,88>>,
            <<63,239,242,93,160,40,220,155>>, <<63,239,255,229,236,230,254,160>>, <<63,239,237,63,78,156,252,177>>, <<63,239,186,124,135,80,232,99>>,
            <<63,239,103,208,164,96,121,1>>, <<63,238,245,142,203,40,168,133>>, <<63,238,100,41,229,102,42,37>>, <<63,237,180,52,45,162,217,105>>,
            <<63,236,230,94,156,36,59,114>>, <<63,235,251,120,52,239,88,95>>, <<63,234,244,109,55,148,74,164>>, <<63,233,210,70,49,147,230,183>>,
            <<63,232,150,38,244,77,12,122>>, <<63,231,65,77,111,126,228,229>>, <<63,229,213,16,113,133,160,53>>, <<63,228,82,222,78,148,170,172>>,
            <<63,226,188,59,112,72,7,145>>, <<63,225,18,192,207,0,4,136>>, <<63,222,176,52,173,31,238,158>>, <<63,219,28,10,111,186,212,54>>,
            <<63,215,108,156,82,66,221,116>>, <<63,211,165,159,45,25,248,195>>, <<63,207,149,191,20,144,30,81>>, <<63,199,192,123,166,182,250,59>>,
            <<63,191,166,169,173,53,140,169>>, <<63,175,89,13,194,168,173,155>>, <<191,87,87,222,89,247,167,171>>, <<191,176,102,231,235,119,27,167>>,
            <<191,192,47,248,173,226,72,192>>, <<191,200,28,53,164,60,250,211>>, <<191,207,240,50,247,143,25,59>>, <<191,211,210,8,148,239,235,124>>,
            <<191,215,152,8,133,197,53,201>>, <<191,219,70,77,194,232,90,167>>, <<191,222,217,36,158,139,74,207>>, <<191,225,38,122,128,200,113,220>>,
            <<191,226,207,35,4,117,86,44>>, <<191,228,100,224,193,203,126,53>>, <<191,229,230,27,166,220,51,89>>, <<191,231,81,80,66,180,158,15>>,
            <<191,232,165,17,75,7,248,185>>, <<191,233,224,9,11,146,148,41>>, <<191,235,0,250,189,196,90,159>>, <<191,236,6,195,199,88,148,249>>,
            <<191,236,240,92,222,155,128,88>>, <<191,237,188,219,19,54,132,33>>, <<191,238,107,112,186,122,37,220>>, <<191,238,251,110,62,54,156,91>>,
            <<191,239,108,66,205,84,52,11>>, <<191,239,189,124,237,121,15,207>>, <<191,239,238,202,237,42,84,22>>, <<191,239,255,251,53,245,166,224>>,
            <<191,239,240,252,126,80,128,36>>, <<191,239,193,221,218,251,24,90>>, <<191,239,114,206,175,213,133,12>>, <<191,239,4,30,128,54,38,167>>,
            <<191,238,118,60,158,241,158,134>>, <<191,237,201,183,190,100,54,57>>, <<191,236,255,61,96,237,255,24>>, <<191,236,23,153,42,113,114,53>>,
            <<191,235,19,180,19,132,57,236>>, <<191,233,244,147,127,32,116,29>>, <<191,232,187,88,51,193,135,209>>, <<191,231,105,61,56,245,104,133>>,
            <<191,229,255,150,154,133,246,131>>, <<191,228,127,208,18,121,203,4>>, <<191,226,235,107,155,67,160,42>>, <<191,225,67,255,235,144,128,178>>,
            <<191,223,22,109,186,120,21,102>>, <<191,219,133,151,130,8,59,126>>, <<191,215,217,19,65,90,174,150>>, <<191,212,20,146,226,172,156,18>>,
            <<191,208,59,224,111,151,197,241>>, <<191,200,165,180,130,238,46,110>>, <<191,192,186,222,58,188,159,126>>, <<191,177,126,104,254,52,108,64>>,
            <<191,119,87,214,150,121,139,159>>, <<63,173,41,203,155,55,92,78>>, <<63,190,144,158,177,187,175,56>>, <<63,199,54,205,6,221,85,172>>,
            <<63,207,13,241,203,136,245,58>>, <<63,211,98,237,126,105,239,207>>, <<63,215,43,98,173,21,28,34>>, <<63,218,220,138,109,140,6,130>>,
            <<63,222,114,174,43,64,150,216>>, <<63,224,245,25,62,172,229,185>>, <<63,226,159,205,99,180,168,208>>, <<63,228,55,198,93,147,250,209>>,
            <<63,229,187,105,219,216,49,106>>, <<63,231,41,50,1,107,94,116>>, <<63,232,127,174,236,173,181,119>>, <<63,233,189,136,41,116,90,129>>,
            <<63,234,225,126,11,119,53,132>>, <<63,235,234,106,239,211,35,86>>, <<63,236,215,68,100,92,101,99>>, <<63,237,167,28,51,152,31,95>>,
            <<63,238,89,33,84,79,249,174>>, <<63,238,236,160,187,206,114,201>>, <<63,239,97,6,17,240,187,85>>, <<63,239,181,220,70,88,183,40>>,
            <<63,239,234,206,6,41,112,228>>, <<63,239,255,166,17,215,87,36>>, <<63,239,244,79,114,181,252,62>>, <<63,239,200,213,144,13,152,11>>,
            <<63,239,125,100,35,162,254,203>>, <<63,239,18,71,13,189,145,230>>, <<63,238,135,234,8,215,136,202>>, <<63,237,222,216,61,69,34,174>>,
            <<63,237,23,187,181,63,224,197>>, <<63,236,51,92,177,226,88,15>>, <<63,235,50,160,225,192,251,116>>, <<63,234,22,138,121,233,250,147>>,
            <<63,232,224,55,50,52,162,172>>, <<63,231,144,223,37,230,25,190>>, <<63,230,41,211,153,202,247,1>>, <<63,228,172,125,169,3,90,255>>,
            <<63,227,26,92,217,212,209,223>>, <<63,225,117,5,155,240,210,239>>, <<63,223,124,63,99,101,51,201>>, <<63,219,238,201,11,220,88,38>>,
            <<63,216,69,58,223,249,235,162>>, <<63,212,131,67,207,140,101,163>>, <<63,208,172,171,87,37,80,208>>, <<63,201,138,155,102,28,26,161>>,
            <<63,193,162,47,250,193,187,70>>, <<63,179,80,16,236,160,215,143>>, <<63,138,66,171,144,101,71,218>>, <<191,169,133,102,97,129,49,159>>,
            <<191,188,192,230,96,77,218,34>>, <<191,198,81,23,52,183,178,52>>, <<191,206,43,73,87,79,70,149>>, <<191,210,243,145,238,3,130,91>>,
            <<191,214,190,111,197,150,69,143>>, <<191,218,114,109,193,242,238,205>>, <<191,222,11,210,116,36,97,1>>, <<191,224,195,127,150,202,137,52>>,
            <<191,226,112,57,210,7,220,102>>, <<191,228,10,104,187,150,236,57>>, <<191,229,144,111,201,213,215,28>>, <<191,231,0,198,184,156,9,99>>,
            <<191,232,89,251,19,190,129,131>>, <<191,233,154,177,171,164,131,202>>, <<191,234,193,167,242,117,68,198>>, <<191,235,205,181,64,127,219,84>>,
            <<191,236,189,203,254,150,161,109>>, <<191,237,144,250,181,50,163,148>>, <<191,238,70,108,255,78,11,247>>, <<191,238,221,108,96,0,254,51>>,
            <<191,239,85,96,250,10,243,153>>, <<191,239,173,210,40,142,228,141>>, <<191,239,230,102,248,105,143,112>>, <<191,239,254,230,129,167,57,227>>,
            <<191,239,247,56,32,191,78,139>>, <<191,239,207,99,143,92,22,165>>, <<191,239,135,144,220,149,184,126>>, <<191,239,32,8,68,168,56,157>>,
            <<191,238,153,49,232,77,43,132>>, <<191,237,243,149,100,1,219,154>>, <<191,237,47,217,71,163,190,206>>, <<191,236,78,194,110,235,146,106>>,
            <<191,235,81,51,59,112,155,59>>, <<191,234,56,42,176,250,86,213>>, <<191,233,4,195,117,5,222,106>>, <<191,231,184,50,178,129,76,185>>,
            <<191,230,83,198,226,218,99,243>>, <<191,228,216,230,125,153,187,38>>, <<191,227,73,14,143,220,75,86>>, <<191,225,165,209,61,22,175,117>>,
            <<191,223,225,168,85,69,54,73>>, <<191,220,87,157,175,92,21,98>>, <<191,216,177,17,198,108,34,99>>, <<191,212,241,176,131,149,103,132>>,
            <<191,209,29,62,201,207,73,30>>, <<191,202,111,45,86,246,198,220>>, <<191,194,137,71,21,85,230,117>>, <<191,181,33,120,159,231,184,202>>,
            <<191,148,108,138,63,138,52,216>>, <<63,165,224,172,70,200,238,25>>, <<63,186,240,206,109,189,156,141>>, <<63,197,107,23,41,198,129,1>>,
            <<63,205,72,60,140,181,203,110>>, <<63,210,131,247,86,23,246,213>>, <<63,214,81,49,57,161,59,154>>, <<63,218,7,249,33,6,13,92>>,
            <<63,221,164,146,207,77,123,158>>, <<63,224,145,174,46,23,197,103>>, <<63,226,64,104,237,170,44,173>>, <<63,227,220,200,114,181,88,71>>,
            <<63,229,101,45,255,196,42,1>>, <<63,230,216,14,238,180,16,142>>, <<63,232,51,246,61,158,187,36>>, <<63,233,119,134,6,0,125,174>>,
            <<63,234,161,120,220,160,122,140>>, <<63,235,176,163,24,218,147,56>>, <<63,236,163,244,1,255,241,87>>, <<63,237,122,118,225,160,155,198>>,
            <<63,238,51,83,249,169,138,221>>, <<63,238,205,209,93,95,149,249>>, <<63,239,73,83,172,93,124,134>>, <<63,239,165,94,174,216,144,214>>,
            <<63,239,225,149,210,143,19,164>>, <<63,239,253,188,135,226,106,67>>, <<63,239,249,182,126,191,200,114>>, <<63,239,213,135,195,25,215,238>>,
            <<63,239,145,84,184,214,209,207>>, <<63,239,45,97,247,55,36,128>>, <<63,238,170,20,3,217,107,82>>, <<63,238,7,238,237,161,4,233>>,
            <<63,237,71,149,199,229,88,111>>, <<63,236,105,202,6,110,152,106>>, <<63,235,111,106,186,229,251,185>>, <<63,234,89,115,180,124,18,32>>,
            <<63,233,40,252,130,167,198,92>>, <<63,231,223,55,91,252,0,70>>, <<63,230,125,111,234,47,38,209>>, <<63,229,5,9,252,138,29,249>>,
            <<63,227,119,128,34,13,251,102>>, <<63,225,214,98,44,185,24,190>>, <<63,224,35,83,159,105,52,112>>, <<63,220,192,20,15,225,0,86>>,
            <<63,217,28,150,142,9,86,69>>, <<63,213,95,215,143,134,152,238>>, <<63,209,141,153,81,45,21,130>>, <<63,203,83,103,93,78,3,223>>,
            <<63,195,112,32,137,231,186,137>>, <<63,182,242,154,12,44,207,48>>, <<63,155,183,122,201,157,62,118>>, <<191,162,59,169,105,39,19,40>>,
            <<191,185,32,92,225,137,144,62>>, <<191,196,132,207,226,250,204,251>>, <<191,204,100,206,94,221,184,30>>, <<191,210,20,31,41,212,95,111>>,
            <<191,213,227,168,116,138,26,211>>, <<191,217,157,45,236,211,89,122>>, <<191,221,60,240,148,31,102,155>>, <<191,224,95,165,170,68,57,234>>,
            <<191,226,16,91,85,162,200,165>>, <<191,227,174,230,26,173,228,150>>, <<191,229,57,165,13,128,193,222>>, <<191,230,175,11,43,31,53,63>>,
            <<191,232,13,160,232,192,69,78>>, <<191,233,84,5,173,128,236,118>>, <<191,234,128,241,53,2,164,25>>, <<191,235,147,52,217,146,171,127>>,
            <<191,236,137,188,196,139,251,119>>, <<191,237,99,145,3,195,138,167>>, <<191,238,31,214,130,230,149,29>>, <<191,238,189,207,231,208,248,132>>,
            <<191,239,60,222,80,253,139,168>>, <<191,239,156,129,245,81,22,116>>, <<191,239,220,90,164,159,60,120>>, <<191,239,252,40,40,103,237,118>>,
            <<191,239,251,202,132,108,79,99>>, <<191,239,219,66,22,217,246,35>>, <<191,239,154,175,151,236,43,108>>, <<191,239,58,83,249,3,163,38>>,
            <<191,238,186,144,35,85,175,110>>, <<191,238,27,228,150,116,148,112>>, <<191,237,94,240,231,19,61,142>>, <<191,236,132,115,30,133,254,224>>,
            <<191,235,141,70,251,162,15,155>>, <<191,234,122,101,21,187,176,201>>, <<191,233,76,225,226,161,201,241>>, <<191,232,5,236,160,145,155,110>>,
            <<191,230,166,206,37,59,43,151>>, <<191,229,48,231,147,8,66,21>>, <<191,227,165,176,245,243,34,143>>, <<191,226,6,183,201,82,16,67>>,
            <<191,224,85,157,104,19,181,5>>, <<191,221,40,42,209,254,124,16>>, <<191,217,135,199,209,58,169,44>>, <<191,213,205,183,133,6,185,202>>,
            <<191,209,253,185,119,147,75,105>>, <<191,204,55,70,130,22,195,106>>, <<191,196,86,185,88,179,24,138>>, <<191,184,195,111,38,125,149,28>>,
            <<191,161,129,7,146,165,233,158>>, <<63,157,44,211,207,76,64,124>>, <<63,183,79,151,196,92,74,234>>, <<63,195,158,68,94,51,71,238>>,
            <<63,203,129,1,194,44,225,81>>, <<63,209,164,10,221,50,155,248>>, <<63,213,117,214,226,155,218,101>>, <<63,217,50,13,136,136,98,78>>,
            <<63,220,212,237,27,69,47,144>>, <<63,224,45,102,177,183,3,18>>, <<63,225,224,17,169,194,193,164>>, <<63,227,128,194,76,27,16,52>>,
            <<63,229,13,213,131,213,222,133>>, <<63,230,133,187,246,69,230,214>>, <<63,231,230,251,148,160,154,93>>, <<63,233,48,49,24,56,28,40>>,
            <<63,234,96,17,103,204,40,164>>, <<63,235,117,106,228,137,205,79>>, <<63,236,111,38,157,107,71,204>>, <<63,237,76,73,103,195,9,179>>,
            <<63,238,11,244,219,215,65,225>>, <<63,238,173,104,52,144,158,172>>, <<63,239,48,1,17,90,99,141>>, <<63,239,147,60,25,113,220,173>>,
            <<63,239,214,181,127,255,237,159>>, <<63,239,250,41,104,120,163,230>>, <<63,239,253,116,42,219,120,208>>, <<63,239,224,146,119,143,176,1>>,
            <<63,239,163,161,90,184,211,8>>, <<63,239,70,222,30,255,225,4>>, <<63,238,202,166,15,238,137,99>>, <<63,238,47,118,28,26,157,63>>,
            <<63,237,117,234,87,127,226,77>>, <<63,236,158,189,94,134,163,73>>, <<63,235,170,199,154,85,89,184>>, <<63,234,154,254,103,41,43,203>>,
            <<63,233,112,115,29,145,125,238>>, <<63,232,44,81,255,133,114,173>>, <<63,230,207,225,10,105,0,74>>, <<63,229,92,126,175,48,102,180>>,
            <<63,227,211,160,113,236,97,64>>, <<63,226,54,209,114,33,13,9>>, <<63,224,135,176,221,98,23,7>>, <<63,221,143,224,155,133,238,85>>,
            <<63,217,242,164,43,127,0,186>>, <<63,214,59,78,246,168,156,170>>, <<63,210,109,157,200,24,168,188>>, <<63,205,26,199,207,116,56,61>>,
            <<63,197,61,14,130,202,37,177>>, <<63,186,147,241,228,229,216,61>>, <<63,165,38,23,137,83,76,255>>, <<191,149,225,243,196,52,133,66>>,
            <<191,181,126,133,31,244,209,205>>, <<191,194,183,119,154,48,220,138>>, <<191,202,156,217,172,66,51,159>>, <<191,209,51,187,228,244,132,184>>,
            <<191,213,7,189,241,19,114,84>>, <<191,216,198,153,88,110,38,67>>, <<191,220,108,137,190,173,104,147>>, <<191,223,245,227,215,24,97,62>>,
            <<191,225,175,140,138,162,234,131>>, <<191,227,82,93,160,112,236,162>>, <<191,228,225,191,244,120,134,72>>, <<191,230,92,33,217,139,159,114>>,
            <<191,231,192,6,193,199,77,172>>, <<191,233,12,8,189,80,159,53>>, <<191,234,62,217,226,82,152,210>>, <<191,235,87,69,156,210,164,242>>,
            <<191,236,84,49,229,9,242,220>>, <<191,237,52,160,91,11,197,226>>, <<191,237,247,175,70,154,243,232>>, <<191,238,156,154,122,46,5,254>>,
            <<191,239,34,188,24,60,216,43>>, <<191,239,137,141,58,17,243,110>>, <<191,239,208,166,119,119,115,244>>, <<191,239,247,192,78,183,56,227>>,
            <<191,239,254,179,108,133,159,119>>, <<191,239,229,120,211,142,162,146>>, <<191,239,172,41,227,125,106,216>>, <<191,239,83,0,63,119,106,247>>,
            <<191,238,218,85,148,36,112,43>>, <<191,238,66,163,61,126,82,109>>, <<191,237,140,129,204,194,136,76>>, <<191,236,184,168,111,0,217,191>>,
            <<191,235,199,236,52,225,22,31>>, <<191,234,187,63,60,89,93,36>>, <<191,233,147,175,189,44,110,158>>, <<191,232,82,102,249,36,179,199>>,
            <<191,230,248,168,17,29,237,195>>, <<191,229,135,206,192,9,48,231>>, <<191,228,1,77,253,51,132,119>>, <<191,226,102,174,135,44,220,243>>,
            <<191,224,185,141,88,200,244,81>>, <<191,221,247,52,19,138,234,36>>, <<191,218,93,42,57,111,197,39>>, <<191,214,168,156,119,240,154,231>>,
            <<191,210,221,68,206,154,236,35>>, <<191,205,253,232,80,192,243,241>>, <<191,198,35,29,10,32,189,105>>, <<191,188,100,28,62,129,209,211>>,
            <<191,168,202,225,41,160,186,64>>, <<63,141,45,149,227,224,10,134>>, <<63,179,173,42,255,20,130,9>>, <<63,193,208,108,150,141,180,203>>,
            <<63,201,184,89,19,237,207,118>>, <<63,208,195,51,182,158,243,207>>, <<63,212,153,95,14,27,149,140>>, <<63,216,90,210,193,228,84,242>>,
            <<63,220,3,199,217,133,112,176>>, <<63,223,144,143,255,37,161,142>>, <<63,225,126,204,153,161,246,187>>, <<63,227,35,184,177,251,81,181>>,
            <<63,228,181,100,242,6,161,97>>, <<63,230,50,61,95,76,215,15>>, <<63,231,152,194,241,196,85,187>>, <<63,232,231,141,21,11,125,47>>,
            <<63,234,29,75,19,15,57,221>>, <<63,235,56,197,102,175,143,231>>, <<63,236,56,222,245,14,164,73>>, <<63,237,28,150,44,78,126,47>>,
            <<63,237,227,6,6,157,87,190>>, <<63,238,139,102,240,140,13,213>>, <<63,239,21,15,145,198,167,159>>, <<63,239,127,117,119,101,172,189>>,
            <<63,239,202,45,159,44,77,202>>, <<63,239,244,236,227,40,12,86>>, <<63,239,255,136,69,68,248,129>>, <<63,239,233,245,26,139,0,109>>,
            <<63,239,180,73,21,216,142,174>>, <<63,239,94,186,50,15,205,156>>, <<63,238,233,158,123,204,114,34>>, <<63,238,85,107,186,216,180,164>>,
            <<63,237,162,182,251,184,98,147>>, <<63,236,210,51,249,193,115,116>>, <<63,235,228,180,106,88,136,186>>, <<63,234,219,39,42,7,113,32>>,
            <<63,233,182,151,76,65,129,192>>, <<63,232,120,43,14,199,227,240>>, <<63,231,33,34,177,187,99,230>>, <<63,229,178,215,53,133,153,123>>,
            <<63,228,46,184,255,221,205,106>>, <<63,226,150,78,105,69,198,36>>, <<63,224,235,50,52,115,203,203>>, <<63,222,94,35,226,104,85,118>>,
            <<63,218,199,88,152,197,10,134>>, <<63,215,21,158,157,88,216,66>>, <<63,211,76,173,23,195,170,164>>, <<63,206,224,165,18,154,49,179>>,
            <<63,199,8,225,241,149,104,26>>, <<63,190,51,232,43,149,179,251>>, <<63,172,111,88,85,67,16,23>>, <<191,125,45,198,105,127,116,109>>,
            <<191,177,219,143,109,106,121,22>>, <<191,192,233,38,83,179,1,240>>, <<191,200,211,130,241,37,119,203>>, <<191,208,82,115,200,117,102,114>>,
            <<191,212,42,187,168,199,58,251>>, <<191,215,238,187,43,92,170,139>>, <<191,219,154,168,200,53,100,60>>, <<191,223,42,211,44,149,104,210>>,
            <<191,225,77,210,120,226,17,239>>, <<191,226,244,212,27,219,194,255>>, <<191,228,136,197,16,5,6,13>>, <<191,230,8,15,18,221,100,152>>,
            <<191,231,113,48,167,46,93,73>>, <<191,232,194,190,152,190,242,30>>, <<191,233,251,101,105,157,187,7>>, <<191,235,25,234,167,145,104,125>>,
            <<191,236,29,46,40,89,93,134>>, <<191,237,4,43,43,126,247,28>>, <<191,237,205,249,96,149,153,45>>, <<191,238,121,205,208,224,33,213>>,
            <<191,239,6,251,171,114,4,127>>, <<191,239,116,244,242,254,49,152>>, <<191,239,195,75,12,164,221,242>>, <<191,239,241,175,47,49,24,16>>,
            <<191,239,255,242,178,85,159,106>>, <<191,239,238,7,61,153,207,249>>, <<191,239,187,254,214,199,41,143>>, <<191,239,106,11,207,201,13,167>>,
            <<191,238,248,128,148,16,226,125>>, <<191,238,103,207,85,177,139,79>>, <<191,237,184,137,154,133,118,40>>, <<191,236,235,95,169,211,14,222>>,
            <<191,236,1,31,219,2,71,113>>, <<191,234,250,181,198,22,40,55>>, <<191,233,217,41,86,186,134,51>>, <<191,232,157,157,194,212,143,181>>,
            <<191,231,73,80,101,161,11,37>>, <<191,229,221,151,128,134,156,247>>, <<191,228,91,224,226,221,184,86>>, <<191,226,197,176,122,7,152,110>>,
            <<191,225,28,158,203,70,242,146>>, <<191,222,196,174,177,196,110,82>>, <<191,219,49,45,232,90,247,63>>, <<191,215,130,83,252,86,55,212>>,
            <<191,211,187,213,49,13,65,31>>, <<191,207,194,251,34,232,172,244>>, <<191,199,238,90,60,251,139,27>>, <<191,192,1,167,210,206,222,235>>,
            <<191,176,9,184,119,127,53,33>>, <<61,65,27,162,24,176,32,199>>, <<63,176,9,184,119,127,121,110>>, <<63,192,1,167,210,206,193,94>>,
            <<63,199,238,90,60,251,172,184>>, <<63,207,194,251,34,232,206,25>>, <<63,211,187,213,49,13,50,245>>, <<63,215,130,83,252,86,71,189>>,
            <<63,219,49,45,232,90,233,196>>, <<63,222,196,174,177,196,125,82>>, <<63,225,28,158,203,70,236,71>>, <<63,226,197,176,122,7,159,92>>,
            <<63,228,91,224,226,221,190,239>>, <<63,229,221,151,128,134,163,54>>, <<63,231,73,80,101,161,17,3>>, <<63,232,157,157,194,212,149,44>>,
            <<63,233,217,41,86,186,139,62>>, <<63,234,250,181,198,22,36,54>>, <<63,236,1,31,219,2,75,149>>, <<63,236,235,95,169,211,11,174>>,
            <<63,237,184,137,154,133,121,84>>, <<63,238,103,207,85,177,141,249>>, <<63,238,248,128,148,16,228,164>>, <<63,239,106,11,207,201,15,72>>,
            <<63,239,187,254,214,199,42,168>>, <<63,239,238,7,61,153,208,138>>, <<63,239,255,242,178,85,159,99>>, <<63,239,241,175,47,49,23,142>>,
            <<63,239,195,75,12,164,222,217>>, <<63,239,116,244,242,254,48,6>>, <<63,239,6,251,171,114,6,81>>, <<63,238,121,205,208,224,31,58>>,
            <<63,237,205,249,96,149,150,16>>, <<63,237,4,43,43,126,250,63>>, <<63,236,29,46,40,89,89,112>>, <<63,235,25,234,167,145,108,115>>,
            <<63,233,251,101,105,157,182,9>>, <<63,232,194,190,152,190,246,213>>, <<63,231,113,48,167,46,87,119>>, <<63,230,8,15,18,221,94,99>>,
            <<63,228,136,197,16,5,11,195>>, <<63,226,244,212,27,219,188,27>>, <<63,225,77,210,120,226,10,189>>, <<63,223,42,211,44,149,89,225>>,
            <<63,219,154,168,200,53,113,172>>, <<63,215,238,187,43,92,154,173>>, <<63,212,42,187,168,199,42,190>>, <<63,208,82,115,200,117,85,231>>,
            <<63,200,211,130,241,37,86,58>>, <<63,192,233,38,83,178,224,5>>, <<63,177,219,143,109,106,52,210>>, <<63,125,45,198,105,131,45,126>>,
            <<191,172,111,88,85,67,152,190>>, <<191,190,51,232,43,149,120,212>>, <<191,199,8,225,241,149,137,194>>, <<191,206,224,165,18,154,20,204>>,
            <<191,211,76,173,23,195,186,244>>, <<191,215,21,158,157,88,232,55>>, <<191,218,199,88,152,197,26,16>>, <<191,222,94,35,226,104,100,133>>,
            <<191,224,235,50,52,115,197,122>>, <<191,226,150,78,105,69,205,26>>, <<191,228,46,184,255,221,199,163>>, <<191,229,178,215,53,133,159,196>>,
            <<191,231,33,34,177,187,94,192>>, <<191,232,120,43,14,199,233,115>>, <<191,233,182,151,76,65,134,215>>, <<191,234,219,39,42,7,109,19>>,
            <<191,235,228,180,106,88,140,235>>, <<191,236,210,51,249,193,119,43>>, <<191,237,162,182,251,184,101,205>>, <<191,238,85,107,186,216,178,69>>,
            <<191,238,233,158,123,204,116,88>>, <<191,239,94,186,50,15,207,76>>, <<191,239,180,73,21,216,141,171>>, <<191,239,233,245,26,139,1,13>>,
            <<191,239,255,136,69,68,248,152>>, <<191,239,244,236,227,40,11,228>>, <<191,239,202,45,159,44,78,165>>, <<191,239,127,117,119,101,171,59>>,
            <<191,239,21,15,145,198,169,100>>, <<191,238,139,102,240,140,11,72>>, <<191,237,227,6,6,157,90,103>>, <<191,237,28,150,44,78,122,162>>,
            <<191,236,56,222,245,14,160,65>>, <<191,235,56,197,102,175,147,209>>, <<191,234,29,75,19,15,52,235>>, <<191,232,231,141,21,11,129,220>>,
            <<191,231,152,194,241,196,79,244>>, <<191,230,50,61,95,76,220,108>>, <<191,228,181,100,242,6,154,220>>, <<191,227,35,184,177,251,74,218>>,
            <<191,225,126,204,153,161,239,146>>, <<191,223,144,143,255,37,146,172>>, <<191,220,3,199,217,133,126,20>>, <<191,216,90,210,193,228,69,32>>,
            <<191,212,153,95,14,27,163,165>>, <<191,208,195,51,182,158,227,76>>, <<191,201,184,89,19,237,236,163>>, <<191,193,208,108,150,141,146,233>>,
            <<191,179,173,42,255,20,61,206>>, <<191,141,45,149,227,225,231,5>>, <<63,168,202,225,41,161,66,244>>, <<63,188,100,28,62,130,21,214>>,
            <<63,198,35,29,10,32,223,29>>, <<63,205,253,232,80,192,214,253>>, <<63,210,221,68,206,154,252,124>>, <<63,214,168,156,119,240,170,231>>,
            <<63,218,93,42,57,111,212,190>>, <<63,221,247,52,19,138,249,65>>, <<63,224,185,141,88,200,251,156>>, <<63,226,102,174,135,44,227,242>>,
            <<63,228,1,77,253,51,126,168>>, <<63,229,135,206,192,9,55,59>>, <<63,230,248,168,17,29,232,148>>, <<63,232,82,102,249,36,185,86>>,
            <<63,233,147,175,189,44,106,36>>, <<63,234,187,63,60,89,97,215>>, <<63,235,199,236,52,225,26,93>>, <<63,236,184,168,111,0,214,118>>,
            <<63,237,140,129,204,194,139,149>>, <<63,238,66,163,61,126,80,1>>, <<63,238,218,85,148,36,114,112>>, <<63,239,83,0,63,119,105,113>>,
            <<63,239,172,41,227,125,108,17>>, <<63,239,229,120,211,142,161,249>>, <<63,239,254,179,108,133,159,158>>, <<63,239,247,192,78,183,56,129>>,
            <<63,239,208,166,119,119,116,193>>, <<63,239,137,141,58,17,241,251>>, <<63,239,34,188,24,60,217,227>>, <<63,238,156,154,122,46,3,128>>,
            <<63,237,247,175,70,154,246,133>>, <<63,237,52,160,91,11,194,99>>, <<63,236,84,49,229,9,238,226>>, <<63,235,87,69,156,210,160,128>>,
            <<63,234,62,217,226,82,138,198>>, <<63,233,12,8,189,80,153,227>>, <<63,231,192,6,193,199,71,240>>, <<63,230,92,33,217,139,164,197>>,
            <<63,228,225,191,244,120,127,205>>, <<63,227,82,93,160,112,229,208>>, <<63,225,175,140,138,162,227,98>>, <<63,223,245,227,215,24,110,37>>,
            <<63,220,108,137,190,173,89,63>>, <<63,216,198,153,88,110,22,125>>, <<63,213,7,189,241,19,128,100>>, <<63,209,51,187,228,244,116,61>>,
            <<63,202,156,217,172,66,80,193>>, <<63,194,183,119,154,48,186,177>>, <<63,181,126,133,31,245,13,41>>, <<63,149,225,243,196,51,115,152>>,
            <<191,165,38,23,137,83,213,190>>, <<191,186,147,241,228,230,28,77>>, <<191,197,61,14,130,202,71,111>>, <<191,205,26,199,207,116,27,60>>,
            <<191,210,109,157,200,24,185,31>>, <<191,214,59,78,246,168,142,179>>, <<191,217,242,164,43,127,16,94>>, <<191,221,143,224,155,133,225,31>>,
            <<191,224,135,176,221,98,30,90>>, <<191,226,54,209,114,33,20,17>>, <<191,227,211,160,113,236,91,104>>, <<191,229,92,126,175,48,109,18>>,
            <<191,230,207,225,10,104,251,18>>, <<191,232,44,81,255,133,120,72>>, <<191,233,112,115,29,145,121,106>>, <<191,234,154,254,103,41,48,140>>,
            <<191,235,170,199,154,85,94,5>>, <<191,236,158,189,94,134,167,29>>, <<191,237,117,234,87,127,223,101>>, <<191,238,47,118,28,26,160,22>>,
            <<191,238,202,166,15,238,139,183>>, <<191,239,70,222,30,255,223,113>>, <<191,239,163,161,90,184,212,80>>, <<191,239,224,146,119,143,176,193>>,
            <<191,239,253,116,42,219,121,7>>, <<191,239,250,41,104,120,164,46>>, <<191,239,214,181,127,255,236,196>>, <<191,239,147,60,25,113,219,73>>,
            <<191,239,48,1,17,90,101,56>>, <<191,238,173,104,52,144,151,175>>, <<191,238,11,244,219,215,68,113>>, <<191,237,76,73,103,195,6,66>>,
            <<191,236,111,38,157,107,75,55>>, <<191,235,117,106,228,137,200,235>>, <<191,234,96,17,103,204,35,204>>, <<191,233,48,49,24,56,22,225>>,
            <<191,231,230,251,148,160,148,173>>, <<191,230,133,187,246,69,236,32>>, <<191,229,13,213,131,213,216,20>>, <<191,227,128,194,76,27,22,27>>,
            <<191,225,224,17,169,194,186,140>>, <<191,224,45,102,177,183,9,127>>, <<191,220,212,237,27,69,32,73>>, <<191,217,50,13,136,136,82,148>>,
            <<191,213,117,214,226,155,202,71>>, <<191,209,164,10,221,50,139,135>>, <<191,203,129,1,194,44,191,230>>, <<191,195,158,68,94,51,38,30>>,
            <<191,183,79,151,196,92,134,60>>, <<191,157,44,211,207,75,46,222>>, <<63,161,129,7,146,166,114,102>>, <<63,184,195,111,38,125,217,56>>,
            <<63,196,86,185,88,178,251,34>>, <<63,204,55,70,130,22,228,202>>, <<63,209,253,185,119,147,91,212>>, <<63,213,205,183,133,6,171,201>>,
            <<63,217,135,199,209,58,184,220>>, <<63,221,40,42,209,254,110,206>>, <<63,224,85,157,104,19,188,96>>, <<63,226,6,183,201,82,10,28>>,
            <<63,227,165,176,245,243,41,80>>, <<63,229,48,231,147,8,72,125>>, <<63,230,166,206,37,59,38,84>>, <<63,232,5,236,160,145,161,21>>,
            <<63,233,76,225,226,161,197,98>>, <<63,234,122,101,21,187,181,151>>, <<63,235,141,70,251,162,11,209>>, <<63,236,132,115,30,134,2,194>>,
            <<63,237,94,240,231,19,64,243>>, <<63,238,27,228,150,116,151,86>>, <<63,238,186,144,35,85,177,209>>, <<63,239,58,83,249,3,165,4>>,
            <<63,239,154,175,151,236,44,196>>, <<63,239,219,66,22,217,245,111>>, <<63,239,251,202,132,108,80,45>>, <<63,239,252,40,40,103,237,177>>,
            <<63,239,220,90,164,159,59,172>>, <<63,239,156,129,245,81,21,31>>, <<63,239,60,222,80,253,137,205>>, <<63,238,189,207,231,208,246,36>>,
            <<63,238,31,214,130,230,146,58>>, <<63,237,99,145,3,195,135,69>>, <<63,236,137,188,196,139,254,214>>, <<63,235,147,52,217,146,167,39>>,
            <<63,234,128,241,53,2,159,78>>, <<63,233,84,5,173,128,231,60>>, <<63,232,13,160,232,192,74,55>>, <<63,230,175,11,43,31,47,55>>,
            <<63,229,57,165,13,128,187,119>>, <<63,227,174,230,26,173,234,117>>, <<63,226,16,91,85,162,193,149>>, <<63,224,95,165,170,68,64,80>>,
            <<63,221,60,240,148,31,87,99>>, <<63,217,157,45,236,211,103,31>>, <<63,213,227,168,116,138,10,191>>, <<63,210,20,31,41,212,79,6>>,
            <<63,204,100,206,94,221,213,41>>, <<63,196,132,207,226,250,171,53>>, <<63,185,32,92,225,137,203,134>>, <<63,162,59,169,105,38,138,97>>,
            <<191,155,183,122,201,156,80,71>>, <<191,182,242,154,12,45,19,88>>, <<191,195,112,32,137,231,220,90>>, <<191,203,83,103,93,78,37,77>>,
            <<191,209,141,153,81,45,37,246>>, <<191,213,95,215,143,134,169,15>>, <<191,217,28,150,142,9,102,1>>, <<191,220,192,20,15,224,243,8>>,
            <<191,224,35,83,159,105,59,211>>, <<191,225,214,98,44,185,18,143>>, <<191,227,119,128,34,14,2,48>>, <<191,229,5,9,252,138,36,108>>,
            <<191,230,125,111,234,47,44,231>>, <<191,231,223,55,91,252,5,248>>, <<191,233,40,252,130,167,203,165>>, <<191,234,89,115,180,124,22,250>>,
            <<191,235,111,106,186,229,247,228>>, <<191,236,105,202,6,110,156,89>>, <<191,237,71,149,199,229,85,110>>, <<191,238,7,238,237,161,13,100>>,
            <<191,238,170,20,3,217,105,49>>, <<191,239,45,97,247,55,38,109>>, <<191,239,145,84,184,214,211,54>>, <<191,239,213,135,195,25,215,44>>,
            <<191,239,249,182,126,191,200,200>>, <<191,239,253,188,135,226,106,112>>, <<191,239,225,149,210,143,18,232>>, <<191,239,165,94,174,216,145,241>>,
            <<191,239,73,83,172,93,122,186>>, <<191,238,205,209,93,95,147,168>>, <<191,238,51,83,249,169,141,83>>, <<191,237,122,118,225,160,152,114>>,
            <<191,236,163,244,1,255,237,134>>, <<191,235,176,163,24,218,142,238>>, <<191,234,161,120,220,160,126,173>>, <<191,233,119,134,6,0,120,128>>,
            <<191,232,51,246,61,158,192,3>>, <<191,230,216,14,238,180,10,144>>, <<191,229,101,45,255,196,35,164>>, <<191,227,220,200,114,181,81,146>>,
            <<191,226,64,104,237,170,37,167>>, <<191,224,145,174,46,23,203,198>>, <<191,221,164,146,207,77,108,117>>, <<191,218,7,249,33,6,26,247>>,
            <<191,214,81,49,57,161,43,146>>, <<191,210,131,247,86,24,5,22>>, <<191,205,72,60,140,181,170,31>>, <<191,197,107,23,41,198,95,69>>,
            <<191,186,240,206,109,189,88,128>>, <<191,165,224,172,70,200,101,92>>, <<63,148,108,138,63,137,70,158>>, <<63,181,33,120,159,231,252,253>>,
            <<63,194,137,71,21,85,200,252>>, <<63,202,111,45,86,246,232,86>>, <<63,209,29,62,201,207,58,197>>, <<63,212,241,176,131,149,119,174>>,
            <<63,216,177,17,198,108,50,43>>, <<63,220,87,157,175,92,8,8>>, <<63,223,225,168,85,69,69,31>>, <<63,225,165,209,61,22,182,152>>,
            <<63,227,73,14,143,220,82,41>>, <<63,228,216,230,125,153,181,128>>, <<63,230,83,198,226,218,106,20>>, <<63,231,184,50,178,129,82,119>>,
            <<63,233,4,195,117,5,227,192>>, <<63,234,56,42,176,250,91,189>>, <<63,235,81,51,59,112,159,176>>, <<63,236,78,194,110,235,150,103>>,
            <<63,237,47,217,71,163,187,193>>, <<63,237,243,149,100,1,222,157>>, <<63,238,153,49,232,77,41,86>>, <<63,239,32,8,68,168,58,153>>,
            <<63,239,135,144,220,149,185,244>>, <<63,239,207,99,143,92,23,148>>, <<63,239,247,56,32,191,78,241>>, <<63,239,254,230,129,167,58,2>>,
            <<63,239,230,102,248,105,142,195>>, <<63,239,173,210,40,142,229,155>>, <<63,239,85,96,250,10,241,221>>, <<63,238,221,108,96,1,0,42>>,
            <<63,238,70,108,255,78,9,49>>, <<63,237,144,250,181,50,166,109>>, <<63,236,189,203,254,150,157,171>>, <<63,235,205,181,64,127,215,24>>,
            <<63,234,193,167,242,117,72,220>>, <<63,233,154,177,171,164,126,168>>, <<63,232,89,251,19,190,134,88>>, <<63,231,0,198,184,156,3,113>>,
            <<63,229,144,111,201,213,220,156>>, <<63,228,10,104,187,150,229,142>>, <<63,226,112,57,210,7,213,104>>, <<63,224,195,127,150,202,143,140>>,
            <<63,222,11,210,116,36,81,230>>, <<63,218,114,109,193,242,223,57>>, <<63,214,190,111,197,150,53,145>>, <<63,210,243,145,238,3,144,149>>,
            <<63,206,43,73,87,79,37,85>>, <<63,198,81,23,52,183,144,131>>, <<63,188,192,230,96,77,150,35>>, <<63,169,133,102,97,128,168,237>>,
            <<191,138,66,171,144,103,107,66>>, <<191,179,80,16,236,161,27,204>>, <<191,193,162,47,250,193,157,198>>, <<191,201,138,155,102,28,60,40>>,
            <<191,208,172,171,87,37,66,111>>, <<191,212,131,67,207,140,117,216>>, <<191,216,69,58,223,249,221,218>>, <<191,219,238,201,11,220,103,138>>,
            <<191,223,124,63,99,101,66,174>>, <<191,225,117,5,155,240,218,27>>, <<191,227,26,92,217,212,216,187>>, <<191,228,172,125,169,3,85,80>>,
            <<191,230,41,211,153,202,253,44>>, <<191,231,144,223,37,230,20,181>>, <<191,232,224,55,50,52,168,13>>, <<191,234,22,138,121,233,246,67>>,
            <<191,235,50,160,225,192,255,246>>, <<191,236,51,92,177,226,92,26>>, <<191,237,23,187,181,63,221,171>>, <<191,237,222,216,61,69,37,191>>,
            <<191,238,135,234,8,215,134,143>>, <<191,239,18,71,13,189,147,242>>, <<191,239,125,100,35,162,253,120>>, <<191,239,200,213,144,13,153,9>>,
            <<191,239,244,79,114,181,252,179>>, <<191,239,255,166,17,215,87,53>>, <<191,239,234,206,6,41,112,70>>, <<191,239,181,220,70,88,182,2>>,
            <<191,239,97,6,17,240,185,167>>, <<191,238,236,160,187,206,116,180>>, <<191,238,89,33,84,79,246,247>>, <<191,237,167,28,51,152,28,40>>,
            <<191,236,215,68,100,92,97,174>>, <<191,235,234,106,239,211,38,249>>, <<191,234,225,126,11,119,48,224>>, <<191,233,189,136,41,116,85,108>>,
            <<191,232,127,174,236,173,186,66>>, <<191,231,41,50,1,107,88,141>>, <<191,229,187,105,219,216,54,225>>, <<191,228,55,198,93,147,244,47>>,
            <<191,226,159,205,99,180,174,222>>, <<191,224,245,25,62,172,222,120>>, <<191,222,114,174,43,64,135,204>>, <<191,218,220,138,109,139,246,251>>,
            <<191,215,43,98,173,21,12,48>>, <<191,211,98,237,126,105,254,0>>, <<191,207,13,241,203,136,212,8>>, <<191,199,54,205,6,221,114,246>>,
            <<191,190,144,158,177,187,107,70>>, <<191,173,41,203,155,55,211,64>>, <<63,119,87,214,150,125,210,131>>, <<63,177,126,104,254,52,176,134>>,
            <<63,192,186,222,58,188,129,246>>, <<63,200,165,180,130,238,80,1>>, <<63,208,59,224,111,151,214,125>>, <<63,212,20,146,226,172,172,81>>,
            <<63,215,217,19,65,90,160,196>>, <<63,219,133,151,130,8,74,240>>, <<63,223,22,109,186,120,36,91>>, <<63,225,67,255,235,144,135,230>>,
            <<63,226,235,107,155,67,167,16>>, <<63,228,127,208,18,121,209,150>>, <<63,229,255,150,154,133,252,185>>, <<63,231,105,61,56,245,99,113>>,
            <<63,232,187,88,51,193,141,62>>, <<63,233,244,147,127,32,121,30>>, <<63,235,19,180,19,132,62,123>>, <<63,236,23,153,42,113,110,165>>,
            <<63,236,255,61,96,238,2,182>>, <<63,237,201,183,190,100,57,89>>, <<63,238,118,60,158,241,156,62>>, <<63,239,4,30,128,54,44,177>>,
            <<63,239,114,206,175,213,131,172>>, <<63,239,193,221,218,251,25,103>>, <<63,239,240,252,126,80,127,177>>, <<63,239,255,251,53,245,166,219>>,
            <<63,239,238,202,237,42,83,136>>, <<63,239,189,124,237,121,14,184>>, <<63,239,108,66,205,84,50,109>>, <<63,238,251,110,62,54,158,56>>,
            <<63,238,107,112,186,122,35,52>>, <<63,237,188,219,19,54,134,225>>, <<63,236,240,92,222,155,124,178>>, <<63,236,6,195,199,88,152,145>>,
            <<63,235,0,250,189,196,86,8>>, <<63,233,224,9,11,146,143,33>>, <<63,232,165,17,75,7,243,69>>, <<63,231,81,80,66,180,152,51>>,
            <<63,229,230,27,166,220,45,29>>, <<63,228,100,224,193,203,119,157>>, <<63,226,207,35,4,117,92,50>>, <<63,225,38,122,128,200,106,163>>,
            <<63,222,217,36,158,139,59,210>>, <<63,219,70,77,194,232,75,45>>, <<63,215,152,8,133,197,67,160>>, <<63,211,210,8,148,239,219,56>>,
            <<63,207,240,50,247,142,248,25>>, <<63,200,28,53,164,61,24,19>>, <<63,192,47,248,173,226,38,207>>, <<63,176,102,231,235,118,215,93>>,
            <<63,87,87,222,89,230,140,10>>, <<191,175,89,13,194,168,54,177>>, <<191,191,166,169,173,53,208,145>>, <<191,199,192,123,166,183,27,218>>,
            <<191,207,149,191,20,144,1,116>>, <<191,211,165,159,45,26,9,12>>, <<191,215,108,156,82,66,207,152>>, <<191,219,28,10,111,186,227,181>>,
            <<191,222,176,52,173,31,225,140>>, <<191,225,18,192,207,0,11,196>>, <<191,226,188,59,112,72,14,128>>, <<191,228,82,222,78,148,177,71>>,
            <<191,229,213,16,113,133,166,118>>, <<191,231,65,77,111,126,223,199>>, <<191,232,150,38,244,77,17,244>>, <<191,233,210,70,49,147,226,81>>,
            <<191,234,244,109,55,148,87,223>>, <<191,235,251,120,52,239,84,195>>, <<191,236,230,94,156,36,63,30>>, <<191,237,180,52,45,162,220,152>>,
            <<191,238,100,41,229,102,44,211>>, <<191,238,245,142,203,40,170,175>>, <<191,239,103,208,164,96,122,165>>, <<191,239,186,124,135,80,233,127>>,
            <<191,239,237,63,78,156,252,48>>, <<191,239,255,229,236,230,254,171>>, <<191,239,242,93,160,40,220,29>>, <<191,239,196,180,4,145,190,81>>,
            <<191,239,119,23,6,213,214,31>>, <<191,239,9,212,181,254,52,142>>, <<191,238,125,90,244,231,10,48>>, <<191,237,210,55,11,187,90,100>>,
            <<191,237,9,21,25,221,32,224>>, <<191,236,34,191,104,201,37,81>>, <<191,235,32,29,160,164,45,10>>, <<191,234,2,51,223,62,127,106>>,
            <<191,232,202,33,178,119,186,160>>, <<191,231,121,32,247,10,161,216>>, <<191,230,16,132,156,227,27,140>>, <<191,228,145,183,82,60,12,37>>,
            <<191,226,254,58,22,220,176,60>>, <<191,225,87,162,184,226,119,210>>, <<191,223,63,52,121,62,101,134>>, <<191,219,175,182,98,71,140,111>>,
            <<191,216,4,95,230,78,94,219>>, <<191,212,64,225,192,16,37,236>>, <<191,208,105,4,245,114,169,146>>, <<191,201,1,78,17,221,20,170>>,
            <<191,193,23,108,44,188,162,234>>, <<191,178,56,179,124,116,76,69>>, <<191,129,129,217,45,96,131,218>>, <<63,171,180,225,70,231,120,82>>,
            <<63,189,215,45,160,212,162,13>>, <<63,198,218,243,203,209,119,15>>, <<63,206,179,84,62,21,113,156>>, <<63,211,54,106,31,214,120,62>>,
            <<63,214,255,215,123,110,165,221>>, <<63,218,178,35,51,255,207,222>>, <<63,222,73,149,143,86,163,98>>, <<63,224,225,72,234,8,131,157>>,
            <<63,226,140,204,245,210,192,36>>, <<63,228,37,168,242,206,58,86>>, <<63,229,170,65,172,55,128,86>>, <<63,231,25,16,78,85,41,214>>,
            <<63,232,112,163,239,137,78,230>>, <<63,233,175,163,3,89,110,36>>, <<63,234,212,204,181,246,192,217>>, <<63,235,222,250,46,233,57,239>>,
            <<63,236,205,31,185,153,100,224>>, <<63,237,158,77,210,142,74,4>>, <<63,238,81,178,24,80,241,24>>, <<63,238,230,152,31,2,210,218>>,
            <<63,239,92,106,37,210,235,105>>, <<63,239,178,177,173,154,160,5>>, <<63,239,233,23,240,10,226,226>>, <<63,239,255,102,54,242,41,77>>,
            <<63,239,245,134,19,66,232,143>>, <<63,239,203,129,115,163,162,243>>, <<63,239,129,130,154,113,168,206>>, <<63,239,23,211,243,64,162,131>>,
            <<63,238,142,223,200,1,162,116>>, <<63,237,231,47,214,29,11,144>>, <<63,237,33,108,195,234,174,73>>, <<63,236,62,93,119,19,199,154>>,
            <<63,235,62,230,76,136,220,74>>, <<63,234,36,8,50,213,147,125>>, <<63,232,238,223,167,184,51,72>>, <<63,231,160,163,154,2,53,115>>,
            <<63,230,58,164,48,224,117,188>>, <<63,228,190,73,121,197,239,80>>, <<63,227,45,17,254,77,125,208>>, <<63,225,136,145,67,125,253,163>>,
            <<63,223,164,220,103,232,224,71>>, <<63,220,24,194,237,23,114,236>>, <<63,216,112,103,102,93,81,180>>, <<63,212,175,119,143,33,24,148>>,
            <<63,208,217,185,219,56,149,115>>, <<63,201,230,19,85,206,110,107>>, <<63,193,254,166,211,168,123,228>>, <<63,180,10,66,115,106,228,215>>,
            <<63,144,12,62,42,210,153,129>>, <<191,168,16,88,165,103,165,235>>, <<191,188,7,78,85,206,145,241>>, <<191,197,245,31,237,158,179,56>>,
            <<191,205,208,131,76,198,144,202>>, <<191,210,198,245,44,189,147,42>>, <<191,214,146,198,38,157,120,169>>, <<191,218,71,227,47,14,138,114>>,
            <<191,221,226,145,182,105,177,213>>, <<191,224,175,152,225,47,244,107>>, <<191,226,93,32,201,163,169,79>>, <<191,227,248,48,149,129,116,11>>,
            <<191,229,127,42,216,250,177,42>>, <<191,230,240,134,91,76,28,67>>, <<191,232,74,207,162,56,81,137>>, <<191,233,140,170,103,163,218,29>>,
            <<191,234,180,210,247,219,47,3>>, <<191,235,194,31,119,33,205,164>>, <<191,236,179,129,13,67,240,168>>, <<191,237,136,4,245,252,93,166>>,
            <<191,238,62,213,117,29,203,155>>, <<191,238,215,58,173,136,203,240>>, <<191,239,80,155,90,23,74,64>>, <<191,239,170,125,103,194,197,160>>,
            <<191,239,228,134,112,106,203,10>>, <<191,239,254,124,21,191,229,117>>, <<191,239,248,68,59,247,178,19>>, <<191,239,209,229,36,15,6,9>>,
            <<191,239,139,133,101,127,196,251>>, <<191,239,37,107,199,112,165,30>>, <<191,238,159,254,249,134,39,150>>, <<191,237,251,197,44,155,228,168>>,
            <<191,237,57,99,139,206,168,179>>, <<191,236,89,157,150,94,154,3>>, <<191,235,93,84,91,16,148,69>>, <<191,234,69,133,149,213,4,64>>,
            <<191,233,19,74,176,150,179,225>>, <<191,231,199,215,168,51,193,187>>, <<191,230,100,121,214,187,225,104>>, <<191,228,234,150,164,44,191,14>>,
            <<191,227,91,170,30,252,173,185>>, <<191,225,185,69,125,221,199,76>>, <<191,224,5,13,140,57,190,8>>, <<191,220,129,114,5,247,216,48>>,
            <<191,216,220,29,158,168,65,157>>, <<191,213,29,200,146,89,18,194>>, <<191,209,74,54,182,65,10,25>>, <<191,202,202,130,119,54,192,253>>,
            <<191,194,229,165,161,158,80,76>>, <<191,181,219,142,195,252,73,209>>, <<191,151,87,90,95,156,197,120>>, <<63,164,107,127,251,156,182,120>>,
            <<63,186,55,17,210,230,204,25>>, <<63,197,15,3,8,125,173,111>>, <<63,204,237,79,50,253,197,173>>, <<63,210,87,65,198,126,252,106>>,
            <<63,214,37,105,190,140,229,132>>, <<63,217,221,75,194,69,186,206>>, <<63,221,123,42,120,245,116,155>>, <<63,224,125,177,89,183,25,168>>,
            <<63,226,45,55,138,71,204,147>>, <<63,227,202,117,205,232,100,234>>, <<63,229,83,204,135,29,212,205>>, <<63,230,199,176,29,55,15,38>>,
            <<63,232,36,170,138,42,114,157>>, <<63,233,105,92,210,194,11,102>>, <<63,234,148,128,103,154,7,1>>, <<63,235,164,232,109,144,32,101>>,
            <<63,236,153,130,236,88,242,141>>, <<63,237,113,89,226,10,126,198>>, <<63,238,43,148,58,135,252,103>>, <<63,238,199,118,169,212,153,201>>,
            <<63,239,68,100,104,114,229,210>>, <<63,239,161,223,209,18,135,213>>, <<63,239,223,138,222,238,67,184>>, <<63,239,253,39,140,90,224,87>>,
            <<63,239,250,152,17,39,245,204>>, <<63,239,215,223,0,147,223,118>>, <<63,239,149,31,70,180,183,249>>, <<63,239,50,156,5,88,230,120>>,
            <<63,238,176,184,80,130,201,86>>, <<63,238,15,246,202,194,243,77>>, <<63,237,80,249,33,213,210,48>>, <<63,236,116,127,108,8,54,61>>,
            <<63,235,123,103,103,6,236,66>>, <<63,234,102,171,152,219,38,242>>, <<63,233,55,98,83,244,93,38>>, <<63,231,238,188,159,60,238,64>>,
            <<63,230,142,5,3,82,217,206>>, <<63,229,22,158,62,25,188,13>>, <<63,227,138,1,221,243,81,130>>, <<63,225,233,190,198,6,158,28>>,
            <<63,224,55,119,157,18,120,241>>, <<63,220,233,194,80,191,94,49>>, <<63,217,71,129,40,244,0,28>>, <<63,213,139,211,90,210,231,110>>,
            <<63,209,186,122,16,110,145,140>>, <<63,203,174,152,126,90,32,117>>, <<63,195,204,101,150,93,11,183>>, <<63,183,172,146,98,167,78,231>>,
            <<63,158,162,40,243,93,157,189>>, <<191,160,198,99,104,3,205,198>>, <<191,184,102,126,32,22,131,181>>, <<191,196,40,160,25,191,102,12>>,
            <<191,204,9,186,228,95,63,131>>, <<191,209,231,81,96,154,131,147>>, <<191,213,183,195,174,244,147,252>>, <<191,217,114,94,80,39,18,96>>,
            <<191,221,19,97,46,224,227,181>>, <<191,224,75,146,249,151,49,237>>, <<191,225,253,17,215,23,89,126>>, <<191,227,156,121,52,25,208,238>>,
            <<191,229,40,39,70,221,125,255>>, <<191,230,158,142,27,231,23,158>>, <<191,231,254,53,38,60,221,172>>, <<191,233,69,186,186,29,130,154>>,
            <<191,234,115,213,112,179,20,105>>, <<191,235,135,85,115,94,53,25>>, <<191,236,127,37,173,74,235,104>>, <<191,237,90,76,226,28,193,85>>,
            <<191,238,23,238,168,153,80,95>>, <<191,238,183,76,72,85,86,48>>, <<191,239,55,197,121,133,112,247>>, <<191,239,152,217,6,49,78,65>>,
            <<191,239,218,37,76,39,161,60>>, <<191,239,251,104,159,47,171,5>>, <<191,239,252,129,139,22,15,141>>, <<191,239,221,110,245,82,30,73>>,
            <<191,239,158,80,30,34,4,40>>, <<191,239,63,100,129,28,151,133>>, <<191,238,193,11,149,88,133,42>>, <<191,238,35,196,109,104,236,46>>,
            <<191,237,104,45,55,144,26,113>>, <<191,236,143,2,158,168,196,29>>, <<191,235,153,31,12,102,18,6>>, <<191,234,135,121,205,168,241,240>>,
            <<191,233,91,38,25,199,182,127>>, <<191,232,21,81,253,194,141,145>>, <<191,230,183,69,44,122,138,28>>, <<191,229,66,95,181,29,82,153>>,
            <<191,227,184,24,161,16,116,32>>, <<191,226,25,252,122,193,47,27>>, <<191,224,105,171,190,211,47,215>>, <<191,221,81,178,114,128,17,171>>,
            <<191,217,178,144,160,24,59,171>>, <<191,213,249,150,122,147,86,169>>, <<191,210,42,130,116,98,244,181>>, <<191,204,146,82,116,164,248,27>>,
            <<191,196,178,227,178,117,93,209>>, <<191,185,125,71,68,220,141,64>>, <<191,162,246,72,210,179,20,41>>, <<63,154,66,30,19,253,218,237>>,
            <<63,182,149,153,70,120,100,200>>, <<63,195,65,250,31,158,11,81>>, <<63,203,37,201,85,207,36,252>>, <<63,209,119,37,111,90,123,116>>,
            <<63,213,73,213,100,128,200,22>>, <<63,217,7,28,60,81,228,214>>, <<63,220,171,55,49,89,15,175>>, <<63,224,25,62,103,128,13,246>>,
            <<63,225,204,176,80,51,141,171>>, <<63,227,110,59,97,7,113,129>>, <<63,228,252,59,169,98,3,173>>, <<63,230,117,32,224,41,56,186>>,
            <<63,231,215,111,246,87,172,90>>, <<63,233,33,196,148,56,213,80>>, <<63,234,82,210,127,204,63,133>>, <<63,235,105,102,234,231,221,113>>,
            <<63,236,100,105,167,200,202,88>>, <<63,237,66,222,66,220,229,59>>, <<63,238,3,229,0,169,70,186>>, <<63,238,166,187,190,206,147,57>>,
            <<63,239,42,190,183,72,120,131>>, <<63,239,143,105,37,36,110,51>>, <<63,239,212,85,202,9,196,98>>, <<63,239,249,63,84,12,173,188>>,
            <<63,239,254,0,163,102,20,135>>, <<63,239,226,148,239,201,236,57>>, <<63,239,167,23,205,54,128,20>>, <<63,239,75,197,16,55,244,19>>,
            <<63,238,208,248,145,187,208,171>>, <<63,238,55,45,210,177,10,98>>, <<63,237,126,255,127,209,202,113>>, <<63,236,169,38,214,19,42,151>>,
            <<63,235,182,122,232,88,79,250>>, <<63,234,167,239,199,35,71,131>>, <<63,233,126,149,139,30,22,27>>, <<63,232,59,151,67,114,32,94>>,
            <<63,230,224,57,201,1,152,242>>, <<63,229,109,218,119,177,86,81>>, <<63,227,229,237,207,11,102,192>>, <<63,226,73,253,251,156,128,22>>,
            <<63,224,155,169,74,131,209,206>>, <<63,221,185,65,17,139,122,18>>, <<63,218,29,74,160,4,65,56>>, <<63,214,103,16,132,141,85,190>>,
            <<63,210,154,78,109,131,185,68>>, <<63,205,117,173,100,182,35,145>>, <<63,197,153,28,247,82,181,89>>, <<63,187,77,167,97,18,123,19>>,
            <<63,166,155,62,27,42,33,211>>, <<191,146,247,30,3,77,73,98>>, <<191,180,196,105,80,53,255,188>>, <<191,194,91,20,25,50,198,20>>,
            <<191,202,65,125,125,103,128,69>>, <<191,209,6,191,103,207,94,85>>, <<191,212,219,160,76,206,29,82>>, <<191,216,155,134,235,127,115,227>>,
            <<191,220,66,173,218,204,136,228>>, <<191,223,205,104,149,171,39,168>>, <<191,225,156,19,150,132,160,48>>, <<191,227,63,188,238,123,223,160>>,
            <<191,228,208,10,64,189,205,166>>, <<191,230,75,104,243,196,202,0>>, <<191,231,176,91,123,108,102,194>>, <<191,232,253,122,216,174,35,236>>,
            <<191,234,49,120,2,175,238,64>>, <<191,235,75,29,55,185,106,235>>, <<191,236,73,79,52,188,150,70>>, <<191,237,43,14,82,57,80,205>>,
            <<191,237,239,119,133,92,77,199>>, <<191,238,149,197,68,87,164,78>>, <<191,239,29,80,77,14,215,176>>, <<191,239,133,144,77,78,181,197>>,
            <<191,239,206,28,107,231,229,63>>, <<191,239,246,171,178,34,16,248>>, <<191,239,255,21,85,29,232,109>>, <<191,239,231,80,222,219,229,158>>,
            <<191,239,175,118,54,190,190,231>>, <<191,239,87,189,137,128,229,49>>, <<191,238,224,127,16,181,65,139>>, <<191,238,74,50,186,11,239,162>>,
            <<191,237,149,111,174,180,107,33>>, <<191,236,194,235,187,86,52,254>>, <<191,235,211,122,153,57,20,173>>, <<191,234,200,13,25,84,150,177>>,
            <<191,233,161,176,50,29,112,240>>, <<191,232,97,139,241,3,139,6>>, <<191,231,8,226,80,177,251,199>>, <<191,229,153,13,245,58,181,198>>,
            <<191,228,19,128,207,117,139,183>>, <<191,226,121,194,168,239,155,104>>, <<191,224,205,111,153,225,230,247>>, <<191,222,32,108,213,119,194,61>>,
            <<191,218,135,173,197,195,156,91>>, <<191,214,212,64,12,167,9,129>>, <<191,211,9,220,135,255,177,52>>, <<191,206,88,166,90,103,204,137>>,
            <<191,198,127,14,103,69,117,2>>, <<191,189,29,172,174,217,127,216>>, <<191,170,63,232,52,55,164,201>>, <<63,135,87,189,190,150,238,175>>,
            <<63,178,242,244,72,114,180,151>>, <<63,193,115,241,6,107,131,32>>, <<63,201,92,218,82,111,96,50>>, <<63,208,150,32,191,202,214,160>>,
            <<63,212,109,37,214,100,168,195>>, <<63,216,47,159,195,125,127,58>>, <<63,219,217,198,134,231,82,22>>, <<63,223,103,234,151,91,146,51>>,
            <<63,225,107,60,75,183,170,124>>, <<63,227,16,254,119,24,199,104>>, <<63,228,163,147,159,235,98,239>>, <<63,230,33,102,225,121,93,124>>,
            <<63,231,136,248,55,116,65,89>>, <<63,232,216,222,0,45,129,203>>, <<63,234,15,198,104,75,186,186>>, <<63,235,44,120,190,142,99,191>>,
            <<63,236,45,214,174,74,128,210>>, <<63,237,18,221,95,100,39,212>>, <<63,237,218,166,122,162,190,141>>, <<63,238,132,105,17,90,230,240>>,
            <<63,239,15,122,103,132,36,44>>, <<63,239,123,78,159,112,13,73>>, <<63,239,199,121,70,117,73,90>>, <<63,239,243,173,194,1,170,65>>,
            <<63,239,255,191,156,165,78,3>>, <<63,239,235,162,178,201,90,217>>, <<63,239,183,107,62,229,113,138>>, <<63,239,99,77,197,39,127,21>>,
            <<63,238,239,158,222,162,87,237>>, <<63,238,92,210,228,56,102,62>>, <<63,237,171,125,121,151,200,96>>, <<63,236,220,80,248,189,180,47>>,
            <<63,235,240,29,190,150,112,46>>, <<63,234,231,209,89,110,30,56>>, <<63,233,196,117,154,5,148,251>>, <<63,232,135,47,136,58,199,52>>,
            <<63,231,49,62,60,82,143,105>>, <<63,229,195,249,158,11,103,134>>, <<63,228,64,209,10,188,106,148>>, <<63,226,169,73,227,219,255,74>>,
            <<63,224,254,254,7,98,130,230>>, <<63,222,135,52,103,35,191,196>>, <<63,218,241,184,175,130,179,220>>, <<63,215,65,35,167,190,9,141>>,
            <<63,211,121,43,80,211,84,118>>, <<63,207,59,58,98,218,241,168>>, <<63,199,100,181,5,141,36,232>>, <<63,190,237,81,38,240,131,224>>,
            <<63,173,228,58,255,248,87,202>>, <<191,113,129,227,168,126,242,37>>, <<191,177,33,64,59,54,153,248>>, <<191,192,140,147,232,1,246,184>>,
            <<191,200,119,226,205,79,131,113>>, <<191,208,37,74,237,218,227,164>>, <<191,211,254,103,112,179,23,162>>, <<191,215,195,104,43,42,20,24>>,
            <<191,219,112,130,146,141,176,40>>, <<191,223,2,4,37,157,16,69>>, <<191,225,58,43,18,60,142,160>>, <<191,226,226,0,150,84,153,84>>,
            <<191,228,118,216,90,203,128,243>>, <<191,229,247,27,52,253,77,210>>, <<191,231,97,70,173,110,151,242>>, <<191,232,179,238,132,123,140,24>>,
            <<191,233,237,190,32,174,249,116>>, <<191,235,13,121,229,80,51,217>>, <<191,236,18,0,111,207,134,200>>, <<191,236,250,75,186,210,28,252>>,
            <<191,237,197,114,37,184,39,166>>, <<191,238,114,167,95,149,7,29>>, <<191,239,1,61,52,172,40,212>>, <<191,239,112,164,61,165,7,236>>,
            <<191,239,192,108,111,197,3,27>>, <<191,239,240,69,141,158,219,7>>, <<191,239,255,255,119,197,243,19>>, <<191,239,239,138,93,52,126,248>>,
            <<191,239,190,246,203,51,195,51>>, <<191,239,110,117,156,182,124,133>>, <<191,238,254,87,201,54,24,149>>, <<191,238,111,14,19,68,87,183>>,
            <<191,237,193,40,151,34,239,12>>, <<191,236,245,86,57,211,162,99>>, <<191,236,12,99,249,50,52,130>>, <<191,235,7,60,29,201,88,214>>,
            <<191,233,230,229,79,49,241,32>>, <<191,232,172,129,139,233,94,130>>, <<191,231,89,77,5,169,28,156>>, <<191,229,238,156,227,100,71,250>>,
            <<191,228,109,221,234,43,118,159>>, <<191,226,216,147,14,79,121,123>>, <<191,225,48,83,238,52,189,27>>, <<191,222,237,150,112,187,160,195>>,
            <<191,219,91,105,252,147,98,123>>, <<191,215,173,185,235,172,203,160>>, <<191,211,232,57,85,205,177,158>>, <<191,208,14,179,70,63,161,164>>,
            <<191,200,74,13,214,97,102,64>>, <<191,192,94,71,97,171,128,77>>, <<191,176,196,21,48,213,167,213>>, <<191,103,87,220,204,123,175,130>>,
            <<63,174,158,166,106,183,190,123>>, <<63,191,73,255,126,224,71,122>>, <<63,199,146,153,231,137,50,235>>, <<63,207,104,126,210,137,247,175>>,
            <<63,211,143,102,140,10,98,205>>, <<63,215,86,225,138,110,198,97>>, <<63,219,6,227,91,215,247,76>>, <<63,222,155,182,147,87,13,100>>,
            <<63,225,8,224,141,67,205,131>>, <<63,226,178,195,232,120,184,35>>, <<63,228,73,217,6,35,47,174>>, <<63,229,204,134,122,251,157,34>>,
            <<63,231,57,71,97,94,249,70>>, <<63,232,142,172,224,111,142,87>>, <<63,233,203,95,157,9,68,156>>, <<63,234,238,33,19,20,209,67>>,
            <<63,235,245,204,213,224,93,218>>, <<63,236,225,89,182,57,128,68>>, <<63,237,175,218,205,34,63,78>>, <<63,238,96,128,106,20,58,59>>,
            <<63,238,242,152,227,226,53,227>>, <<63,239,101,145,75,102,114,71>>, <<63,239,184,245,255,73,174,173>>, <<63,239,236,115,32,78,114,65>>,
            <<63,239,255,212,229,171,119,161>>, <<63,239,243,7,209,32,153,209>>, <<63,239,198,24,194,145,179,84>>, <<63,239,121,52,235,19,209,191>>,
            <<63,239,12,169,159,121,184,148>>, <<63,238,128,228,10,141,113,238>>, <<63,237,214,112,191,69,9,79>>, <<63,237,13,251,43,97,32,199>>,
            <<63,236,40,76,235,3,58,126>>, <<63,235,38,76,253,233,101,31>>, <<63,234,8,254,223,26,239,50>>, <<63,232,209,129,127,240,72,186>>,
            <<63,231,129,14,39,123,244,180>>, <<63,230,24,247,55,118,244,35>>, <<63,228,154,166,215,238,78,153>>, <<63,227,7,157,139,6,66,39>>,
            <<63,225,97,112,170,67,171,242>>, <<63,223,83,145,157,188,236,136>>, <<63,219,196,192,77,113,168,179>>, <<63,216,26,1,111,78,224,56>>,
            <<63,212,87,5,37,149,61,25>>, <<63,208,127,147,243,143,80,102>>, <<63,201,47,21,222,253,89,80>>, <<63,193,69,175,191,178,65,68>>,
            <<63,178,149,213,30,237,33,244>>, <<63,132,108,204,209,202,138,114>>, <<191,170,250,102,136,244,91,166>>, <<191,189,122,111,29,206,179,220>>,
            <<191,198,173,2,155,173,26,30>>, <<191,206,133,255,84,2,27,103>>, <<191,211,32,36,153,152,79,169>>, <<191,214,234,13,74,60,3,156>>,
            <<191,218,156,234,66,14,85,249>>, <<191,222,53,3,52,199,157,30>>, <<191,224,215,93,96,188,158,71>>, <<191,226,131,73,10,159,100,80>>,
            <<191,228,28,150,55,153,198,118>>, <<191,229,161,169,65,18,79,52>>, <<191,231,16,250,216,75,155,0>>, <<191,232,105,25,143,242,58,219>>,
            <<191,233,168,171,79,168,250,17>>, <<191,234,206,110,176,29,135,195>>, <<191,235,217,60,62,72,57,99>>, <<191,236,200,7,164,145,33,189>>,
            <<191,237,153,224,184,176,15,148>>, <<191,238,77,244,109,55,142,185>>, <<191,238,227,141,165,216,142,90>>, <<191,239,90,21,237,136,220,103>>,
            <<191,239,177,22,13,213,24,108>>, <<191,239,232,54,134,198,134,20>>, <<191,239,255,63,230,227,112,226>>, <<191,239,246,27,2,242,47,135>>,
            <<191,239,204,209,13,70,97,87>>, <<191,239,131,139,140,129,27,24>>, <<191,239,26,148,49,205,64,41>>, <<191,238,146,84,142,194,20,8>>,
            <<191,237,235,85,171,54,113,237>>, <<191,237,38,63,123,111,187,253>>, <<191,236,67,216,55,54,154,138>>, <<191,235,69,3,146,124,63,5>>,
            <<191,234,42,193,216,87,122,137>>, <<191,232,246,46,233,65,95,67>>, <<191,231,168,129,29,147,140,89>>, <<191,230,67,8,13,103,172,186>>,
            <<191,228,199,43,63,18,125,72>>, <<191,227,54,104,189,141,6,243>>, <<191,225,146,83,152,56,94,50>>, <<191,223,185,36,154,251,152,123>>,
            <<191,220,45,186,67,199,202,105>>, <<191,216,133,248,202,133,193,164>>, <<191,212,197,141,79,172,187,209>>, <<191,208,240,61,193,242,242,231>>,
            <<191,202,19,202,37,168,138,93>>, <<191,194,44,222,171,236,90,157>>, <<191,180,103,87,61,65,105,22>>, <<191,145,129,175,65,43,28,251>>,
            <<63,167,85,204,237,165,14,244>>, <<63,187,170,124,178,139,106,214>>, <<63,197,199,31,229,79,229,197>>, <<63,205,163,26,81,106,51,18>>,
            <<63,210,176,163,11,99,29,169>>, <<63,214,124,236,212,132,98,134>>, <<63,218,50,152,165,163,150,220>>, <<63,221,205,235,95,127,127,26>>,
            <<63,224,165,162,49,82,110,77>>, <<63,226,83,144,154,177,164,125>>, <<63,227,239,16,133,183,43,245>>, <<63,229,118,132,21,208,134,253>>,
            <<63,230,232,97,152,59,148,150>>, <<63,232,67,53,15,251,199,99>>, <<63,233,133,161,171,249,229,91>>, <<63,234,174,99,37,213,97,192>>,
            <<63,235,188,79,8,7,146,104>>, <<63,236,174,85,218,15,89,133>>, <<63,237,131,132,49,121,1,218>>, <<63,238,59,3,166,174,5,103>>,
            <<63,238,212,27,172,151,210,228>>, <<63,239,78,50,74,60,27,251>>, <<63,239,168,204,181,151,241,243>>, <<63,239,227,143,207,30,73,139>>,
            <<63,239,254,64,125,93,103,188>>, <<63,239,248,195,232,111,44,219>>, <<63,239,211,31,148,248,104,236>>, <<63,239,141,121,94,156,23,19>>,
            <<63,239,40,23,81,232,44,200>>, <<63,238,163,95,101,225,255,167>>, <<63,237,255,215,21,121,135,209>>, <<63,237,62,34,217,74,70,166>>,
            <<63,236,95,5,130,48,225,85>>, <<63,235,99,95,117,92,74,151>>, <<63,234,76,45,202,158,121,42>>, <<63,233,26,137,77,225,10,178>>,
            <<63,231,207,165,100,188,116,163>>, <<63,230,108,206,217,78,252,155>>, <<63,228,243,106,139,137,117,80>>, <<63,227,100,244,10,66,243,80>>,
            <<63,225,194,252,21,124,75,31>>, <<63,224,15,39,11,82,255,225>>, <<63,220,150,86,130,115,165,251>>, <<63,216,241,158,150,61,159,50>>,
            <<63,213,51,208,100,119,147,149>>, <<63,209,96,175,58,183,116,176>>, <<63,202,248,39,177,193,22,6>>, <<63,195,19,209,37,121,109,138>>,
            <<63,182,56,149,127,157,96,109>>, <<63,152,204,189,224,25,95,57>>, <<191,163,176,229,182,118,68,213>>, <<191,185,218,46,68,26,50,192>>,
            <<191,196,224,244,193,1,83,171>>, <<191,204,191,210,189,94,230,184>>, <<191,210,64,227,84,68,122,178>>, <<191,214,15,129,148,55,209,65>>,
            <<191,217,199,239,232,49,0,103>>, <<191,221,102,112,106,93,147,53>>, <<191,224,115,175,164,107,42,41>>, <<191,226,35,155,55,101,108,165>>,
            <<191,227,193,72,135,225,138,122>>, <<191,229,75,23,136,180,172,123>>, <<191,230,191,124,40,53,22,63>>, <<191,232,28,255,222,146,118,64>>,
            <<191,233,98,67,38,131,134,184>>, <<191,234,141,254,222,208,15,38>>, <<191,235,159,5,147,82,235,175>>, <<191,236,148,68,172,40,198,5>>,
            <<191,237,108,197,129,219,235,191>>, <<191,238,39,174,85,117,210,193>>, <<191,238,196,67,43,126,66,179>>, <<191,239,65,230,137,10,218,120>>,
            <<191,239,160,26,18,33,121,40>>, <<191,239,222,127,8,205,221,193>>, <<191,239,252,214,172,106,209,135>>, <<191,239,251,2,120,191,5,64>>,
            <<191,239,217,4,68,174,29,162>>, <<191,239,150,254,64,95,24,189>>, <<191,239,53,50,210,217,252,83>>, <<191,238,180,4,87,63,30,213>>,
            <<191,238,19,244,185,219,155,35>>, <<191,237,85,164,245,126,20,168>>, <<191,236,121,212,113,143,71,208>>, <<191,235,129,96,65,145,133,140>>,
            <<191,234,109,66,70,200,65,62>>, <<191,233,62,144,52,231,176,178>>, <<191,231,246,122,122,200,227,205>>, <<191,230,150,75,16,59,218,154>>,
            <<191,229,31,100,42,42,137,152>>, <<191,227,147,62,214,91,194,187>>, <<191,225,243,105,128,59,57,67>>, <<191,224,65,134,96,36,177,115>>,
            <<191,220,254,147,173,138,87,41>>, <<191,217,92,241,108,113,145,115>>, <<191,213,161,204,245,63,71,137>>, <<191,209,208,230,231,229,29,54>>,
            <<191,203,220,43,139,197,201,118>>, <<191,195,250,132,44,65,229,250>>, <<191,184,9,137,218,175,26,99>>, <<191,160,11,189,2,22,9,53>>,
            <<63,160,11,189,2,22,134,249>>, <<63,184,9,137,218,175,89,6>>, <<63,195,250,132,44,66,5,13>>, <<63,203,220,43,139,197,169,179>>,
            <<63,209,208,230,231,229,44,81>>, <<63,213,161,204,245,63,86,86>>, <<63,217,92,241,108,113,159,228>>, <<63,220,254,147,173,138,101,47>>,
            <<63,224,65,134,96,36,184,57>>, <<63,225,243,105,128,59,63,198>>, <<63,227,147,62,214,91,188,75>>, <<63,229,31,100,42,42,143,129>>,
            <<63,230,150,75,16,59,212,214>>, <<63,231,246,122,122,200,233,3>>, <<63,233,62,144,52,231,171,178>>, <<63,234,109,66,70,200,69,174>>,
            <<63,235,129,96,65,145,137,144>>, <<63,236,121,212,113,143,75,102>>, <<63,237,85,164,245,126,23,204>>, <<63,238,19,244,185,219,157,210>>,
            <<63,238,180,4,87,63,33,12>>, <<63,239,53,50,210,217,250,134>>, <<63,239,150,254,64,95,28,141>>, <<63,239,217,4,68,174,28,215>>,
            <<63,239,251,2,120,191,5,135>>, <<63,239,252,214,172,106,209,79>>, <<63,239,222,127,8,205,221,11>>, <<63,239,160,26,18,33,119,245>>,
            <<63,239,65,230,137,10,216,201>>, <<63,238,196,67,43,126,64,138>>, <<63,238,39,174,85,117,213,122>>, <<63,237,108,197,129,219,232,168>>,
            <<63,236,148,68,172,40,194,123>>, <<63,235,159,5,147,82,231,182>>, <<63,234,141,254,222,208,10,194>>, <<63,233,98,67,38,131,129,238>>,
            <<63,232,28,255,222,146,113,20>>, <<63,230,191,124,40,53,27,248>>, <<63,229,75,23,136,180,166,157>>, <<63,227,193,72,135,225,144,224>>,
            <<63,226,35,155,55,101,102,43>>, <<63,224,115,175,164,107,49,35>>, <<63,221,102,112,106,93,133,61>>, <<63,217,199,239,232,48,242,1>>,
            <<63,214,15,129,148,55,224,135>>, <<63,210,64,227,84,68,107,159>>, <<63,204,191,210,189,95,6,110>>, <<63,196,224,244,193,1,52,162>>,
            <<63,185,218,46,68,26,115,129>>, <<63,163,176,229,182,117,199,24>>, <<191,152,204,189,224,26,90,207>>, <<191,182,56,149,127,157,159,26>>,
            <<191,195,19,209,37,121,140,165>>, <<191,202,248,39,177,193,52,198>>, <<191,209,96,175,58,183,131,211>>, <<191,213,51,208,100,119,132,58>>,
            <<191,216,241,158,150,61,173,175>>, <<191,220,150,86,130,115,151,108>>, <<191,224,15,39,11,83,6,174>>, <<191,225,194,252,21,124,81,169>>,
            <<191,227,100,244,10,66,249,145>>, <<191,228,243,106,139,137,123,65>>, <<191,230,108,206,217,79,2,56>>, <<191,231,207,165,100,188,121,228>>,
            <<191,233,26,137,77,225,5,166>>, <<191,234,76,45,202,158,125,165>>, <<191,235,99,95,117,92,78,168>>, <<191,236,95,5,130,48,236,95>>,
            <<191,237,62,34,217,74,73,216>>, <<191,237,255,215,21,121,138,141>>, <<191,238,163,95,101,226,1,236>>, <<191,239,40,23,81,232,42,237>>,
            <<191,239,141,121,94,156,24,98>>, <<191,239,211,31,148,248,104,18>>, <<191,239,248,195,232,111,45,47>>, <<191,239,254,64,125,93,103,231>>,
            <<191,239,227,143,207,30,72,228>>, <<191,239,168,204,181,151,240,206>>, <<191,239,78,50,74,60,29,170>>, <<191,238,212,27,172,151,208,200>>,
            <<191,238,59,3,166,174,2,211>>, <<191,237,131,132,49,120,254,208>>, <<191,236,174,85,218,15,93,33>>, <<191,235,188,79,8,7,142,124>>,
            <<191,234,174,99,37,213,102,62>>, <<191,233,133,161,171,249,224,156>>, <<191,232,67,53,15,251,194,66>>, <<191,230,232,97,152,59,143,24>>,
            <<191,229,118,132,21,208,129,39>>, <<191,227,239,16,133,183,50,82>>, <<191,226,83,144,154,177,158,11>>, <<191,224,165,162,49,82,117,64>>,
            <<191,221,205,235,95,127,113,47>>, <<191,218,50,152,165,163,136,130>>, <<191,214,124,236,212,132,83,204>>, <<191,210,176,163,11,99,14,158>>,
            <<191,205,163,26,81,106,20,120>>, <<191,197,199,31,229,79,198,197>>, <<191,187,170,124,178,139,171,139>>, <<191,167,85,204,237,164,145,65>>,
            <<63,145,129,175,65,44,24,154>>, <<63,180,103,87,61,65,167,205>>, <<63,194,44,222,171,236,58,103>>, <<63,202,19,202,37,168,169,41>>,
            <<63,208,240,61,193,243,2,18>>, <<63,212,197,141,79,172,172,109>>, <<63,216,133,248,202,133,208,43>>, <<63,220,45,186,67,199,216,136>>,
            <<63,223,185,36,154,251,166,36>>, <<63,225,146,83,152,56,87,101>>, <<63,227,54,104,189,141,13,61>>, <<63,228,199,43,63,18,131,68>>,
            <<63,230,67,8,13,103,178,96>>, <<63,231,168,129,29,147,145,164>>, <<63,232,246,46,233,65,100,46>>, <<63,234,42,193,216,87,127,16>>,
            <<63,235,69,3,146,124,58,195>>, <<63,236,67,216,55,54,158,58>>, <<63,237,38,63,123,111,184,161>>, <<63,237,235,85,171,54,116,184>>,
            <<63,238,146,84,142,194,22,91>>, <<63,239,26,148,49,205,66,3>>, <<63,239,131,139,140,129,28,117>>, <<63,239,204,209,13,70,96,110>>,
            <<63,239,246,27,2,242,47,234>>, <<63,239,255,63,230,227,112,254>>, <<63,239,232,54,134,198,133,122>>, <<63,239,177,22,13,213,23,85>>,
            <<63,239,90,21,237,136,218,212>>, <<63,238,227,141,165,216,144,122>>, <<63,238,77,244,109,55,140,51>>, <<63,237,153,224,184,176,12,152>>,
            <<63,236,200,7,164,145,37,76>>, <<63,235,217,60,62,72,53,131>>, <<63,234,206,110,176,29,131,120>>, <<63,233,168,171,79,168,245,94>>,
            <<63,232,105,25,143,242,64,30>>, <<63,231,16,250,216,75,149,141>>, <<63,229,161,169,65,18,73,104>>, <<63,228,28,150,55,153,204,202>>,
            <<63,226,131,73,10,159,93,230>>, <<63,224,215,93,96,188,151,151>>, <<63,222,53,3,52,199,143,64>>, <<63,218,156,234,66,14,100,197>>,
            <<63,214,234,13,74,59,244,237>>, <<63,211,32,36,153,152,64,166>>, <<63,206,133,255,84,1,252,218>>, <<63,198,173,2,155,172,251,40>>,
            <<63,189,122,111,29,206,117,93>>, <<63,170,250,102,136,243,221,254>>, <<191,132,108,204,209,200,129,202>>, <<191,178,149,213,30,237,96,180>>,
            <<191,193,69,175,191,178,33,6>>, <<191,201,47,21,222,253,120,39>>, <<191,208,127,147,243,143,95,153>>, <<191,212,87,5,37,149,76,3>>,
            <<191,216,26,1,111,78,238,202>>, <<191,219,196,192,77,113,182,223>>, <<191,223,83,145,157,188,250,63>>, <<191,225,97,112,170,67,165,29>>,
            <<191,227,7,157,139,6,72,122>>, <<191,228,154,166,215,238,84,157>>, <<191,230,24,247,55,118,249,211>>, <<191,231,129,14,39,123,239,47>>,
            <<191,232,209,129,127,240,77,177>>, <<191,234,8,254,223,26,243,197>>, <<191,235,38,76,253,233,96,208>>, <<191,236,40,76,235,3,62,59>>,
            <<191,237,13,251,43,97,29,94>>, <<191,237,214,112,191,69,12,39>>, <<191,238,128,228,10,141,111,120>>, <<191,239,12,169,159,121,186,123>>,
            <<191,239,121,52,235,19,211,43>>, <<191,239,198,24,194,145,178,93>>, <<191,239,243,7,209,32,154,66>>, <<191,239,255,212,229,171,119,148>>,
            <<191,239,236,115,32,78,113,182>>, <<191,239,184,245,255,73,175,191>>, <<191,239,101,145,75,102,112,194>>, <<191,238,242,152,227,226,51,227>>,
            <<191,238,96,128,106,20,55,194>>, <<191,237,175,218,205,34,60,95>>, <<191,236,225,89,182,57,124,224>>, <<191,235,245,204,213,224,90,7>>,
            <<191,234,238,33,19,20,213,168>>, <<191,233,203,95,157,9,63,245>>, <<191,232,142,172,224,111,147,143>>, <<191,231,57,71,97,94,243,221>>,
            <<191,229,204,134,122,251,151,96>>, <<191,228,73,217,6,35,41,153>>, <<191,226,178,195,232,120,177,193>>, <<191,225,8,224,141,67,198,219>>,
            <<191,222,155,182,147,86,255,147>>, <<191,219,6,227,91,216,6,12>>, <<191,215,86,225,138,110,183,188>>, <<191,211,143,102,140,10,114,75>>,
            <<191,207,104,126,210,137,217,49>>, <<191,199,146,153,231,137,82,231>>, <<191,191,73,255,126,224,9,8>>, <<191,174,158,166,106,183,64,224>>,
            <<63,103,87,220,204,115,140,204>>, <<63,176,196,21,48,213,230,157>>, <<63,192,94,71,97,171,159,128>>, <<63,200,74,13,214,97,133,35>>,
            <<63,208,14,179,70,63,145,227>>, <<63,211,232,57,85,205,192,145>>, <<63,215,173,185,235,172,218,61>>, <<63,219,91,105,252,147,112,179>>,
            <<63,222,237,150,112,187,174,137>>, <<63,225,48,83,238,52,195,190>>, <<63,226,216,147,14,79,127,214>>, <<63,228,109,221,234,43,112,92>>,
            <<63,229,238,156,227,100,77,180>>, <<63,231,89,77,5,169,33,253>>, <<63,232,172,129,139,233,99,132>>, <<63,233,230,229,79,49,245,190>>,
            <<63,235,7,60,29,201,93,12>>, <<63,236,12,99,249,50,56,75>>, <<63,236,245,86,57,211,158,237>>, <<63,237,193,40,151,34,241,241>>,
            <<63,238,111,14,19,68,85,52>>, <<63,238,254,87,201,54,26,138>>, <<63,239,110,117,156,182,125,255>>, <<63,239,190,246,203,51,196,48>>,
            <<63,239,239,138,93,52,127,119>>, <<63,239,255,255,119,197,243,20>>, <<63,239,240,69,141,158,218,139>>, <<63,239,192,108,111,197,4,30>>,
            <<63,239,112,164,61,165,6,117>>, <<63,239,1,61,52,172,42,215>>, <<63,238,114,167,95,149,4,177>>, <<63,237,197,114,37,184,42,161>>,
            <<63,236,250,75,186,210,25,166>>, <<63,236,18,0,111,207,131,1>>, <<63,235,13,121,229,80,47,166>>, <<63,233,237,190,32,174,244,216>>,
            <<63,232,179,238,132,123,135,24>>, <<63,231,97,70,173,110,146,147>>, <<63,229,247,27,52,253,83,188>>, <<63,228,118,216,90,203,122,231>>,
            <<63,226,226,0,150,84,146,251>>, <<63,225,58,43,18,60,135,255>>, <<63,223,2,4,37,157,2,131>>, <<63,219,112,130,146,141,161,243>>,
            <<63,215,195,104,43,42,5,125>>, <<63,211,254,103,112,179,39,23>>, <<63,208,37,74,237,218,212,108>>, <<63,200,119,226,205,79,100,145>>,
            <<63,192,140,147,232,1,215,135>>, <<63,177,33,64,59,54,91,49>>, <<63,113,129,227,168,123,3,131>>, <<191,173,228,58,255,248,213,104>>,
            <<191,190,237,81,38,240,67,68>>, <<191,199,100,181,5,141,67,214>>, <<191,207,59,58,98,218,210,25>>, <<191,211,121,43,80,211,99,113>>,
            <<191,215,65,35,167,189,250,100>>, <<191,218,241,184,175,130,194,33>>, <<191,222,135,52,103,35,205,151>>, <<191,224,254,254,7,98,137,143>>,
            <<191,226,169,73,227,220,5,174>>, <<191,228,64,209,10,188,100,72>>, <<191,229,195,249,158,11,109,74>>, <<191,231,49,62,60,82,137,206>>,
            <<191,232,135,47,136,58,204,65>>, <<191,233,196,117,154,5,144,40>>, <<191,234,231,209,89,110,34,122>>, <<191,235,240,29,190,150,116,4>>,
            <<191,236,220,80,248,189,183,148>>, <<191,237,171,125,121,151,203,82>>, <<191,238,92,210,228,56,104,186>>, <<191,238,239,158,222,162,89,240>>,
            <<191,239,99,77,197,39,125,128>>, <<191,239,183,107,62,229,114,149>>, <<191,239,235,162,178,201,91,103>>, <<191,239,255,191,156,165,78,19>>,
            <<191,239,243,173,194,1,169,210>>, <<191,239,199,121,70,117,72,110>>, <<191,239,123,78,159,112,11,224>>, <<191,239,15,122,103,132,38,33>>,
            <<191,238,132,105,17,90,228,146>>, <<191,237,218,166,122,162,193,123>>, <<191,237,18,221,95,100,36,139>>, <<191,236,45,214,174,74,132,173>>,
            <<191,235,44,120,190,142,95,152>>, <<191,234,15,198,104,75,182,41>>, <<191,232,216,222,0,45,134,236>>, <<191,231,136,248,55,116,60,5>>,
            <<191,230,33,102,225,121,99,92>>, <<191,228,163,147,159,235,92,237>>, <<191,227,16,254,119,24,205,240>>, <<191,225,107,60,75,183,163,227>>,
            <<191,223,103,234,151,91,132,127>>, <<191,219,217,198,134,231,67,237>>, <<191,216,47,159,195,125,112,170>>, <<191,212,109,37,214,100,153,219>>,
            <<191,208,150,32,191,202,199,112>>, <<191,201,92,218,82,111,128,24>>, <<191,193,115,241,6,107,99,246>>, <<191,178,242,244,72,114,245,127>>,
            <<191,135,87,189,190,148,247,102>>, <<63,170,63,232,52,56,34,115>>, <<63,189,29,172,174,217,190,89>>, <<63,198,127,14,103,69,147,250>>,
            <<63,206,88,166,90,103,235,25>>, <<63,211,9,220,135,255,192,56>>, <<63,214,212,64,12,166,250,78>>, <<63,218,135,173,197,195,170,171>>,
            <<63,222,32,108,213,119,208,29>>, <<63,224,205,111,153,225,237,168>>, <<63,226,121,194,168,239,161,211>>, <<63,228,19,128,207,117,145,215>>,
            <<63,229,153,13,245,58,187,147>>, <<63,231,8,226,80,177,246,33>>, <<63,232,97,139,241,3,144,30>>, <<63,233,161,176,50,29,108,17>>,
            <<63,234,200,13,25,84,154,255>>, <<63,235,211,122,153,57,16,168>>, <<63,236,194,235,187,86,56,113>>, <<63,237,149,111,174,180,110,32>>,
            <<63,238,74,50,186,11,237,2>>, <<63,238,224,127,16,181,67,155>>, <<63,239,87,189,137,128,230,199>>, <<63,239,175,118,54,190,192,1>>,
            <<63,239,231,80,222,219,228,252>>, <<63,239,255,21,85,29,232,140>>, <<63,239,246,171,178,34,17,91>>, <<63,239,206,28,107,231,228,97>>,
            <<63,239,133,144,77,78,180,107>>, <<63,239,29,80,77,14,213,217>>, <<63,238,149,197,68,87,161,253>>, <<63,237,239,119,133,92,80,167>>,
            <<63,237,43,14,82,57,77,145>>, <<63,236,73,79,52,188,154,19>>, <<63,235,75,29,55,185,102,208>>, <<63,234,49,120,2,175,233,187>>,
            <<63,232,253,122,216,174,31,3>>, <<63,231,176,91,123,108,97,120>>, <<63,230,75,104,243,196,196,91>>, <<63,228,208,10,64,189,199,173>>,
            <<63,227,63,188,238,123,230,32>>, <<63,225,156,19,150,132,153,159>>, <<63,223,205,104,149,171,26,2>>, <<63,220,66,173,218,204,122,199>>,
            <<63,216,155,134,235,127,130,232>>, <<63,212,219,160,76,206,14,115>>, <<63,209,6,191,103,207,79,43>>, <<63,202,65,125,125,103,160,31>>,
            <<63,194,91,20,25,50,166,243>>, <<63,180,196,105,80,54,64,155>>, <<63,146,247,30,3,76,77,196>>, <<191,166,155,62,27,41,159,200>>,
            <<191,187,77,167,97,18,185,162>>, <<191,197,153,28,247,82,212,91>>, <<191,205,117,173,100,182,66,46>>, <<191,210,154,78,109,131,200,81>>,
            <<191,214,103,16,132,141,100,122>>, <<191,218,29,74,160,4,79,148>>, <<191,221,185,65,17,139,107,169>>, <<191,224,155,169,74,131,216,135>>,
            <<191,226,73,253,251,156,121,105>>, <<191,227,229,237,207,11,108,233>>, <<191,229,109,218,119,177,92,40>>, <<191,230,224,57,201,1,158,114>>,
            <<191,232,59,151,67,114,37,129>>, <<191,233,126,149,139,30,17,48>>, <<191,234,167,239,199,35,75,221>>, <<191,235,182,122,232,88,75,232>>,
            <<191,236,169,38,214,19,46,22>>, <<191,237,126,255,127,209,205,126>>, <<191,238,55,45,210,177,12,248>>, <<191,238,208,248,145,187,206,122>>,
            <<191,239,75,197,16,55,245,183>>, <<191,239,167,23,205,54,129,60>>, <<191,239,226,148,239,201,235,137>>, <<191,239,254,0,163,102,20,180>>,
            <<191,239,249,63,84,12,173,107>>, <<191,239,212,85,202,9,195,147>>, <<191,239,143,105,37,36,111,139>>, <<191,239,42,190,183,72,118,187>>,
            <<191,238,166,187,190,206,144,247>>, <<191,238,3,229,0,169,73,141>>, <<191,237,66,222,66,220,226,12>>, <<191,236,100,105,167,200,198,183>>,
            <<191,235,105,102,234,231,217,98>>, <<191,234,82,210,127,204,68,37>>, <<191,233,33,196,148,56,208,114>>, <<191,231,215,111,246,87,167,27>>,
            <<191,230,117,32,224,41,51,32>>, <<191,228,252,59,169,97,253,189>>, <<191,227,110,59,97,7,107,66>>, <<191,225,204,176,80,51,135,33>>,
            <<191,224,25,62,103,128,20,254>>, <<191,220,171,55,49,89,1,159>>, <<191,217,7,28,60,81,243,208>>, <<191,213,73,213,100,128,185,64>>,
            <<191,209,119,37,111,90,108,82>>, <<191,203,37,201,85,207,6,62>>, <<191,195,65,250,31,157,236,56>>, <<191,182,149,153,70,120,38,29>>,
            <<191,154,66,30,19,252,223,89>>, <<63,162,246,72,210,178,146,20>>, <<63,185,125,71,68,220,203,219>>, <<63,196,178,227,178,117,124,220>>,
            <<63,204,146,82,116,165,22,197>>, <<63,210,42,130,116,98,229,26>>, <<63,213,249,150,122,147,101,110>>, <<63,217,178,144,160,24,74,19>>,
            <<63,221,81,178,114,128,3,52>>, <<63,224,105,171,190,211,54,151>>, <<63,226,25,252,122,193,40,102>>, <<63,227,184,24,161,16,122,81>>,
            <<63,229,66,95,181,29,76,133>>, <<63,230,183,69,44,122,143,166>>, <<63,232,21,81,253,194,146,191>>, <<63,233,91,38,25,199,177,137>>,
            <<63,234,135,121,205,168,246,86>>, <<63,235,153,31,12,102,22,1>>, <<63,236,143,2,158,168,199,169>>, <<63,237,104,45,55,144,23,60>>,
            <<63,238,35,196,109,104,238,210>>, <<63,238,193,11,149,88,135,87>>, <<63,239,63,100,129,28,153,55>>, <<63,239,158,80,30,34,5,94>>,
            <<63,239,221,110,245,82,31,2>>, <<63,239,252,129,139,22,15,200>>, <<63,239,251,104,159,47,171,74>>, <<63,239,218,37,76,39,160,123>>,
            <<63,239,152,217,6,49,79,139>>, <<63,239,55,197,121,133,111,61>>, <<63,238,183,76,72,85,83,251>>, <<63,238,23,238,168,153,77,178>>,
            <<63,237,90,76,226,28,190,51>>, <<63,236,127,37,173,74,231,212>>, <<63,235,135,85,115,94,49,23>>, <<63,234,115,213,112,179,24,253>>,
            <<63,233,69,186,186,29,125,199>>, <<63,231,254,53,38,60,216,120>>, <<63,230,158,142,27,231,18,14>>, <<63,229,40,39,70,221,132,25>>,
            <<63,227,156,121,52,25,202,183>>, <<63,225,253,17,215,23,82,253>>, <<63,224,75,146,249,151,56,237>>, <<63,221,19,97,46,224,213,178>>,
            <<63,217,114,94,80,39,3,241>>, <<63,213,183,195,174,244,133,48>>, <<63,209,231,81,96,154,147,50>>, <<63,204,9,186,228,95,32,210>>,
            <<63,196,40,160,25,191,70,252>>, <<63,184,102,126,32,22,69,20>>, <<63,160,198,99,104,3,80,2>>, <<191,158,162,40,243,94,153,73>>,
            <<191,183,172,146,98,167,141,140>>, <<191,195,204,101,150,92,235,144>>, <<191,203,174,152,126,90,63,44>>, <<191,209,186,122,16,110,160,169>>,
            <<191,213,139,211,90,210,246,62>>, <<191,217,71,129,40,244,14,143>>, <<191,220,233,194,80,191,108,58>>, <<191,224,55,119,157,18,127,185>>,
            <<191,225,233,190,198,6,151,94>>, <<191,227,138,1,221,243,87,189>>, <<191,229,22,158,62,25,181,238>>, <<191,230,142,5,3,82,223,98>>,
            <<191,231,238,188,159,60,243,120>>, <<191,233,55,98,83,244,97,254>>, <<191,234,102,171,152,219,43,99>>, <<191,235,123,103,103,6,240,73>>,
            <<191,236,116,127,108,8,57,214>>, <<191,237,80,249,33,213,206,237>>, <<191,238,15,246,202,194,245,255>>, <<191,238,176,184,80,130,199,8>>,
            <<191,239,50,156,5,88,232,56>>, <<191,239,149,31,70,180,182,169>>, <<191,239,215,223,0,147,224,61>>, <<191,239,250,152,17,39,246,21>>,
            <<191,239,253,39,140,90,224,34>>, <<191,239,223,138,222,238,67,5>>, <<191,239,161,223,209,18,134,164>>, <<191,239,68,100,104,114,228,38>>,
            <<191,238,199,118,169,212,156,3>>, <<191,238,43,148,58,135,249,200>>, <<191,237,113,89,226,10,123,178>>, <<191,236,153,130,236,88,239,6>>,
            <<191,235,164,232,109,144,28,111>>, <<191,234,148,128,103,154,2,160>>, <<191,233,105,92,210,194,6,158>>, <<191,232,36,170,138,42,119,244>>,
            <<191,230,199,176,29,55,9,160>>, <<191,229,83,204,135,29,218,221>>, <<191,227,202,117,205,232,94,188>>, <<191,226,45,55,138,71,198,27>>,
            <<191,224,125,177,89,183,18,234>>, <<191,221,123,42,120,245,102,165>>, <<191,217,221,75,194,69,201,176>>, <<191,214,37,105,190,140,214,194>>,
            <<191,210,87,65,198,127,12,1>>, <<191,204,237,79,50,253,167,8>>, <<191,197,15,3,8,125,205,137>>, <<191,186,55,17,210,230,141,132>>,
            <<191,164,107,127,251,156,56,189>>, <<63,151,87,90,95,157,193,17>>, <<63,181,219,142,195,252,136,129>>, <<63,194,229,165,161,158,48,29>>,
            <<63,202,202,130,119,54,223,192>>, <<63,209,74,54,182,64,250,111>>, <<63,213,29,200,146,89,33,156>>, <<63,216,220,29,158,168,50,158>>,
            <<63,220,129,114,5,247,230,69>>, <<63,224,5,13,140,57,196,215>>, <<63,225,185,69,125,221,205,216>>, <<63,227,91,170,30,252,179,252>>,
            <<63,228,234,150,164,44,197,2>>, <<63,230,100,121,214,187,231,6>>, <<63,231,199,215,168,51,188,73>>, <<63,233,19,74,176,150,184,196>>,
            <<63,234,69,133,149,213,8,190>>, <<63,235,93,84,91,16,152,89>>, <<63,236,89,157,150,94,157,169>>, <<63,237,57,99,139,206,171,231>>,
            <<63,237,251,197,44,155,231,104>>, <<63,238,159,254,249,134,37,58>>, <<63,239,37,107,199,112,166,236>>, <<63,239,139,133,101,127,195,157>>,
            <<63,239,209,229,36,15,6,223>>, <<63,239,248,68,59,247,178,107>>, <<63,239,254,124,21,191,229,78>>, <<63,239,228,134,112,106,202,101>>,
            <<63,239,170,125,103,194,198,204>>, <<63,239,80,155,90,23,72,162>>, <<63,238,215,58,173,136,206,27>>, <<63,238,62,213,117,29,201,9>>,
            <<63,237,136,4,245,252,96,200>>, <<63,236,179,129,13,67,237,46>>, <<63,235,194,31,119,33,209,177>>, <<63,234,180,210,247,219,42,174>>,
            <<63,233,140,170,103,163,213,97>>, <<63,232,74,207,162,56,76,107>>, <<63,230,240,134,91,76,22,199>>, <<63,229,127,42,216,250,183,49>>,
            <<63,227,248,48,149,129,109,230>>, <<63,226,93,32,201,163,175,249>>, <<63,224,175,152,225,47,237,181>>, <<63,221,226,145,182,105,163,236>>,
            <<63,218,71,227,47,14,124,26>>, <<63,214,146,198,38,157,105,241>>, <<63,210,198,245,44,189,132,32>>, <<63,205,208,131,76,198,114,51>>,
            <<63,197,245,31,237,158,211,72>>, <<63,188,7,78,85,206,83,104>>, <<63,168,16,88,165,103,40,58>>, <<191,144,12,62,42,211,149,34>>,
            <<191,180,10,66,115,107,35,144>>, <<191,193,254,166,211,168,155,9>>, <<191,201,230,19,85,206,141,58>>, <<191,208,217,185,219,56,133,193>>,
            <<191,212,175,119,143,33,39,118>>, <<191,216,112,103,102,93,66,171>>, <<191,220,24,194,237,23,129,14>>, <<191,223,164,220,103,232,210,34>>,
            <<191,225,136,145,67,126,4,55>>, <<191,227,45,17,254,77,132,28>>, <<191,228,190,73,121,197,233,30>>, <<191,230,58,164,48,224,123,100>>,
            <<191,231,160,163,154,2,58,193>>, <<191,232,238,223,167,184,56,54>>, <<191,234,36,8,50,213,142,204>>, <<191,235,62,230,76,136,224,106>>,
            <<191,236,62,93,119,19,195,199>>, <<191,237,33,108,195,234,177,139>>, <<191,237,231,47,214,29,14,93>>, <<191,238,142,223,200,1,164,202>>,
            <<191,239,23,211,243,64,164,95>>, <<191,239,129,130,154,113,167,97>>, <<191,239,203,129,115,163,163,215>>, <<191,239,245,134,19,66,232,38>>,
            <<191,239,255,102,54,242,41,53>>, <<191,239,233,23,240,10,226,75>>, <<191,239,178,177,173,154,158,241>>, <<191,239,92,106,37,210,233,217>>,
            <<191,238,230,152,31,2,208,207>>, <<191,238,81,178,24,80,238,148>>, <<191,237,158,77,210,142,77,24>>, <<191,236,205,31,185,153,97,115>>,
            <<191,235,222,250,46,233,54,18>>, <<191,234,212,204,181,246,188,144>>, <<191,233,175,163,3,89,114,254>>, <<191,232,112,163,239,137,73,211>>,
            <<191,231,25,16,78,85,36,101>>, <<191,229,170,65,172,55,134,82>>, <<191,228,37,168,242,206,52,57>>, <<191,226,140,204,245,210,198,197>>,
            <<191,224,225,72,234,8,124,238>>, <<191,222,73,149,143,86,177,183>>, <<191,218,178,35,51,255,193,146>>, <<191,214,255,215,123,110,151,47>>,
            <<191,211,54,106,31,214,105,62>>, <<191,206,179,84,62,21,83,18>>, <<191,198,218,243,203,209,88,27>>, <<191,189,215,45,160,212,99,144>>,
            <<191,171,180,225,70,231,250,76>>, <<63,129,129,217,45,98,123,39>>, <<63,178,56,179,124,116,11,89>>, <<63,193,23,108,44,188,194,23>>,
            <<63,201,1,78,17,221,51,132>>, <<63,208,105,4,245,114,184,198>>, <<63,212,64,225,192,16,52,215>>, <<63,216,4,95,230,78,79,198>>,
            <<63,219,175,182,98,71,154,158>>, <<63,223,63,52,121,62,87,83>>, <<63,225,87,162,184,226,126,110>>, <<63,226,254,58,22,220,182,144>>,
            <<63,228,145,183,82,60,18,43>>, <<63,230,16,132,156,227,33,62>>, <<63,231,121,32,247,10,167,48>>, <<63,232,202,33,178,119,191,153>>,
            <<63,234,2,51,223,62,122,173>>, <<63,235,32,29,160,164,49,54>>, <<63,236,34,191,104,201,41,16>>, <<63,237,9,21,25,221,36,46>>,
            <<63,237,210,55,11,187,87,113>>, <<63,238,125,90,244,231,12,147>>, <<63,239,9,212,181,254,54,120>>, <<63,239,119,23,6,213,212,163>>,
            <<63,239,196,180,4,145,191,66>>, <<63,239,242,93,160,40,220,145>>, <<63,239,255,229,236,230,254,161>>, <<63,239,237,63,78,156,252,189>>,
            <<63,239,186,124,135,80,232,122>>, <<63,239,103,208,164,96,121,35>>, <<63,238,245,142,203,40,168,178>>, <<63,238,100,41,229,102,42,93>>,
            <<63,237,180,52,45,162,217,171>>, <<63,236,230,94,156,36,59,189>>, <<63,235,251,120,52,239,88,181>>, <<63,234,244,109,55,148,83,162>>,
            <<63,233,210,70,49,147,231,31>>, <<63,232,150,38,244,77,12,235>>, <<63,231,65,77,111,126,218,96>>, <<63,229,213,16,113,133,160,182>>,
            <<63,228,82,222,78,148,171,52>>, <<63,226,188,59,112,72,8,32>>, <<63,225,18,192,207,0,5,29>>, <<63,222,176,52,173,31,239,211>>,
            <<63,219,28,10,111,186,213,118>>, <<63,215,108,156,82,66,192,245>>, <<63,211,165,159,45,25,250,19>>, <<63,207,149,191,20,144,32,253>>,
            <<63,199,192,123,166,182,252,241>>, <<63,191,166,169,173,53,146,34>>, <<63,175,89,13,194,168,184,158>>, <<191,87,87,222,89,246,70,153>>,
            <<191,176,102,231,235,119,22,38>>, <<191,192,47,248,173,226,70,3>>, <<191,200,28,53,164,60,248,30>>, <<191,207,240,50,247,143,22,143>>,
            <<191,211,210,8,148,239,234,45>>, <<191,215,152,8,133,197,52,128>>, <<191,219,70,77,194,232,89,103>>, <<191,222,217,36,158,139,73,153>>,
            <<191,225,38,122,128,200,113,71>>, <<191,226,207,35,4,117,85,157>>, <<191,228,100,224,193,203,125,173>>, <<191,229,230,27,166,220,50,217>>,
            <<191,231,81,80,66,180,157,150>>, <<191,232,165,17,75,7,248,73>>, <<191,233,224,9,11,146,147,193>>, <<191,235,0,250,189,196,90,64>>,
            <<191,236,6,195,199,88,148,164>>, <<191,236,240,92,222,155,128,13>>, <<191,237,188,219,19,54,131,224>>, <<191,238,107,112,186,122,37,165>>,
            <<191,238,251,110,62,54,160,47>>, <<191,239,108,66,205,84,51,234>>, <<191,239,189,124,237,121,15,184>>, <<191,239,238,202,237,42,84,11>>,
            <<191,239,255,251,53,245,166,224>>, <<191,239,240,252,126,80,128,47>>, <<191,239,193,221,218,251,24,112>>, <<191,239,114,206,175,213,130,56>>,
            <<191,239,4,30,128,54,42,194>>, <<191,238,118,60,158,241,158,188>>, <<191,237,201,183,190,100,54,122>>, <<191,236,255,61,96,237,255,99>>,
            <<191,236,23,153,42,113,114,138>>, <<191,235,19,180,19,132,58,74>>, <<191,233,244,147,127,32,116,132>>, <<191,232,187,88,51,193,136,65>>,
            <<191,231,105,61,56,245,104,253>>, <<191,229,255,150,154,133,247,3>>, <<191,228,127,208,18,121,203,140>>, <<191,226,235,107,155,67,160,184>>,
            <<191,225,67,255,235,144,129,71>>, <<191,223,22,109,186,120,22,155>>, <<191,219,133,151,130,8,60,189>>, <<191,215,217,19,65,90,175,221>>,
            <<191,212,20,146,226,172,157,98>>, <<191,208,59,224,111,151,199,70>>, <<191,200,165,180,130,238,49,35>>, <<191,192,186,222,58,188,98,198>>,
            <<191,177,126,104,254,52,113,193>>, <<191,119,87,214,150,121,227,227>>, <<63,173,41,203,155,55,81,74>>, <<63,190,144,158,177,187,169,190>>,
            <<63,199,54,205,6,221,82,245>>, <<63,207,13,241,203,136,242,141>>, <<63,211,98,237,126,106,12,254>>, <<63,215,43,98,173,21,26,217>>,
            <<63,218,220,138,109,140,5,65>>, <<63,222,114,174,43,64,149,162>>, <<63,224,245,25,62,172,229,35>>, <<63,226,159,205,99,180,168,64>>,
            <<63,228,55,198,93,147,250,72>>, <<63,229,187,105,219,216,48,233>>, <<63,231,41,50,1,107,93,251>>, <<63,232,127,174,236,173,181,6>>,
            <<63,233,189,136,41,116,90,24>>, <<63,234,225,126,11,119,53,36>>, <<63,235,234,106,239,211,34,255>>, <<63,236,215,68,100,92,101,22>>,
            <<63,237,167,28,51,152,31,29>>, <<63,238,89,33,84,79,249,118>>, <<63,238,236,160,187,206,114,156>>, <<63,239,97,6,17,240,187,50>>,
            <<63,239,181,220,70,88,183,16>>, <<63,239,234,206,6,41,112,215>>, <<63,239,255,166,17,215,87,72>>, <<63,239,244,79,114,181,252,72>>,
            <<63,239,200,213,144,13,152,32>>, <<63,239,125,100,35,162,254,234>>, <<63,239,18,71,13,189,146,17>>, <<63,238,135,234,8,215,136,255>>,
            <<63,237,222,216,61,69,34,237>>, <<63,237,23,187,181,63,218,100>>, <<63,236,51,92,177,226,88,98>>, <<63,235,50,160,225,192,251,209>>,
            <<63,234,22,138,121,233,250,250>>, <<63,232,224,55,50,52,163,27>>, <<63,231,144,223,37,230,26,54>>, <<63,230,41,211,153,202,247,128>>,
            <<63,228,172,125,169,3,79,80>>, <<63,227,26,92,217,212,210,108>>, <<63,225,117,5,155,240,211,131>>, <<63,223,124,63,99,101,52,252>>,
            <<63,219,238,201,11,220,89,99>>, <<63,216,69,58,223,249,236,233>>, <<63,212,131,67,207,140,102,242>>, <<63,208,172,171,87,37,82,37>>,
            <<63,201,138,155,102,28,29,85>>, <<63,193,162,47,250,193,190,1>>, <<63,179,80,16,236,160,221,16>>, <<63,138,66,171,144,101,115,251>>,
            <<191,169,133,102,97,129,38,154>>, <<191,188,192,230,96,77,212,167>>, <<191,198,81,23,52,183,175,125>>, <<191,206,43,73,87,79,67,231>>,
            <<191,210,243,145,238,3,129,10>>, <<191,214,190,111,197,150,68,69>>, <<191,218,114,109,193,242,237,140>>, <<191,222,11,210,116,36,95,201>>,
            <<191,224,195,127,150,202,150,63>>, <<191,226,112,57,210,7,219,214>>, <<191,228,10,104,187,150,235,175>>, <<191,229,144,111,201,213,214,153>>,
            <<191,231,0,198,184,156,8,232>>, <<191,232,89,251,19,190,129,17>>, <<191,233,154,177,171,164,131,96>>, <<191,234,193,167,242,117,77,44>>,
            <<191,235,205,181,64,127,218,253>>, <<191,236,189,203,254,150,161,32>>, <<191,237,144,250,181,50,163,80>>, <<191,238,70,108,255,78,11,189>>,
            <<191,238,221,108,96,0,254,5>>, <<191,239,85,96,250,10,243,118>>, <<191,239,173,210,40,142,228,116>>, <<191,239,230,102,248,105,143,98>>,
            <<191,239,254,230,129,167,57,224>>, <<191,239,247,56,32,191,78,147>>, <<191,239,207,99,143,92,22,185>>, <<191,239,135,144,220,149,184,156>>,
            <<191,239,32,8,68,168,56,198>>, <<191,238,153,49,232,77,43,184>>, <<191,237,243,149,100,1,219,216>>, <<191,237,47,217,71,163,191,23>>,
            <<191,236,78,194,110,235,146,188>>, <<191,235,81,51,59,112,155,151>>, <<191,234,56,42,176,250,87,59>>, <<191,233,4,195,117,5,222,216>>,
            <<191,231,184,50,178,129,77,48>>, <<191,230,83,198,226,218,100,114>>, <<191,228,216,230,125,153,187,172>>, <<191,227,73,14,143,220,75,227>>,
            <<191,225,165,209,61,22,176,8>>, <<191,223,225,168,85,69,55,123>>, <<191,220,87,157,175,91,249,238>>, <<191,216,177,17,198,108,35,169>>,
            <<191,212,241,176,131,149,104,210>>, <<191,209,29,62,201,207,74,114>>, <<191,202,111,45,86,246,201,143>>, <<191,194,137,71,21,85,233,47>>,
            <<191,181,33,120,159,231,190,74>>, <<191,148,108,138,63,138,74,232>>, <<63,165,224,172,70,200,227,19>>, <<63,186,240,206,109,189,151,17>>,
            <<63,197,107,23,41,198,126,73>>, <<63,205,72,60,140,181,200,191>>, <<63,210,131,247,86,23,245,131>>, <<63,214,81,49,57,161,58,79>>,
            <<63,218,7,249,33,6,12,26>>, <<63,221,164,146,207,77,122,101>>, <<63,224,145,174,46,23,196,208>>, <<63,226,64,104,237,170,44,28>>,
            <<63,227,220,200,114,181,87,189>>, <<63,229,101,45,255,196,41,125>>, <<63,230,216,14,238,180,16,18>>, <<63,232,51,246,61,158,186,176>>,
            <<63,233,119,134,6,0,125,67>>, <<63,234,161,120,220,160,122,42>>, <<63,235,176,163,24,218,146,224>>, <<63,236,163,244,1,255,241,8>>,
            <<63,237,122,118,225,160,155,129>>, <<63,238,51,83,249,169,143,237>>, <<63,238,205,209,93,95,149,201>>, <<63,239,73,83,172,93,124,97>>,
            <<63,239,165,94,174,216,144,188>>, <<63,239,225,149,210,143,19,149>>, <<63,239,253,188,135,226,106,159>>, <<63,239,249,182,126,191,200,121>>,
            <<63,239,213,135,195,25,214,96>>, <<63,239,145,84,184,214,209,236>>, <<63,239,45,97,247,55,36,167>>, <<63,238,170,20,3,217,107,132>>,
            <<63,238,7,238,237,161,10,173>>, <<63,237,71,149,199,229,88,183>>, <<63,236,105,202,6,110,152,187>>, <<63,235,111,106,186,229,252,20>>,
            <<63,234,89,115,180,124,18,132>>, <<63,233,40,252,130,167,198,201>>, <<63,231,223,55,91,252,0,188>>, <<63,230,125,111,234,47,39,79>>,
            <<63,229,5,9,252,138,30,126>>, <<63,227,119,128,34,13,251,242>>, <<63,225,214,98,44,185,25,81>>, <<63,224,35,83,159,105,53,8>>,
            <<63,220,192,20,15,225,1,146>>, <<63,217,28,150,142,9,87,138>>, <<63,213,95,215,143,134,154,59>>, <<63,209,141,153,81,45,22,214>>,
            <<63,203,83,103,93,78,6,145>>, <<63,195,112,32,137,231,189,66>>, <<63,182,242,154,12,44,212,174>>, <<63,155,183,122,201,157,84,133>>,
            <<191,162,59,169,105,39,8,34>>, <<191,185,32,92,225,138,10,34>>, <<191,196,132,207,226,250,202,66>>, <<191,204,100,206,94,221,243,214>>,
            <<191,210,20,31,41,212,94,28>>, <<191,213,227,168,116,138,25,135>>, <<191,217,157,45,236,211,88,54>>, <<191,221,60,240,148,31,101,97>>,
            <<191,224,95,165,170,68,71,18>>, <<191,226,16,91,85,162,200,19>>, <<191,227,174,230,26,173,228,11>>, <<191,229,57,165,13,128,193,90>>,
            <<191,230,175,11,43,31,52,195>>, <<191,232,13,160,232,192,68,217>>, <<191,233,84,5,173,128,236,10>>, <<191,234,128,241,53,2,163,182>>,
            <<191,235,147,52,217,146,171,37>>, <<191,236,137,188,196,139,251,40>>, <<191,237,99,145,3,195,138,97>>, <<191,238,31,214,130,230,148,226>>,
            <<191,238,189,207,231,208,248,83>>, <<191,239,60,222,80,253,139,129>>, <<191,239,156,129,245,81,22,88>>, <<191,239,220,90,164,159,60,104>>,
            <<191,239,252,40,40,103,237,113>>, <<191,239,251,202,132,108,79,236>>, <<191,239,219,66,22,217,246,52>>, <<191,239,154,175,151,236,43,136>>,
            <<191,239,58,83,249,3,163,77>>, <<191,238,186,144,35,85,175,159>>, <<191,238,27,228,150,116,148,172>>, <<191,237,94,240,231,19,61,212>>,
            <<191,236,132,115,30,133,255,48>>, <<191,235,141,70,251,162,15,245>>, <<191,234,122,101,21,187,177,44>>, <<191,233,76,225,226,161,192,145>>,
            <<191,232,5,236,160,145,155,227>>, <<191,230,166,206,37,59,44,19>>, <<191,229,48,231,147,8,66,153>>, <<191,227,165,176,245,243,35,27>>,
            <<191,226,6,183,201,82,16,213>>, <<191,224,85,157,104,19,181,156>>, <<191,221,40,42,209,254,125,74>>, <<191,217,135,199,209,58,170,112>>,
            <<191,213,205,183,133,6,187,22>>, <<191,209,253,185,119,147,76,188>>, <<191,204,55,70,130,22,198,27>>, <<191,196,86,185,88,179,27,67>>,
            <<191,184,195,111,38,125,154,154>>, <<191,161,129,7,146,165,244,165>>, <<63,157,44,211,207,76,42,109>>, <<63,183,79,151,196,92,69,107>>,
            <<63,195,158,68,94,51,69,52>>, <<63,203,129,1,194,44,222,159>>, <<63,209,164,10,221,50,154,165>>, <<63,213,117,214,226,155,217,25>>,
            <<63,217,50,13,136,136,97,9>>, <<63,220,212,237,27,69,46,84>>, <<63,224,45,102,177,183,2,122>>, <<63,225,224,17,169,194,193,18>>,
            <<63,227,128,194,76,27,15,168>>, <<63,229,13,213,131,213,222,0>>, <<63,230,133,187,246,69,241,182>>, <<63,231,230,251,148,160,153,232>>,
            <<63,233,48,49,24,56,27,187>>, <<63,234,96,17,103,204,40,64>>, <<63,235,117,106,228,137,204,244>>, <<63,236,111,38,157,107,71,123>>,
            <<63,237,76,73,103,195,9,108>>, <<63,238,11,244,219,215,71,37>>, <<63,238,173,104,52,144,153,236>>, <<63,239,48,1,17,90,99,101>>,
            <<63,239,147,60,25,113,220,144>>, <<63,239,214,181,127,255,237,141>>, <<63,239,250,41,104,120,163,223>>, <<63,239,253,116,42,219,120,213>>,
            <<63,239,224,146,119,143,176,17>>, <<63,239,163,161,90,184,211,34>>, <<63,239,70,222,30,255,225,41>>, <<63,238,202,166,15,238,137,147>>,
            <<63,238,47,118,28,26,157,121>>, <<63,237,117,234,87,127,226,146>>, <<63,236,158,189,94,134,163,152>>, <<63,235,170,199,154,85,90,17>>,
            <<63,234,154,254,103,41,44,45>>, <<63,233,112,115,29,145,126,89>>, <<63,232,44,81,255,133,115,33>>, <<63,230,207,225,10,105,0,198>>,
            <<63,229,92,126,175,48,103,55>>, <<63,227,211,160,113,236,85,60>>, <<63,226,54,209,114,33,13,154>>, <<63,224,135,176,221,98,23,158>>,
            <<63,221,143,224,155,133,239,142>>, <<63,217,242,164,43,127,1,253>>, <<63,214,59,78,246,168,157,245>>, <<63,210,109,157,200,24,170,15>>,
            <<63,205,26,199,207,115,252,154>>, <<63,197,61,14,130,202,40,106>>, <<63,186,147,241,228,229,221,186>>, <<63,165,38,23,137,83,88,5>>,
            <<191,149,225,243,196,52,111,50>>, <<191,181,126,133,31,244,204,78>>, <<191,194,183,119,154,48,217,208>>, <<191,202,156,217,172,66,48,236>>,
            <<191,209,51,187,228,244,131,99>>, <<191,213,7,189,241,19,113,6>>, <<191,216,198,153,88,110,36,254>>, <<191,220,108,137,190,173,103,86>>,
            <<191,223,245,227,215,24,96,12>>, <<191,225,175,140,138,162,233,239>>, <<191,227,82,93,160,112,236,21>>, <<191,228,225,191,244,120,133,195>>,
            <<191,230,92,33,217,139,158,243>>, <<191,231,192,6,193,199,77,54>>, <<191,233,12,8,189,80,158,200>>, <<191,234,62,217,226,82,143,70>>,
            <<191,235,87,69,156,210,164,150>>, <<191,236,84,49,229,9,242,138>>, <<191,237,52,160,91,11,197,154>>, <<191,237,247,175,70,154,243,170>>,
            <<191,238,156,154,122,46,5,202>>, <<191,239,34,188,24,60,216,2>>, <<191,239,137,141,58,17,243,81>>, <<191,239,208,166,119,119,117,153>>,
            <<191,239,247,192,78,183,56,219>>, <<191,239,254,179,108,133,159,122>>, <<191,239,229,120,211,142,162,160>>, <<191,239,172,41,227,125,106,241>>,
            <<191,239,83,0,63,119,107,27>>, <<191,238,218,85,148,36,112,90>>, <<191,238,66,163,61,126,77,114>>, <<191,237,140,129,204,194,136,144>>,
            <<191,236,184,168,111,0,218,13>>, <<191,235,199,236,52,225,22,118>>, <<191,234,187,63,60,89,93,133>>, <<191,233,147,175,189,44,111,8>>,
            <<191,232,82,102,249,36,180,57>>, <<191,230,248,168,17,29,238,62>>, <<191,229,135,206,192,9,49,105>>, <<191,228,1,77,253,51,133,1>>,
            <<191,226,102,174,135,44,221,131>>, <<191,224,185,141,88,200,244,232>>, <<191,221,247,52,19,138,235,92>>, <<191,218,93,42,57,111,198,105>>,
            <<191,214,168,156,119,240,156,49>>, <<191,210,221,68,206,154,237,116>>, <<191,205,253,232,80,192,246,160>>, <<191,198,35,29,10,32,192,33>>,
            <<191,188,100,28,62,129,215,79>>, <<191,168,202,225,41,160,197,69>>, <<63,141,45,149,227,227,222,74>>, <<63,179,173,42,255,20,124,137>>,
            <<63,193,208,108,150,141,178,16>>, <<63,201,184,89,19,237,204,194>>, <<63,208,195,51,182,158,242,122>>, <<63,212,153,95,14,27,148,62>>,
            <<63,216,90,210,193,228,83,171>>, <<63,220,3,199,217,133,140,56>>, <<63,223,144,143,255,37,160,90>>, <<63,225,126,204,153,161,246,39>>,
            <<63,227,35,184,177,251,68,85>>, <<63,228,181,100,242,6,160,219>>, <<63,230,50,61,95,76,214,144>>, <<63,231,152,194,241,196,85,68>>,
            <<63,232,231,141,21,11,124,192>>, <<63,234,29,75,19,15,57,119>>, <<63,235,56,197,102,175,143,138>>, <<63,236,56,222,245,14,163,246>>,
            <<63,237,28,150,44,78,125,230>>, <<63,237,227,6,6,157,87,127>>, <<63,238,139,102,240,140,13,161>>, <<63,239,21,15,145,198,167,117>>,
            <<63,239,127,117,119,101,172,158>>, <<63,239,202,45,159,44,77,182>>, <<63,239,244,236,227,40,12,77>>, <<63,239,255,136,69,68,248,130>>,
            <<63,239,233,245,26,139,0,122>>, <<63,239,180,73,21,216,140,154>>, <<63,239,94,186,50,15,205,191>>, <<63,238,233,158,123,204,114,79>>,
            <<63,238,85,107,186,216,180,220>>, <<63,237,162,182,251,184,98,213>>, <<63,236,210,51,249,193,115,192>>, <<63,235,228,180,106,88,137,17>>,
            <<63,234,219,39,42,7,104,205>>, <<63,233,182,151,76,65,130,41>>, <<63,232,120,43,14,199,228,98>>, <<63,231,33,34,177,187,100,96>>,
            <<63,229,178,215,53,133,153,252>>, <<63,228,46,184,255,221,205,243>>, <<63,226,150,78,105,69,198,180>>, <<63,224,235,50,52,115,204,97>>,
            <<63,222,94,35,226,104,86,173>>, <<63,218,199,88,152,197,11,199>>, <<63,215,21,158,157,88,217,139>>, <<63,211,76,173,23,195,171,245>>,
            <<63,206,224,165,18,154,52,97>>, <<63,199,8,225,241,149,106,208>>, <<63,190,51,232,43,149,185,118>>, <<63,172,111,88,85,67,27,27>>,
            <<191,125,45,198,105,127,28,41>>, <<191,177,219,143,109,106,115,149>>, <<191,192,233,38,83,178,255,52>>, <<191,200,211,130,241,37,117,23>>,
            <<191,208,82,115,200,117,101,29>>, <<191,212,42,187,168,199,27,77>>, <<191,215,238,187,43,92,169,68>>, <<191,219,154,168,200,53,98,254>>,
            <<191,223,42,211,44,149,103,158>>, <<191,225,77,210,120,226,17,90>>, <<191,226,244,212,27,219,194,113>>, <<191,228,136,197,16,5,17,203>>,
            <<191,230,8,15,18,221,100,23>>, <<191,231,113,48,167,46,92,209>>, <<191,232,194,190,152,190,241,174>>, <<191,233,251,101,105,157,186,160>>,
            <<191,235,25,234,167,145,112,161>>, <<191,236,29,46,40,89,93,49>>, <<191,237,4,43,43,126,253,144>>, <<191,237,205,249,96,149,152,237>>,
            <<191,238,121,205,208,224,33,160>>, <<191,239,6,251,171,114,4,84>>, <<191,239,116,244,242,254,49,119>>, <<191,239,195,75,12,164,221,220>>,
            <<191,239,241,175,47,49,24,5>>, <<191,239,255,242,178,85,159,106>>, <<191,239,238,7,61,153,208,4>>, <<191,239,187,254,214,199,41,165>>,
            <<191,239,106,11,207,201,13,200>>, <<191,238,248,128,148,16,226,170>>, <<191,238,103,207,85,177,139,134>>, <<191,237,184,137,154,133,118,105>>,
            <<191,236,235,95,169,211,15,41>>, <<191,236,1,31,219,2,71,199>>, <<191,234,250,181,198,22,40,150>>, <<191,233,217,41,86,186,134,155>>,
            <<191,232,157,157,194,212,144,38>>, <<191,231,73,80,101,161,11,158>>, <<191,229,221,151,128,134,157,120>>, <<191,228,91,224,226,221,184,222>>,
            <<191,226,197,176,122,7,152,253>>, <<191,225,28,158,203,70,243,39>>, <<191,222,196,174,177,196,111,136>>, <<191,219,49,45,232,90,219,135>>,
            <<191,215,130,83,252,86,57,28>>, <<191,211,187,213,49,13,35,254>>, <<191,207,194,251,34,232,175,160>>, <<191,199,238,90,60,251,141,208>>,
            <<191,192,1,167,210,206,225,168>>, <<191,176,9,184,119,127,58,163>>, <<61,60,178,252,232,252,129,165>>, <<63,176,9,184,119,127,115,236>>,
            <<63,192,1,167,210,206,190,162>>, <<63,199,238,90,60,251,170,2>>, <<63,207,194,251,34,232,203,109>>, <<63,211,187,213,49,13,49,165>>,
            <<63,215,130,83,252,86,70,117>>, <<63,219,49,45,232,90,232,132>>, <<63,222,196,174,177,196,124,29>>, <<63,225,28,158,203,70,235,178>>,
            <<63,226,197,176,122,7,158,205>>, <<63,228,91,224,226,221,190,103>>, <<63,229,221,151,128,134,162,181>>, <<63,231,73,80,101,161,16,138>>,
            <<63,232,157,157,194,212,148,188>>, <<63,233,217,41,86,186,138,214>>, <<63,234,250,181,198,22,35,215>>, <<63,236,1,31,219,2,75,64>>,
            <<63,236,235,95,169,211,11,98>>, <<63,237,184,137,154,133,121,18>>, <<63,238,103,207,85,177,141,194>>, <<63,238,248,128,148,16,228,120>>,
            <<63,239,106,11,207,201,15,38>>, <<63,239,187,254,214,199,42,145>>, <<63,239,238,7,61,153,208,126>>, <<63,239,255,242,178,85,159,98>>,
            <<63,239,241,175,47,49,23,153>>, <<63,239,195,75,12,164,220,253>>, <<63,239,116,244,242,254,48,38>>, <<63,239,6,251,171,114,6,124>>,
            <<63,238,121,205,208,224,31,112>>, <<63,237,205,249,96,149,150,80>>, <<63,237,4,43,43,126,250,138>>, <<63,236,29,46,40,89,89,196>>,
            <<63,235,25,234,167,145,108,209>>, <<63,233,251,101,105,157,182,112>>, <<63,232,194,190,152,190,247,69>>, <<63,231,113,48,167,46,87,239>>,
            <<63,230,8,15,18,221,94,227>>, <<63,228,136,197,16,5,12,75>>, <<63,226,244,212,27,219,188,169>>, <<63,225,77,210,120,226,11,81>>,
            <<63,223,42,211,44,149,91,21>>, <<63,219,154,168,200,53,114,234>>, <<63,215,238,187,43,92,155,245>>, <<63,212,42,187,168,199,44,14>>,
            <<63,208,82,115,200,117,87,61>>, <<63,200,211,130,241,37,88,239>>, <<63,192,233,38,83,178,226,193>>, <<63,177,219,143,109,106,58,83>>,
            <<63,125,45,198,105,131,133,194>>, <<191,172,111,88,85,67,141,186>>, <<191,190,51,232,43,149,115,90>>, <<191,199,8,225,241,149,135,11>>,
            <<191,206,224,165,18,154,80,59>>, <<191,211,76,173,23,195,185,163>>, <<191,215,21,158,157,88,230,238>>, <<191,218,199,88,152,197,24,207>>,
            <<191,222,94,35,226,104,99,78>>, <<191,224,235,50,52,115,196,228>>, <<191,226,150,78,105,69,204,139>>, <<191,228,46,184,255,221,211,133>>,
            <<191,229,178,215,53,133,159,66>>, <<191,231,33,34,177,187,94,70>>, <<191,232,120,43,14,199,233,2>>, <<191,233,182,151,76,65,134,110>>,
            <<191,234,219,39,42,7,108,179>>, <<191,235,228,180,106,88,140,149>>, <<191,236,210,51,249,193,118,223>>, <<191,237,162,182,251,184,101,138>>,
            <<191,238,85,107,186,216,178,12>>, <<191,238,233,158,123,204,116,42>>, <<191,239,94,186,50,15,207,41>>, <<191,239,180,73,21,216,141,147>>,
            <<191,239,233,245,26,139,1,0>>, <<191,239,255,136,69,68,248,150>>, <<191,239,244,236,227,40,11,238>>, <<191,239,202,45,159,44,78,185>>,
            <<191,239,127,117,119,101,171,90>>, <<191,239,21,15,145,198,169,142>>, <<191,238,139,102,240,140,11,125>>, <<191,237,227,6,6,157,84,238>>,
            <<191,237,28,150,44,78,122,235>>, <<191,236,56,222,245,14,160,148>>, <<191,235,56,197,102,175,148,46>>, <<191,234,29,75,19,15,53,81>>,
            <<191,232,231,141,21,11,130,75>>, <<191,231,152,194,241,196,80,107>>, <<191,230,50,61,95,76,209,101>>, <<191,228,181,100,242,6,155,99>>,
            <<191,227,35,184,177,251,75,103>>, <<191,225,126,204,153,161,240,38>>, <<191,223,144,143,255,37,147,223>>, <<191,220,3,199,217,133,127,81>>,
            <<191,216,90,210,193,228,70,102>>, <<191,212,153,95,14,27,134,168>>, <<191,208,195,51,182,158,228,161>>, <<191,201,184,89,19,237,239,87>>,
            <<191,193,208,108,150,141,149,165>>, <<191,179,173,42,255,20,67,78>>, <<191,141,45,149,227,226,19,38>>, <<63,168,202,225,41,161,55,239>>,
            <<63,188,100,28,62,130,16,90>>, <<63,198,35,29,10,32,220,101>>, <<63,205,253,232,80,192,212,78>>, <<63,210,221,68,206,154,251,42>>,
            <<63,214,168,156,119,240,169,157>>, <<63,218,93,42,57,111,211,124>>, <<63,221,247,52,19,138,248,9>>, <<63,224,185,141,88,200,251,6>>,
            <<63,226,102,174,135,44,227,98>>, <<63,228,1,77,253,51,126,30>>, <<63,229,135,206,192,9,54,184>>, <<63,230,248,168,17,29,232,25>>,
            <<63,232,82,102,249,36,184,227>>, <<63,233,147,175,189,44,115,88>>, <<63,234,187,63,60,89,97,118>>, <<63,235,199,236,52,225,26,6>>,
            <<63,236,184,168,111,0,214,41>>, <<63,237,140,129,204,194,139,81>>, <<63,238,66,163,61,126,79,199>>, <<63,238,218,85,148,36,114,65>>,
            <<63,239,83,0,63,119,108,147>>, <<63,239,172,41,227,125,107,247>>, <<63,239,229,120,211,142,161,235>>, <<63,239,254,179,108,133,159,155>>,
            <<63,239,247,192,78,183,56,137>>, <<63,239,208,166,119,119,116,212>>, <<63,239,137,141,58,17,242,25>>, <<63,239,34,188,24,60,218,12>>,
            <<63,238,156,154,122,46,3,179>>, <<63,237,247,175,70,154,246,195>>, <<63,237,52,160,91,11,194,171>>, <<63,236,84,49,229,9,239,52>>,
            <<63,235,87,69,156,210,160,220>>, <<63,234,62,217,226,82,148,82>>, <<63,233,12,8,189,80,154,80>>, <<63,231,192,6,193,199,72,103>>,
            <<63,230,92,33,217,139,165,68>>, <<63,228,225,191,244,120,128,83>>, <<63,227,82,93,160,112,230,93>>, <<63,225,175,140,138,162,227,245>>,
            <<63,223,245,227,215,24,83,157>>, <<63,220,108,137,190,173,90,123>>, <<63,216,198,153,88,110,23,195>>, <<63,213,7,189,241,19,129,178>>,
            <<63,209,51,187,228,244,117,145>>, <<63,202,156,217,172,66,83,115>>, <<63,194,183,119,154,48,189,108>>, <<63,181,126,133,31,244,147,28>>,
            <<63,149,225,243,196,51,137,168>>, <<191,165,38,23,137,83,202,184>>, <<191,186,147,241,228,230,22,208>>, <<191,197,61,14,130,202,68,183>>,
            <<191,205,26,199,207,116,24,141>>, <<191,210,109,157,200,24,183,204>>, <<191,214,59,78,246,168,141,104>>, <<191,217,242,164,43,127,15,27>>,
            <<191,221,143,224,155,133,223,230>>, <<191,224,135,176,221,98,29,195>>, <<191,226,54,209,114,33,19,128>>, <<191,227,211,160,113,236,90,222>>,
            <<191,229,92,126,175,48,108,143>>, <<191,230,207,225,10,104,250,150>>, <<191,232,44,81,255,133,119,212>>, <<191,233,112,115,29,145,120,255>>,
            <<191,234,154,254,103,41,48,42>>, <<191,235,170,199,154,85,93,172>>, <<191,236,158,189,94,134,166,206>>, <<191,237,117,234,87,127,229,95>>,
            <<191,238,47,118,28,26,159,219>>, <<191,238,202,166,15,238,139,135>>, <<191,239,70,222,30,255,223,76>>, <<191,239,163,161,90,184,212,54>>,
            <<191,239,224,146,119,143,176,178>>, <<191,239,253,116,42,219,121,2>>, <<191,239,250,41,104,120,163,154>>, <<191,239,214,181,127,255,236,213>>,
            <<191,239,147,60,25,113,219,102>>, <<191,239,48,1,17,90,101,95>>, <<191,238,173,104,52,144,156,111>>, <<191,238,11,244,219,215,68,173>>,
            <<191,237,76,73,103,195,6,137>>, <<191,236,111,38,157,107,68,49>>, <<191,235,117,106,228,137,201,69>>, <<191,234,96,17,103,204,36,48>>,
            <<191,233,48,49,24,56,23,78>>, <<191,231,230,251,148,160,149,35>>, <<191,230,133,187,246,69,236,157>>, <<191,229,13,213,131,213,216,153>>,
            <<191,227,128,194,76,27,22,167>>, <<191,225,224,17,169,194,187,31>>, <<191,224,45,102,177,183,10,23>>, <<191,220,212,237,27,69,33,133>>,
            <<191,217,50,13,136,136,83,216>>, <<191,213,117,214,226,155,203,148>>, <<191,209,164,10,221,50,140,218>>, <<191,203,129,1,194,44,194,152>>,
            <<191,195,158,68,94,51,40,216>>, <<191,183,79,151,196,92,139,186>>, <<191,157,44,211,207,75,68,237>>, <<63,161,129,7,146,166,103,95>>,
            <<63,184,195,111,38,125,211,187>>, <<63,196,86,185,88,179,55,153>>, <<63,204,55,70,130,22,226,26>>, <<63,209,253,185,119,147,90,129>>,
            <<63,213,205,183,133,6,170,125>>, <<63,217,135,199,209,58,183,152>>, <<63,221,40,42,209,254,138,16>>, <<63,224,85,157,104,19,187,200>>,
            <<63,226,6,183,201,82,22,194>>, <<63,227,165,176,245,243,40,196>>, <<63,229,48,231,147,8,71,249>>, <<63,230,166,206,37,59,37,215>>,
            <<63,232,5,236,160,145,160,160>>, <<63,233,76,225,226,161,196,246>>, <<63,234,122,101,21,187,181,52>>, <<63,235,141,70,251,162,11,120>>,
            <<63,236,132,115,30,134,2,114>>, <<63,237,94,240,231,19,64,173>>, <<63,238,27,228,150,116,151,26>>, <<63,238,186,144,35,85,177,160>>,
            <<63,239,58,83,249,3,164,222>>, <<63,239,154,175,151,236,44,168>>, <<63,239,219,66,22,217,245,94>>, <<63,239,251,202,132,108,79,164>>,
            <<63,239,252,40,40,103,237,182>>, <<63,239,220,90,164,159,59,188>>, <<63,239,156,129,245,81,21,59>>, <<63,239,60,222,80,253,137,243>>,
            <<63,238,189,207,231,208,246,85>>, <<63,238,31,214,130,230,146,118>>, <<63,237,99,145,3,195,135,139>>, <<63,236,137,188,196,139,255,38>>,
            <<63,235,147,52,217,146,167,129>>, <<63,234,128,241,53,2,159,177>>, <<63,233,84,5,173,128,231,168>>, <<63,232,13,160,232,192,64,30>>,
            <<63,230,175,11,43,31,47,179>>, <<63,229,57,165,13,128,187,251>>, <<63,227,174,230,26,173,235,0>>, <<63,226,16,91,85,162,194,39>>,
            <<63,224,95,165,170,68,64,231>>, <<63,221,60,240,148,31,88,157>>, <<63,217,157,45,236,211,104,99>>, <<63,213,227,168,116,138,12,11>>,
            <<63,210,20,31,41,212,80,88>>, <<63,204,100,206,94,221,215,218>>, <<63,196,132,207,226,250,173,238>>, <<63,185,32,92,225,137,209,3>>,
            <<63,162,59,169,105,38,149,104>>, <<191,155,183,122,201,156,58,56>>, <<191,182,242,154,12,45,13,217>>, <<191,195,112,32,137,231,217,160>>,
            <<191,203,83,103,93,78,34,155>>, <<191,209,141,153,81,45,36,162>>, <<191,213,95,215,143,134,167,194>>, <<191,217,28,150,142,9,100,189>>,
            <<191,220,192,20,15,224,241,205>>, <<191,224,35,83,159,105,59,58>>, <<191,225,214,98,44,185,17,253>>, <<191,227,119,128,34,14,1,164>>,
            <<191,229,5,9,252,138,35,231>>, <<191,230,125,111,234,47,44,105>>, <<191,231,223,55,91,252,5,131>>, <<191,233,40,252,130,167,203,56>>,
            <<191,234,89,115,180,124,22,150>>, <<191,235,111,106,186,229,247,137>>, <<191,236,105,202,6,110,156,8>>, <<191,237,71,149,199,229,91,156>>,
            <<191,238,7,238,237,161,7,160>>, <<191,238,170,20,3,217,109,145>>, <<191,239,45,97,247,55,38,69>>, <<191,239,145,84,184,214,211,25>>,
            <<191,239,213,135,195,25,215,26>>, <<191,239,249,182,126,191,200,193>>, <<191,239,253,188,135,226,106,116>>, <<191,239,225,149,210,143,18,247>>,
            <<191,239,165,94,174,216,146,11>>, <<191,239,73,83,172,93,122,223>>, <<191,238,205,209,93,95,147,216>>, <<191,238,51,83,249,169,141,141>>,
            <<191,237,122,118,225,160,152,183>>, <<191,236,163,244,1,255,237,213>>, <<191,235,176,163,24,218,143,71>>, <<191,234,161,120,220,160,127,15>>,
            <<191,233,119,134,6,0,120,235>>, <<191,232,51,246,61,158,192,118>>, <<191,230,216,14,238,180,11,12>>, <<191,229,101,45,255,196,36,40>>,
            <<191,227,220,200,114,181,82,29>>, <<191,226,64,104,237,170,38,56>>, <<191,224,145,174,46,23,204,93>>, <<191,221,164,146,207,77,109,173>>,
            <<191,218,7,249,33,6,28,58>>, <<191,214,81,49,57,161,44,221>>, <<191,210,131,247,86,23,231,198>>, <<191,205,72,60,140,181,172,207>>,
            <<191,197,107,23,41,198,97,253>>, <<191,186,240,206,109,189,93,252>>, <<191,165,224,172,70,200,112,98>>, <<63,148,108,138,63,137,48,142>>,
            <<63,181,33,120,159,231,247,125>>, <<63,194,137,71,21,86,5,149>>, <<63,202,111,45,86,246,229,163>>, <<63,209,29,62,201,207,57,112>>,
            <<63,212,241,176,131,149,118,97>>, <<63,216,177,17,198,108,48,230>>, <<63,220,87,157,175,92,6,204>>, <<63,223,225,168,85,69,67,237>>,
            <<63,225,165,209,61,22,182,4>>, <<63,227,73,14,143,220,81,156>>, <<63,228,216,230,125,153,180,250>>, <<63,230,83,198,226,218,105,149>>,
            <<63,231,184,50,178,129,82,1>>, <<63,233,4,195,117,5,217,88>>, <<63,234,56,42,176,250,91,88>>, <<63,235,81,51,59,112,159,84>>,
            <<63,236,78,194,110,235,150,21>>, <<63,237,47,217,71,163,187,120>>, <<63,237,243,149,100,1,222,95>>, <<63,238,153,49,232,77,41,35>>,
            <<63,239,32,8,68,168,58,112>>, <<63,239,135,144,220,149,185,214>>, <<63,239,207,99,143,92,23,128>>, <<63,239,247,56,32,191,78,232>>,
            <<63,239,254,230,129,167,58,5>>, <<63,239,230,102,248,105,142,209>>, <<63,239,173,210,40,142,229,180>>, <<63,239,85,96,250,10,242,1>>,
            <<63,238,221,108,96,0,252,32>>, <<63,238,70,108,255,78,9,107>>, <<63,237,144,250,181,50,166,176>>, <<63,236,189,203,254,150,157,248>>,
            <<63,235,205,181,64,127,215,111>>, <<63,234,193,167,242,117,73,60>>, <<63,233,154,177,171,164,127,18>>, <<63,232,89,251,19,190,124,105>>,
            <<63,231,0,198,184,156,3,235>>, <<63,229,144,111,201,213,221,30>>, <<63,228,10,104,187,150,230,23>>, <<63,226,112,57,210,7,213,248>>,
            <<63,224,195,127,150,202,144,34>>, <<63,222,11,210,116,36,83,30>>, <<63,218,114,109,193,242,224,123>>, <<63,214,190,111,197,150,54,219>>,
            <<63,210,243,145,238,3,145,230>>, <<63,206,43,73,87,79,40,3>>, <<63,198,81,23,52,183,147,58>>, <<63,188,192,230,96,77,155,158>>,
            <<63,169,133,102,97,128,179,242>>, <<191,138,66,171,144,103,63,33>>, <<191,179,80,16,236,161,22,76>>, <<191,193,162,47,250,193,155,10>>,
            <<191,201,138,155,102,28,57,116>>, <<191,208,172,171,87,37,65,26>>, <<191,212,131,67,207,140,116,137>>, <<191,216,69,58,223,249,250,48>>,
            <<191,219,238,201,11,220,102,77>>, <<191,223,124,63,99,101,65,123>>, <<191,225,117,5,155,240,204,30>>, <<191,227,26,92,217,212,216,46>>,
            <<191,228,172,125,169,3,84,201>>, <<191,230,41,211,153,202,252,173>>, <<191,231,144,223,37,230,31,16>>, <<191,232,224,55,50,52,167,158>>,
            <<191,234,22,138,121,233,245,221>>, <<191,235,50,160,225,192,255,153>>, <<191,236,51,92,177,226,91,198>>, <<191,237,23,187,181,63,221,97>>,
            <<191,237,222,216,61,69,37,128>>, <<191,238,135,234,8,215,134,90>>, <<191,239,18,71,13,189,147,200>>, <<191,239,125,100,35,162,253,88>>,
            <<191,239,200,213,144,13,152,244>>, <<191,239,244,79,114,181,252,170>>, <<191,239,255,166,17,215,87,55>>, <<191,239,234,206,6,41,112,83>>,
            <<191,239,181,220,70,88,182,26>>, <<191,239,97,6,17,240,185,202>>, <<191,238,236,160,187,206,116,225>>, <<191,238,89,33,84,79,247,47>>,
            <<191,237,167,28,51,152,28,106>>, <<191,236,215,68,100,92,97,250>>, <<191,235,234,106,239,211,31,125>>, <<191,234,225,126,11,119,49,63>>,
            <<191,233,189,136,41,116,85,212>>, <<191,232,127,174,236,173,186,179>>, <<191,231,41,50,1,107,89,7>>, <<191,229,187,105,219,216,55,99>>,
            <<191,228,55,198,93,147,244,184>>, <<191,226,159,205,99,180,162,106>>, <<191,224,245,25,62,172,223,13>>, <<191,222,114,174,43,64,137,3>>,
            <<191,218,220,138,109,139,248,59>>, <<191,215,43,98,173,21,13,121>>, <<191,211,98,237,126,105,255,81>>, <<191,207,13,241,203,136,214,181>>,
            <<191,199,54,205,6,221,54,188>>, <<191,190,144,158,177,187,112,193>>, <<191,173,41,203,155,55,222,68>>, <<63,119,87,214,150,125,122,63>>,
            <<63,177,126,104,254,52,171,5>>, <<63,192,186,222,58,188,127,58>>, <<63,200,165,180,130,238,77,76>>, <<63,208,59,224,111,151,182,51>>,
            <<63,212,20,146,226,172,171,2>>, <<63,215,217,19,65,90,159,124>>, <<63,219,133,151,130,8,73,177>>, <<63,223,22,109,186,120,35,38>>,
            <<63,225,67,255,235,144,135,81>>, <<63,226,235,107,155,67,166,129>>, <<63,228,127,208,18,121,209,14>>, <<63,229,255,150,154,133,252,57>>,
            <<63,231,105,61,56,245,98,249>>, <<63,232,187,88,51,193,140,206>>, <<63,233,244,147,127,32,120,183>>, <<63,235,19,180,19,132,62,29>>,
            <<63,236,23,153,42,113,117,250>>, <<63,236,255,61,96,238,2,108>>, <<63,237,201,183,190,100,57,25>>, <<63,238,118,60,158,241,156,8>>,
            <<63,239,4,30,128,54,44,134>>, <<63,239,114,206,175,213,131,139>>, <<63,239,193,221,218,251,25,82>>, <<63,239,240,252,126,80,128,158>>,
            <<63,239,255,251,53,245,166,220>>, <<63,239,238,202,237,42,83,148>>, <<63,239,189,124,237,121,14,207>>, <<63,239,108,66,205,84,50,143>>,
            <<63,238,251,110,62,54,158,100>>, <<63,238,107,112,186,122,35,107>>, <<63,237,188,219,19,54,135,34>>, <<63,236,240,92,222,155,124,253>>,
            <<63,236,6,195,199,88,152,230>>, <<63,235,0,250,189,196,86,103>>, <<63,233,224,9,11,146,143,136>>, <<63,232,165,17,75,7,243,181>>,
            <<63,231,81,80,66,180,152,172>>, <<63,229,230,27,166,220,45,157>>, <<63,228,100,224,193,203,120,37>>, <<63,226,207,35,4,117,92,193>>,
            <<63,225,38,122,128,200,107,56>>, <<63,222,217,36,158,139,61,7>>, <<63,219,70,77,194,232,76,108>>, <<63,215,152,8,133,197,39,42>>,
            <<63,211,210,8,148,239,220,136>>, <<63,207,240,50,247,142,250,197>>, <<63,200,28,53,164,61,26,201>>, <<63,192,47,248,173,226,41,139>>,
            <<63,176,102,231,235,118,220,222>>, <<63,87,87,222,89,231,237,28>>, <<191,175,89,13,194,169,43,51>>, <<191,191,166,169,173,53,203,23>>,
            <<191,199,192,123,166,183,25,36>>, <<191,207,149,191,20,143,254,200>>, <<191,211,165,159,45,26,7,188>>, <<191,215,108,156,82,66,206,80>>,
            <<191,219,28,10,111,186,226,118>>, <<191,222,176,52,173,31,224,86>>, <<191,225,18,192,207,0,11,47>>, <<191,226,188,59,112,72,13,241>>,
            <<191,228,82,222,78,148,176,191>>, <<191,229,213,16,113,133,165,245>>, <<191,231,65,77,111,126,223,78>>, <<191,232,150,38,244,77,17,131>>,
            <<191,233,210,70,49,147,225,232>>, <<191,234,244,109,55,148,87,128>>, <<191,235,251,120,52,239,84,109>>, <<191,236,230,94,156,36,62,210>>,
            <<191,237,180,52,45,162,220,86>>, <<191,238,100,41,229,102,44,156>>, <<191,238,245,142,203,40,170,130>>, <<191,239,103,208,164,96,122,131>>,
            <<191,239,186,124,135,80,233,104>>, <<191,239,237,63,78,156,252,36>>, <<191,239,255,229,236,230,254,170>>, <<191,239,242,93,160,40,220,39>>,
            <<191,239,196,180,4,145,190,102>>, <<191,239,119,23,6,213,211,85>>, <<191,239,9,212,181,254,52,185>>, <<191,238,125,90,244,231,10,102>>,
            <<191,237,210,55,11,187,90,164>>, <<191,237,9,21,25,221,33,42>>, <<191,236,34,191,104,201,37,165>>, <<191,235,32,29,160,164,45,103>>,
            <<191,234,2,51,223,62,118,127>>, <<191,232,202,33,178,119,187,15>>, <<191,231,121,32,247,10,162,80>>, <<191,230,16,132,156,227,28,12>>,
            <<191,228,145,183,82,60,12,172>>, <<191,226,254,58,22,220,176,202>>, <<191,225,87,162,184,226,120,102>>, <<191,223,63,52,121,62,102,186>>,
            <<191,219,175,182,98,71,141,174>>, <<191,216,4,95,230,78,96,35>>, <<191,212,64,225,192,16,39,59>>, <<191,208,105,4,245,114,170,231>>,
            <<191,201,1,78,17,221,23,95>>, <<191,193,23,108,44,188,165,166>>, <<191,178,56,179,124,116,81,197>>, <<191,129,129,217,45,96,175,252>>,
            <<63,171,180,225,70,231,109,77>>, <<63,189,215,45,160,212,156,146>>, <<63,198,218,243,203,209,116,88>>, <<63,206,179,84,62,21,110,238>>,
            <<63,211,54,106,31,214,118,238>>, <<63,214,255,215,123,110,164,147>>, <<63,218,178,35,51,255,206,157>>, <<63,222,73,149,143,86,162,43>>,
            <<63,224,225,72,234,8,131,7>>, <<63,226,140,204,245,210,204,158>>, <<63,228,37,168,242,206,57,204>>, <<63,229,170,65,172,55,139,154>>,
            <<63,231,25,16,78,85,41,92>>, <<63,232,112,163,239,137,78,116>>, <<63,233,175,163,3,89,109,187>>, <<63,234,212,204,181,246,192,121>>,
            <<63,235,222,250,46,233,57,152>>, <<63,236,205,31,185,153,100,147>>, <<63,237,158,77,210,142,73,193>>, <<63,238,81,178,24,80,240,223>>,
            <<63,238,230,152,31,2,210,172>>, <<63,239,92,106,37,210,235,70>>, <<63,239,178,177,173,154,159,237>>, <<63,239,233,23,240,10,226,212>>,
            <<63,239,255,102,54,242,41,75>>, <<63,239,245,134,19,66,232,152>>, <<63,239,203,129,115,163,163,7>>, <<63,239,129,130,154,113,168,237>>,
            <<63,239,23,211,243,64,162,173>>, <<63,238,142,223,200,1,162,169>>, <<63,237,231,47,214,29,11,207>>, <<63,237,33,108,195,234,174,146>>,
            <<63,236,62,93,119,19,199,237>>, <<63,235,62,230,76,136,220,167>>, <<63,234,36,8,50,213,147,227>>, <<63,232,238,223,167,184,51,183>>,
            <<63,231,160,163,154,2,53,234>>, <<63,230,58,164,48,224,118,59>>, <<63,228,190,73,121,197,239,215>>, <<63,227,45,17,254,77,126,93>>,
            <<63,225,136,145,67,125,254,54>>, <<63,223,164,220,103,232,225,122>>, <<63,220,24,194,237,23,116,41>>, <<63,216,112,103,102,93,53,103>>,
            <<63,212,175,119,143,33,25,226>>, <<63,208,217,185,219,56,150,200>>, <<63,201,230,19,85,206,113,31>>, <<63,193,254,166,211,168,126,159>>,
            <<63,180,10,66,115,106,234,87>>, <<63,144,12,62,42,210,175,145>>, <<191,168,16,88,165,103,154,229>>, <<191,188,7,78,85,206,140,117>>,
            <<191,197,245,31,237,158,176,129>>, <<191,205,208,131,76,198,142,28>>, <<191,210,198,245,44,189,145,216>>, <<191,214,146,198,38,157,119,95>>,
            <<191,218,71,227,47,14,137,48>>, <<191,221,226,145,182,105,176,156>>, <<191,224,175,152,225,47,243,212>>, <<191,226,93,32,201,163,168,191>>,
            <<191,227,248,48,149,129,115,129>>, <<191,229,127,42,216,250,176,168>>, <<191,230,240,134,91,76,27,200>>, <<191,232,74,207,162,56,81,22>>,
            <<191,233,140,170,103,163,217,179>>, <<191,234,180,210,247,219,46,162>>, <<191,235,194,31,119,33,205,77>>, <<191,236,179,129,13,67,240,90>>,
            <<191,237,136,4,245,252,93,98>>, <<191,238,62,213,117,29,203,97>>, <<191,238,215,58,173,136,208,5>>, <<191,239,80,155,90,23,74,28>>,
            <<191,239,170,125,103,194,199,212>>, <<191,239,228,134,112,106,202,252>>, <<191,239,254,124,21,191,229,114>>, <<191,239,248,68,59,247,178,27>>,
            <<191,239,209,229,36,15,6,28>>, <<191,239,139,133,101,127,194,104>>, <<191,239,37,107,199,112,165,71>>, <<191,238,159,254,249,134,39,202>>,
            <<191,237,251,197,44,155,228,230>>, <<191,237,57,99,139,206,168,251>>, <<191,236,89,157,150,94,154,85>>, <<191,235,93,84,91,16,156,236>>,
            <<191,234,69,133,149,213,4,165>>, <<191,233,19,74,176,150,180,79>>, <<191,231,199,215,168,51,194,49>>, <<191,230,100,121,214,187,225,230>>,
            <<191,228,234,150,164,44,191,147>>, <<191,227,91,170,30,252,174,69>>, <<191,225,185,69,125,221,199,223>>, <<191,224,5,13,140,57,190,161>>,
            <<191,220,129,114,5,247,217,108>>, <<191,216,220,29,158,168,66,226>>, <<191,213,29,200,146,89,20,16>>, <<191,209,74,54,182,65,11,109>>,
            <<191,202,202,130,119,54,195,175>>, <<191,194,229,165,161,158,19,186>>, <<191,181,219,142,195,252,79,80>>, <<191,151,87,90,95,156,219,136>>,
            <<63,164,107,127,251,156,171,113>>, <<63,186,55,17,210,230,198,156>>, <<63,197,15,3,8,125,170,183>>, <<63,204,237,79,50,253,194,253>>,
            <<63,210,87,65,198,127,25,192>>, <<63,214,37,105,190,140,228,57>>, <<63,217,221,75,194,69,185,139>>, <<63,221,123,42,120,245,115,97>>,
            <<63,224,125,177,89,183,25,16>>, <<63,226,45,55,138,71,204,2>>, <<63,227,202,117,205,232,100,96>>, <<63,229,83,204,135,29,212,73>>,
            <<63,230,199,176,29,55,14,170>>, <<63,232,36,170,138,42,114,41>>, <<63,233,105,92,210,194,10,250>>, <<63,234,148,128,103,154,6,159>>,
            <<63,235,164,232,109,144,32,13>>, <<63,236,153,130,236,88,242,62>>, <<63,237,113,89,226,10,126,129>>, <<63,238,43,148,58,135,252,44>>,
            <<63,238,199,118,169,212,153,153>>, <<63,239,68,100,104,114,229,173>>, <<63,239,161,223,209,18,135,186>>, <<63,239,223,138,222,238,67,169>>,
            <<63,239,253,39,140,90,224,82>>, <<63,239,250,152,17,39,245,210>>, <<63,239,215,223,0,147,223,135>>, <<63,239,149,31,70,180,184,21>>,
            <<63,239,50,156,5,88,234,46>>, <<63,238,176,184,80,130,201,136>>, <<63,238,15,246,202,194,243,138>>, <<63,237,80,249,33,213,204,13>>,
            <<63,236,116,127,108,8,54,141>>, <<63,235,123,103,103,6,236,157>>, <<63,234,102,171,152,219,39,85>>, <<63,233,55,98,83,244,93,147>>,
            <<63,231,238,188,159,60,238,181>>, <<63,230,142,5,3,82,218,75>>, <<63,229,22,158,62,25,176,137>>, <<63,227,138,1,221,243,82,14>>,
            <<63,225,233,190,198,6,158,175>>, <<63,224,55,119,157,18,121,138>>, <<63,220,233,194,80,191,95,108>>, <<63,217,71,129,40,244,1,96>>,
            <<63,213,139,211,90,210,232,187>>, <<63,209,186,122,16,110,146,223>>, <<63,203,174,152,126,90,35,39>>, <<63,195,204,101,150,93,14,112>>,
            <<63,183,172,146,98,167,84,101>>, <<63,158,162,40,243,93,179,203>>, <<191,160,198,99,104,3,194,191>>, <<191,184,102,126,32,22,126,55>>,
            <<191,196,40,160,25,191,99,83>>, <<191,204,9,186,228,95,60,210>>, <<191,209,231,81,96,154,130,64>>, <<191,213,183,195,174,244,146,176>>,
            <<191,217,114,94,80,39,17,28>>, <<191,221,19,97,46,224,226,123>>, <<191,224,75,146,249,151,63,26>>, <<191,225,253,17,215,23,88,236>>,
            <<191,227,156,121,52,25,208,98>>, <<191,229,40,39,70,221,125,122>>, <<191,230,158,142,27,231,23,33>>, <<191,231,254,53,38,60,221,55>>,
            <<191,233,69,186,186,29,130,46>>, <<191,234,115,213,112,179,29,7>>, <<191,235,135,85,115,94,52,191>>, <<191,236,127,37,173,74,235,24>>,
            <<191,237,90,76,226,28,193,15>>, <<191,238,23,238,168,153,80,35>>, <<191,238,183,76,72,85,85,254>>, <<191,239,55,197,121,133,112,208>>,
            <<191,239,152,217,6,49,78,37>>, <<191,239,218,37,76,39,159,162>>, <<191,239,251,104,159,47,170,255>>, <<191,239,252,129,139,22,15,146>>,
            <<191,239,221,110,245,82,30,89>>, <<191,239,158,80,30,34,4,67>>, <<191,239,63,100,129,28,151,171>>, <<191,238,193,11,149,88,133,91>>,
            <<191,238,35,196,109,104,236,105>>, <<191,237,104,45,55,144,26,183>>, <<191,236,143,2,158,168,196,108>>, <<191,235,153,31,12,102,18,96>>,
            <<191,234,135,121,205,168,242,83>>, <<191,233,91,38,25,199,173,40>>, <<191,232,21,81,253,194,142,6>>, <<191,230,183,69,44,122,138,152>>,
            <<191,229,66,95,181,29,83,29>>, <<191,227,184,24,161,16,116,171>>, <<191,226,25,252,122,193,47,173>>, <<191,224,105,171,190,211,48,111>>,
            <<191,221,81,178,114,127,246,115>>, <<191,217,178,144,160,24,60,238>>, <<191,213,249,150,122,147,87,244>>, <<191,210,42,130,116,98,246,7>>,
            <<191,204,146,82,116,164,250,203>>, <<191,196,178,227,178,117,96,138>>, <<191,185,125,71,68,220,146,190>>, <<191,162,246,72,210,179,31,48>>,
            <<63,154,66,30,19,253,196,222>>, <<63,182,149,153,70,120,95,73>>, <<63,195,65,250,31,158,8,151>>, <<63,203,37,201,85,207,34,74>>,
            <<63,209,119,37,111,90,122,32>>, <<63,213,73,213,100,128,198,201>>, <<63,217,7,28,60,81,227,145>>, <<63,220,171,55,49,89,14,115>>,
            <<63,224,25,62,103,128,13,94>>, <<63,225,204,176,80,51,141,24>>, <<63,227,110,59,97,7,112,245>>, <<63,228,252,59,169,98,3,40>>,
            <<63,230,117,32,224,41,56,61>>, <<63,231,215,111,246,87,171,228>>, <<63,233,33,196,148,56,212,227>>, <<63,234,82,210,127,204,63,33>>,
            <<63,235,105,102,234,231,221,22>>, <<63,236,100,105,167,200,202,6>>, <<63,237,66,222,66,220,222,121>>, <<63,238,3,229,0,169,76,9>>,
            <<63,238,166,187,190,206,147,6>>, <<63,239,42,190,183,72,120,91>>, <<63,239,143,105,37,36,110,22>>, <<63,239,212,85,202,9,196,80>>,
            <<63,239,249,63,84,12,173,181>>, <<63,239,254,0,163,102,20,139>>, <<63,239,226,148,239,201,234,238>>, <<63,239,167,23,205,54,128,46>>,
            <<63,239,75,197,16,55,244,56>>, <<63,238,208,248,145,187,208,219>>, <<63,238,55,45,210,177,10,156>>, <<63,237,126,255,127,209,202,181>>,
            <<63,236,169,38,214,19,42,229>>, <<63,235,182,122,232,88,80,82>>, <<63,234,167,239,199,35,71,229>>, <<63,233,126,149,139,30,22,134>>,
            <<63,232,59,151,67,114,32,209>>, <<63,230,224,57,201,1,153,109>>, <<63,229,109,218,119,177,86,212>>, <<63,227,229,237,207,11,103,74>>,
            <<63,226,73,253,251,156,128,167>>, <<63,224,155,169,74,131,210,101>>, <<63,221,185,65,17,139,123,74>>, <<63,218,29,74,160,4,66,122>>,
            <<63,214,103,16,132,141,87,9>>, <<63,210,154,78,109,131,186,150>>, <<63,205,117,173,100,182,38,64>>, <<63,197,153,28,247,82,184,17>>,
            <<63,187,77,167,97,18,128,144>>, <<63,166,155,62,27,42,44,217>>, <<191,146,247,30,3,77,51,82>>, <<191,180,196,105,80,54,121,209>>,
            <<191,194,91,20,25,50,195,90>>, <<191,202,65,125,125,103,188,54>>, <<191,209,6,191,103,207,93,0>>, <<191,212,219,160,76,206,28,4>>,
            <<191,216,155,134,235,127,114,157>>, <<191,220,66,173,218,204,135,167>>, <<191,223,205,104,149,171,38,118>>, <<191,225,156,19,150,132,159,156>>,
            <<191,227,63,188,238,123,223,19>>, <<191,228,208,10,64,189,205,32>>, <<191,230,75,104,243,196,201,129>>, <<191,231,176,91,123,108,91,137>>,
            <<191,232,253,122,216,174,35,126>>, <<191,234,49,120,2,175,237,218>>, <<191,235,75,29,55,185,106,143>>, <<191,236,73,79,52,188,149,243>>,
            <<191,237,43,14,82,57,80,132>>, <<191,237,239,119,133,92,77,137>>, <<191,238,149,197,68,87,164,26>>, <<191,239,29,80,77,14,215,135>>,
            <<191,239,133,144,77,78,181,167>>, <<191,239,206,28,107,231,229,44>>, <<191,239,246,171,178,34,16,239>>, <<191,239,255,21,85,29,232,112>>,
            <<191,239,231,80,222,219,229,171>>, <<191,239,175,118,54,190,191,0>>, <<191,239,87,189,137,128,229,84>>, <<191,238,224,127,16,181,65,185>>,
            <<191,238,74,50,186,11,234,178>>, <<191,237,149,111,174,180,107,100>>, <<191,236,194,235,187,86,53,76>>, <<191,235,211,122,153,57,21,4>>,
            <<191,234,200,13,25,84,151,17>>, <<191,233,161,176,50,29,103,198>>, <<191,232,97,139,241,3,139,120>>, <<191,231,8,226,80,177,252,65>>,
            <<191,229,153,13,245,58,182,72>>, <<191,228,19,128,207,117,140,64>>, <<191,226,121,194,168,239,155,248>>, <<191,224,205,111,153,225,231,141>>,
            <<191,222,32,108,213,119,195,116>>, <<191,218,135,173,197,195,157,156>>, <<191,214,212,64,12,167,10,203>>, <<191,211,9,220,135,255,178,133>>,
            <<191,206,88,166,90,103,207,55>>, <<191,198,127,14,103,69,119,185>>, <<191,189,29,172,174,217,133,83>>, <<191,170,63,232,52,55,175,206>>,
            <<63,135,87,189,190,150,194,142>>, <<63,178,242,244,72,114,175,23>>, <<63,193,115,241,6,107,128,100>>, <<63,201,92,218,82,111,93,126>>,
            <<63,208,150,32,191,202,213,75>>, <<63,212,109,37,214,100,167,117>>, <<63,216,47,159,195,125,125,243>>, <<63,219,217,198,134,231,80,216>>,
            <<63,223,103,234,151,91,117,30>>, <<63,225,107,60,75,183,169,232>>, <<63,227,16,254,119,24,198,218>>, <<63,228,163,147,159,235,98,104>>,
            <<63,230,33,102,225,121,104,139>>, <<63,231,136,248,55,116,64,225>>, <<63,232,216,222,0,45,139,113>>, <<63,234,15,198,104,75,186,83>>,
            <<63,235,44,120,190,142,99,98>>, <<63,236,45,214,174,74,128,127>>, <<63,237,18,221,95,100,39,138>>, <<63,237,218,166,122,162,196,16>>,
            <<63,238,132,105,17,90,230,187>>, <<63,239,15,122,103,132,36,2>>, <<63,239,123,78,159,112,13,41>>, <<63,239,199,121,70,117,73,70>>,
            <<63,239,243,173,194,1,170,55>>, <<63,239,255,191,156,165,78,4>>, <<63,239,235,162,178,201,90,230>>, <<63,239,183,107,62,229,113,161>>,
            <<63,239,99,77,197,39,127,56>>, <<63,238,239,158,222,162,88,26>>, <<63,238,92,210,228,56,102,118>>, <<63,237,171,125,121,151,200,162>>,
            <<63,236,220,80,248,189,180,123>>, <<63,235,240,29,190,150,112,132>>, <<63,234,231,209,89,110,30,151>>, <<63,233,196,117,154,5,149,99>>,
            <<63,232,135,47,136,58,199,165>>, <<63,231,49,62,60,82,143,227>>, <<63,229,195,249,158,11,104,7>>, <<63,228,64,209,10,188,94,186>>,
            <<63,226,169,73,227,219,255,218>>, <<63,224,254,254,7,98,131,123>>, <<63,222,135,52,103,35,192,251>>, <<63,218,241,184,175,130,181,28>>,
            <<63,215,65,35,167,190,10,214>>, <<63,211,121,43,80,211,85,198>>, <<63,207,59,58,98,218,182,68>>, <<63,199,100,181,5,141,39,159>>,
            <<63,190,237,81,38,240,137,89>>, <<63,173,228,58,255,248,98,206>>, <<191,113,129,227,168,126,153,224>>, <<191,177,33,64,59,54,148,118>>,
            <<191,192,140,147,232,1,243,252>>, <<191,200,119,226,205,79,128,188>>, <<191,208,37,74,237,218,226,79>>, <<191,211,254,103,112,179,22,83>>,
            <<191,215,195,104,43,42,18,208>>, <<191,219,112,130,146,141,174,233>>, <<191,223,2,4,37,157,15,16>>, <<191,225,58,43,18,60,142,11>>,
            <<191,226,226,0,150,84,152,198>>, <<191,228,118,216,90,203,128,107>>, <<191,229,247,27,52,253,77,81>>, <<191,231,97,70,173,110,151,121>>,
            <<191,232,179,238,132,123,139,168>>, <<191,233,237,190,32,174,249,12>>, <<191,235,13,121,229,80,51,123>>, <<191,236,18,0,111,207,134,115>>,
            <<191,236,250,75,186,210,28,177>>, <<191,237,197,114,37,184,39,101>>, <<191,238,114,167,95,149,1,250>>, <<191,239,1,61,52,172,40,168>>,
            <<191,239,112,164,61,165,7,203>>, <<191,239,192,108,111,197,5,2>>, <<191,239,240,69,141,158,218,252>>, <<191,239,255,255,119,197,243,19>>,
            <<191,239,239,138,93,52,127,3>>, <<191,239,190,246,203,51,195,73>>, <<191,239,110,117,156,182,124,166>>, <<191,238,254,87,201,54,24,193>>,
            <<191,238,111,14,19,68,82,252>>, <<191,237,193,40,151,34,239,77>>, <<191,236,245,86,57,211,162,174>>, <<191,236,12,99,249,50,52,215>>,
            <<191,235,7,60,29,201,89,52>>, <<191,233,230,229,79,49,241,135>>, <<191,232,172,129,139,233,94,243>>, <<191,231,89,77,5,169,29,21>>,
            <<191,229,238,156,227,100,72,122>>, <<191,228,109,221,234,43,119,39>>, <<191,226,216,147,14,79,122,10>>, <<191,225,48,83,238,52,189,176>>,
            <<191,222,237,150,112,187,161,248>>, <<191,219,91,105,252,147,99,186>>, <<191,215,173,185,235,172,204,232>>, <<191,211,232,57,85,205,178,238>>,
            <<191,208,14,179,70,63,162,249>>, <<191,200,74,13,214,97,104,245>>, <<191,192,94,71,97,171,131,9>>, <<191,176,196,21,48,213,173,86>>,
            <<191,103,87,220,204,108,96,15>>, <<63,174,158,166,106,183,179,119>>, <<63,191,73,255,126,224,66,0>>, <<63,199,146,153,231,137,48,53>>,
            <<63,207,104,126,210,137,245,3>>, <<63,211,143,102,140,10,97,125>>, <<63,215,86,225,138,110,197,25>>, <<63,219,6,227,91,216,19,14>>,
            <<63,222,155,182,147,87,12,46>>, <<63,225,8,224,141,67,204,238>>, <<63,226,178,195,232,120,183,148>>, <<63,228,73,217,6,35,47,38>>,
            <<63,229,204,134,122,251,156,161>>, <<63,231,57,71,97,94,248,204>>, <<63,232,142,172,224,111,141,230>>, <<63,233,203,95,157,9,58,188>>,
            <<63,234,238,33,19,20,208,227>>, <<63,235,245,204,213,224,93,133>>, <<63,236,225,89,182,57,127,247>>, <<63,237,175,218,205,34,63,13>>,
            <<63,238,96,128,106,20,58,3>>, <<63,238,242,152,227,226,53,183>>, <<63,239,101,145,75,102,114,37>>, <<63,239,184,245,255,73,174,150>>,
            <<63,239,236,115,32,78,114,53>>, <<63,239,255,212,229,171,119,160>>, <<63,239,243,7,209,32,153,219>>, <<63,239,198,24,194,145,177,131>>,
            <<63,239,121,52,235,19,209,223>>, <<63,239,12,169,159,121,184,191>>, <<63,238,128,228,10,141,114,35>>, <<63,237,214,112,191,69,9,143>>,
            <<63,237,13,251,43,97,33,17>>, <<63,236,40,76,235,3,58,210>>, <<63,235,38,76,253,233,93,4>>, <<63,234,8,254,223,26,239,153>>,
            <<63,232,209,129,127,240,73,41>>, <<63,231,129,14,39,123,245,44>>, <<63,230,24,247,55,118,244,163>>, <<63,228,154,166,215,238,79,32>>,
            <<63,227,7,157,139,6,66,181>>, <<63,225,97,112,170,67,159,23>>, <<63,223,83,145,157,188,237,188>>, <<63,219,196,192,77,113,169,241>>,
            <<63,216,26,1,111,78,225,127>>, <<63,212,87,5,37,149,62,104>>, <<63,208,127,147,243,143,81,187>>, <<63,201,47,21,222,253,92,4>>,
            <<63,193,69,175,191,178,68,0>>, <<63,178,149,213,30,237,39,117>>, <<63,132,108,204,209,202,182,147>>, <<191,170,250,102,136,244,80,161>>,
            <<191,189,122,111,29,206,174,97>>, <<191,198,173,2,155,173,23,103>>, <<191,206,133,255,84,2,24,185>>, <<191,211,32,36,153,152,78,88>>,
            <<191,214,234,13,74,60,2,83>>, <<191,218,156,234,66,14,84,184>>, <<191,222,53,3,52,199,155,231>>, <<191,224,215,93,96,188,157,176>>,
            <<191,226,131,73,10,159,86,179>>, <<191,228,28,150,55,153,210,95>>, <<191,229,161,169,65,18,78,178>>, <<191,231,16,250,216,75,154,134>>,
            <<191,232,105,25,143,242,58,105>>, <<191,233,168,171,79,168,249,167>>, <<191,234,206,110,176,29,135,99>>, <<191,235,217,60,62,72,57,12>>,
            <<191,236,200,7,164,145,40,110>>, <<191,237,153,224,184,176,15,81>>, <<191,238,77,244,109,55,142,128>>, <<191,238,227,141,165,216,142,44>>,
            <<191,239,90,21,237,136,220,68>>, <<191,239,177,22,13,213,24,83>>, <<191,239,232,54,134,198,134,6>>, <<191,239,255,63,230,227,112,223>>,
            <<191,239,246,27,2,242,47,144>>, <<191,239,204,209,13,70,97,106>>, <<191,239,131,139,140,129,27,54>>, <<191,239,26,148,49,205,64,83>>,
            <<191,238,146,84,142,194,20,61>>, <<191,237,235,85,171,54,114,44>>, <<191,237,38,63,123,111,188,70>>, <<191,236,67,216,55,54,154,221>>,
            <<191,235,69,3,146,124,63,97>>, <<191,234,42,193,216,87,122,238>>, <<191,232,246,46,233,65,95,177>>, <<191,231,168,129,29,147,140,208>>,
            <<191,230,67,8,13,103,173,57>>, <<191,228,199,43,63,18,125,207>>, <<191,227,54,104,189,141,7,128>>, <<191,225,146,83,152,56,94,198>>,
            <<191,223,185,36,154,251,153,173>>, <<191,220,45,186,67,199,203,166>>, <<191,216,133,248,202,133,194,234>>, <<191,212,197,141,79,172,158,218>>,
            <<191,208,240,61,193,242,244,60>>, <<191,202,19,202,37,168,141,16>>, <<191,194,44,222,171,236,93,88>>, <<191,180,103,87,61,65,110,150>>,
            <<191,145,129,175,65,43,51,11>>, <<63,167,85,204,237,165,3,239>>, <<63,187,170,124,178,139,101,90>>, <<63,197,199,31,229,79,227,13>>,
            <<63,205,163,26,81,106,48,99>>, <<63,210,176,163,11,98,253,189>>, <<63,214,124,236,212,132,97,59>>, <<63,218,50,152,165,163,149,154>>,
            <<63,221,205,235,95,127,125,226>>, <<63,224,165,162,49,82,109,182>>, <<63,226,83,144,154,177,163,236>>, <<63,227,239,16,133,183,43,107>>,
            <<63,229,118,132,21,208,134,122>>, <<63,230,232,97,152,59,148,27>>, <<63,232,67,53,15,251,198,240>>, <<63,233,133,161,171,249,228,240>>,
            <<63,234,174,99,37,213,97,95>>, <<63,235,188,79,8,7,146,16>>, <<63,236,174,85,218,15,89,55>>, <<63,237,131,132,49,121,1,149>>,
            <<63,238,59,3,166,174,5,45>>, <<63,238,212,27,172,151,210,181>>, <<63,239,78,50,74,60,31,39>>, <<63,239,168,204,181,151,241,218>>,
            <<63,239,227,143,207,30,73,125>>, <<63,239,254,64,125,93,103,184>>, <<63,239,248,195,232,111,44,226>>, <<63,239,211,31,148,248,103,82>>,
            <<63,239,141,121,94,156,23,48>>, <<63,239,40,23,81,232,41,74>>, <<63,238,163,95,101,225,255,218>>, <<63,237,255,215,21,121,136,14>>,
            <<63,237,62,34,217,74,70,238>>, <<63,236,95,5,130,48,233,13>>, <<63,235,99,95,117,92,74,242>>, <<63,234,76,45,202,158,121,142>>,
            <<63,233,26,137,77,225,11,31>>, <<63,231,207,165,100,188,117,25>>, <<63,230,108,206,217,78,253,25>>, <<63,228,243,106,139,137,117,213>>,
            <<63,227,100,244,10,66,243,220>>, <<63,225,194,252,21,124,75,178>>, <<63,224,15,39,11,83,0,121>>, <<63,220,150,86,130,115,167,54>>,
            <<63,216,241,158,150,61,160,120>>, <<63,213,51,208,100,119,148,226>>, <<63,209,96,175,58,183,118,3>>, <<63,202,248,39,177,193,24,184>>,
            <<63,195,19,209,37,121,112,68>>, <<63,182,56,149,127,157,101,236>>, <<63,152,204,189,224,27,117,34>>, <<191,163,176,229,182,118,57,206>>,
            <<191,185,218,46,68,26,45,67>>, <<191,196,224,244,193,1,80,243>>, <<191,204,191,210,189,95,34,101>>, <<191,210,64,227,84,68,121,96>>,
            <<191,214,15,129,148,55,237,255>>, <<191,217,199,239,232,48,255,36>>, <<191,221,102,112,106,93,145,252>>, <<191,224,115,175,164,107,41,145>>,
            <<191,226,35,155,55,101,108,20>>, <<191,227,193,72,135,225,150,133>>, <<191,229,75,23,136,180,171,248>>, <<191,230,191,124,40,53,21,195>>,
            <<191,232,28,255,222,146,117,204>>, <<191,233,98,67,38,131,134,77>>, <<191,234,141,254,222,208,14,195>>, <<191,235,159,5,147,82,235,86>>,
            <<191,236,148,68,172,40,197,181>>, <<191,237,108,197,129,219,235,122>>, <<191,238,39,174,85,117,210,134>>, <<191,238,196,67,43,126,66,131>>,
            <<191,239,65,230,137,10,218,83>>, <<191,239,160,26,18,33,121,13>>, <<191,239,222,127,8,205,221,177>>, <<191,239,252,214,172,106,209,130>>,
            <<191,239,251,2,120,191,5,70>>, <<191,239,217,4,68,174,29,180>>, <<191,239,150,254,64,95,27,103>>, <<191,239,53,50,210,217,252,122>>,
            <<191,238,180,4,87,63,31,6>>, <<191,238,19,244,185,219,155,95>>, <<191,237,85,164,245,126,20,238>>, <<191,236,121,212,113,143,72,32>>,
            <<191,235,129,96,65,145,133,230>>, <<191,234,109,66,70,200,65,162>>, <<191,233,62,144,52,231,177,30>>, <<191,231,246,122,122,200,228,66>>,
            <<191,230,150,75,16,59,207,193>>, <<191,229,31,100,42,42,138,29>>, <<191,227,147,62,214,91,195,70>>, <<191,225,243,105,128,59,57,213>>,
            <<191,224,65,134,96,36,178,11>>, <<191,220,254,147,173,138,88,100>>, <<191,217,92,241,108,113,146,183>>, <<191,213,161,204,245,63,72,213>>,
            <<191,209,208,230,231,229,30,137>>, <<191,203,220,43,139,197,204,39>>, <<191,195,250,132,44,65,232,180>>, <<191,184,9,137,218,175,31,225>>,
            <<191,160,11,189,2,22,20,60>>, <<63,160,11,189,2,22,123,242>>, <<63,184,9,137,218,175,83,136>>, <<63,195,250,132,44,66,2,83>>,
            <<63,203,220,43,139,197,167,2>>, <<63,209,208,230,231,229,42,254>>, <<63,213,161,204,245,63,85,10>>, <<63,217,92,241,108,113,158,160>>,
            <<63,220,254,147,173,138,99,244>>, <<63,224,65,134,96,36,183,161>>, <<63,225,243,105,128,59,63,52>>, <<63,227,147,62,214,91,187,192>>,
            <<63,229,31,100,42,42,142,252>>, <<63,230,150,75,16,59,212,89>>, <<63,231,246,122,122,200,232,142>>, <<63,233,62,144,52,231,181,27>>,
            <<63,234,109,66,70,200,69,74>>, <<63,235,129,96,65,145,137,54>>, <<63,236,121,212,113,143,75,22>>, <<63,237,85,164,245,126,23,134>>,
            <<63,238,19,244,185,219,157,150>>, <<63,238,180,4,87,63,32,218>>, <<63,239,53,50,210,217,253,233>>, <<63,239,150,254,64,95,25,227>>,
            <<63,239,217,4,68,174,28,198>>, <<63,239,251,2,120,191,5,128>>, <<63,239,252,214,172,106,209,84>>, <<63,239,222,127,8,205,221,27>>,
            <<63,239,160,26,18,33,120,16>>, <<63,239,65,230,137,10,216,239>>, <<63,238,196,67,43,126,64,186>>, <<63,238,39,174,85,117,213,181>>,
            <<63,237,108,197,129,219,232,237>>, <<63,236,148,68,172,40,194,202>>, <<63,235,159,5,147,82,232,15>>, <<63,234,141,254,222,208,11,37>>,
            <<63,233,98,67,38,131,130,90>>, <<63,232,28,255,222,146,113,136>>, <<63,230,191,124,40,53,28,116>>, <<63,229,75,23,136,180,167,32>>,
            <<63,227,193,72,135,225,145,107>>, <<63,226,35,155,55,101,102,188>>, <<63,224,115,175,164,107,36,1>>, <<63,221,102,112,106,93,134,118>>,
            <<63,217,199,239,232,48,243,68>>, <<63,214,15,129,148,55,225,210>>, <<63,210,64,227,84,68,108,242>>, <<63,204,191,210,189,95,9,30>>,
            <<63,196,224,244,193,1,55,91>>, <<63,185,218,46,68,25,249,165>>, <<63,163,176,229,182,117,210,31>>, <<191,152,204,189,224,26,68,191>>,
            <<191,182,56,149,127,157,153,155>>, <<191,195,19,209,37,121,137,235>>, <<191,202,248,39,177,193,50,20>>, <<191,209,96,175,58,183,130,127>>,
            <<191,213,51,208,100,119,130,237>>, <<191,216,241,158,150,61,172,105>>, <<191,220,150,86,130,115,150,48>>, <<191,224,15,39,11,83,6,21>>,
            <<191,225,194,252,21,124,81,23>>, <<191,227,100,244,10,66,249,5>>, <<191,228,243,106,139,137,122,188>>, <<191,230,108,206,217,79,1,186>>,
            <<191,231,207,165,100,188,121,110>>, <<191,233,26,137,77,225,5,57>>, <<191,234,76,45,202,158,125,64>>, <<191,235,99,95,117,92,78,77>>,
            <<191,236,95,5,130,48,228,167>>, <<191,237,62,34,217,74,73,144>>, <<191,237,255,215,21,121,138,80>>, <<191,238,163,95,101,226,1,185>>,
            <<191,239,40,23,81,232,42,197>>, <<191,239,141,121,94,156,24,69>>, <<191,239,211,31,148,248,104,0>>, <<191,239,248,195,232,111,45,40>>,
            <<191,239,254,64,125,93,103,150>>, <<191,239,227,143,207,30,72,242>>, <<191,239,168,204,181,151,240,232>>, <<191,239,78,50,74,60,29,207>>,
            <<191,238,212,27,172,151,208,248>>, <<191,238,59,3,166,174,3,13>>, <<191,237,131,132,49,120,255,20>>, <<191,236,174,85,218,15,86,87>>,
            <<191,235,188,79,8,7,142,212>>, <<191,234,174,99,37,213,102,160>>, <<191,233,133,161,171,249,225,7>>, <<191,232,67,53,15,251,194,182>>,
            <<191,230,232,97,152,59,143,147>>, <<191,229,118,132,21,208,129,170>>, <<191,227,239,16,133,183,50,220>>, <<191,226,83,144,154,177,158,156>>,
            <<191,224,165,162,49,82,117,215>>, <<191,221,205,235,95,127,114,103>>, <<191,218,50,152,165,163,137,196>>, <<191,214,124,236,212,132,85,23>>,
            <<191,210,176,163,11,99,15,240>>, <<191,205,163,26,81,106,23,39>>, <<191,197,199,31,229,79,201,125>>, <<191,187,170,124,178,139,177,7>>,
            <<191,167,85,204,237,164,156,71>>, <<63,145,129,175,65,44,2,138>>, <<63,180,103,87,61,65,162,77>>, <<63,194,44,222,171,236,119,6>>,
            <<63,202,19,202,37,168,166,118>>, <<63,208,240,61,193,243,0,190>>, <<63,212,197,141,79,172,171,31>>, <<63,216,133,248,202,133,206,229>>,
            <<63,220,45,186,67,199,215,75>>, <<63,223,185,36,154,251,164,241>>, <<63,225,146,83,152,56,100,49>>, <<63,227,54,104,189,141,12,176>>,
            <<63,228,199,43,63,18,130,189>>, <<63,230,67,8,13,103,166,99>>, <<63,231,168,129,29,147,145,46>>, <<63,232,246,46,233,65,99,192>>,
            <<63,234,42,193,216,87,126,170>>, <<63,235,69,3,146,124,58,103>>, <<63,236,67,216,55,54,157,231>>, <<63,237,38,63,123,111,184,89>>,
            <<63,237,235,85,171,54,116,121>>, <<63,238,146,84,142,194,22,39>>, <<63,239,26,148,49,205,65,217>>, <<63,239,131,139,140,129,28,87>>,
            <<63,239,204,209,13,70,96,91>>, <<63,239,246,27,2,242,47,225>>, <<63,239,255,63,230,227,113,0>>, <<63,239,232,54,134,198,133,136>>,
            <<63,239,177,22,13,213,23,109>>, <<63,239,90,21,237,136,218,248>>, <<63,238,227,141,165,216,144,168>>, <<63,238,77,244,109,55,140,107>>,
            <<63,237,153,224,184,176,12,219>>, <<63,236,200,7,164,145,37,153>>, <<63,235,217,60,62,72,53,218>>, <<63,234,206,110,176,29,131,216>>,
            <<63,233,168,171,79,168,245,199>>, <<63,232,105,25,143,242,54,55>>, <<63,231,16,250,216,75,150,7>>, <<63,229,161,169,65,18,73,235>>,
            <<63,228,28,150,55,153,205,83>>, <<63,226,131,73,10,159,94,118>>, <<63,224,215,93,96,188,152,45>>, <<63,222,53,3,52,199,144,119>>,
            <<63,218,156,234,66,14,102,6>>, <<63,214,234,13,74,59,246,54>>, <<63,211,32,36,153,152,65,247>>, <<63,206,133,255,84,1,255,136>>,
            <<63,198,173,2,155,172,253,223>>, <<63,189,122,111,29,206,122,216>>, <<63,170,250,102,136,243,233,3>>, <<191,132,108,204,209,200,85,169>>,
            <<191,178,149,213,30,237,91,51>>, <<191,193,69,175,191,178,30,74>>, <<191,201,47,21,222,253,117,115>>, <<191,208,127,147,243,143,94,68>>,
            <<191,212,87,5,37,149,74,180>>, <<191,216,26,1,111,78,237,131>>, <<191,219,196,192,77,113,152,204>>, <<191,223,83,145,157,188,249,11>>,
            <<191,225,97,112,170,67,164,137>>, <<191,227,7,157,139,6,71,236>>, <<191,228,154,166,215,238,84,22>>, <<191,230,24,247,55,118,249,83>>,
            <<191,231,129,14,39,123,249,147>>, <<191,232,209,129,127,240,77,65>>, <<191,234,8,254,223,26,243,94>>, <<191,235,38,76,253,233,96,115>>,
            <<191,236,40,76,235,3,61,231>>, <<191,237,13,251,43,97,35,201>>, <<191,237,214,112,191,69,11,231>>, <<191,238,128,228,10,141,116,25>>,
            <<191,239,12,169,159,121,186,80>>, <<191,239,121,52,235,19,211,11>>, <<191,239,198,24,194,145,178,72>>, <<191,239,243,7,209,32,153,82>>,
            <<191,239,255,212,229,171,119,149>>, <<191,239,236,115,32,78,113,195>>, <<191,239,184,245,255,73,175,214>>, <<191,239,101,145,75,102,112,228>>,
            <<191,238,242,152,227,226,52,16>>, <<191,238,96,128,106,20,55,249>>, <<191,237,175,218,205,34,60,161>>, <<191,236,225,89,182,57,125,44>>,
            <<191,235,245,204,213,224,90,93>>, <<191,234,238,33,19,20,214,7>>, <<191,233,203,95,157,9,64,93>>, <<191,232,142,172,224,111,148,0>>,
            <<191,231,57,71,97,94,244,86>>, <<191,229,204,134,122,251,151,225>>, <<191,228,73,217,6,35,42,34>>, <<191,226,178,195,232,120,178,80>>,
            <<191,225,8,224,141,67,199,112>>, <<191,222,155,182,147,87,0,202>>, <<191,219,6,227,91,216,7,76>>, <<191,215,86,225,138,110,185,5>>,
            <<191,211,143,102,140,10,85,35>>, <<191,207,104,126,210,137,219,221>>, <<191,199,146,153,231,137,22,182>>, <<191,191,73,255,126,224,14,130>>,
            <<191,174,158,166,106,183,75,228>>, <<63,103,87,220,204,114,220,68>>, <<63,176,196,21,48,213,225,28>>, <<63,192,94,71,97,171,156,196>>,
            <<63,200,74,13,214,97,130,109>>, <<63,208,14,179,70,63,144,142>>, <<63,211,232,57,85,205,191,66>>, <<63,215,173,185,235,172,216,245>>,
            <<63,219,91,105,252,147,111,116>>, <<63,222,237,150,112,187,173,83>>, <<63,225,48,83,238,52,195,41>>, <<63,226,216,147,14,79,127,72>>,
            <<63,228,109,221,234,43,111,212>>, <<63,229,238,156,227,100,77,51>>, <<63,231,89,77,5,169,33,132>>, <<63,232,172,129,139,233,99,20>>,
            <<63,233,230,229,79,49,245,86>>, <<63,235,7,60,29,201,92,173>>, <<63,236,12,99,249,50,55,246>>, <<63,236,245,86,57,211,158,162>>,
            <<63,237,193,40,151,34,235,205>>, <<63,238,111,14,19,68,84,253>>, <<63,238,254,87,201,54,26,94>>, <<63,239,110,117,156,182,125,222>>,
            <<63,239,190,246,203,51,196,26>>, <<63,239,239,138,93,52,127,108>>, <<63,239,255,255,119,197,243,20>>, <<63,239,240,69,141,158,218,150>>,
            <<63,239,192,108,111,197,4,52>>, <<63,239,112,164,61,165,6,149>>, <<63,239,1,61,52,172,39,13>>, <<63,238,114,167,95,149,4,231>>,
            <<63,237,197,114,37,184,42,226>>, <<63,236,250,75,186,210,25,241>>, <<63,236,18,0,111,207,131,86>>, <<63,235,13,121,229,80,48,4>>,
            <<63,233,237,190,32,174,245,63>>, <<63,232,179,238,132,123,135,136>>, <<63,231,97,70,173,110,147,12>>, <<63,229,247,27,52,253,84,61>>,
            <<63,228,118,216,90,203,123,111>>, <<63,226,226,0,150,84,147,137>>, <<63,225,58,43,18,60,136,148>>, <<63,223,2,4,37,157,3,184>>,
            <<63,219,112,130,146,141,163,50>>, <<63,215,195,104,43,42,6,197>>, <<63,211,254,103,112,179,40,102>>, <<63,208,37,74,237,218,213,194>>,
            <<63,200,119,226,205,79,103,70>>, <<63,192,140,147,232,1,218,67>>, <<63,177,33,64,59,54,96,178>>, <<63,113,129,227,168,123,91,199>>,
            <<191,173,228,58,255,248,202,100>>, <<191,190,237,81,38,240,61,202>>, <<191,199,100,181,5,141,65,32>>, <<191,207,59,58,98,218,207,108>>,
            <<191,211,121,43,80,211,98,33>>, <<191,215,65,35,167,190,22,235>>, <<191,218,241,184,175,130,192,224>>, <<191,222,135,52,103,35,204,97>>,
            <<191,224,254,254,7,98,136,250>>, <<191,226,169,73,227,220,5,30>>, <<191,228,64,209,10,188,99,191>>, <<191,229,195,249,158,11,108,200>>,
            <<191,231,49,62,60,82,148,90>>, <<191,232,135,47,136,58,193,137>>, <<191,233,196,117,154,5,143,191>>, <<191,234,231,209,89,110,34,26>>,
            <<191,235,240,29,190,150,115,173>>, <<191,236,220,80,248,189,183,72>>, <<191,237,171,125,121,151,203,16>>, <<191,238,92,210,228,56,104,130>>,
            <<191,238,239,158,222,162,89,195>>, <<191,239,99,77,197,39,125,94>>, <<191,239,183,107,62,229,114,126>>, <<191,239,235,162,178,201,91,91>>,
            <<191,239,255,191,156,165,78,17>>, <<191,239,243,173,194,1,169,220>>, <<191,239,199,121,70,117,72,131>>, <<191,239,123,78,159,112,11,255>>,
            <<191,239,15,122,103,132,38,76>>, <<191,238,132,105,17,90,228,199>>, <<191,237,218,166,122,162,193,186>>, <<191,237,18,221,95,100,36,212>>,
            <<191,236,45,214,174,74,125,108>>, <<191,235,44,120,190,142,95,245>>, <<191,234,15,198,104,75,182,144>>, <<191,232,216,222,0,45,135,91>>,
            <<191,231,136,248,55,116,60,124>>, <<191,230,33,102,225,121,99,220>>, <<191,228,163,147,159,235,93,116>>, <<191,227,16,254,119,24,193,164>>,
            <<191,225,107,60,75,183,164,120>>, <<191,223,103,234,151,91,133,178>>, <<191,219,217,198,134,231,69,43>>, <<191,216,47,159,195,125,113,241>>,
            <<191,212,109,37,214,100,155,42>>, <<191,208,150,32,191,202,200,197>>, <<191,201,92,218,82,111,68,17>>, <<191,193,115,241,6,107,102,178>>,
            <<191,178,242,244,72,114,251,0>>, <<191,135,87,189,190,149,35,135>>, <<63,170,63,232,52,56,23,110>>, <<63,189,29,172,174,217,184,222>>,
            <<63,198,127,14,103,69,145,67>>, <<63,206,88,166,90,103,232,107>>, <<63,211,9,220,135,255,190,231>>, <<63,214,212,64,12,166,249,4>>,
            <<63,218,135,173,197,195,169,106>>, <<63,222,32,108,213,119,206,230>>, <<63,224,205,111,153,225,223,116>>, <<63,226,121,194,168,239,161,67>>,
            <<63,228,19,128,207,117,145,77>>, <<63,229,153,13,245,58,187,17>>, <<63,231,8,226,80,177,245,167>>, <<63,232,97,139,241,3,143,171>>,
            <<63,233,161,176,50,29,107,168>>, <<63,234,200,13,25,84,154,158>>, <<63,235,211,122,153,57,24,56>>, <<63,236,194,235,187,86,56,36>>,
            <<63,237,149,111,174,180,109,221>>, <<63,238,74,50,186,11,236,201>>, <<63,238,224,127,16,181,67,109>>, <<63,239,87,189,137,128,230,163>>,
            <<63,239,175,118,54,190,191,232>>, <<63,239,231,80,222,219,230,44>>, <<63,239,255,21,85,29,232,137>>, <<63,239,246,171,178,34,17,100>>,
            <<63,239,206,28,107,231,228,117>>, <<63,239,133,144,77,78,180,137>>, <<63,239,29,80,77,14,214,3>>, <<63,238,149,197,68,87,162,49>>,
            <<63,237,239,119,133,92,80,230>>, <<63,237,43,14,82,57,77,217>>, <<63,236,73,79,52,188,154,102>>, <<63,235,75,29,55,185,103,44>>,
            <<63,234,49,120,2,175,234,32>>, <<63,232,253,122,216,174,31,113>>, <<63,231,176,91,123,108,97,239>>, <<63,230,75,104,243,196,196,218>>,
            <<63,228,208,10,64,189,200,51>>, <<63,227,63,188,238,123,230,173>>, <<63,225,156,19,150,132,154,50>>, <<63,223,205,104,149,171,27,52>>,
            <<63,220,66,173,218,204,124,4>>, <<63,216,155,134,235,127,102,164>>, <<63,212,219,160,76,206,15,193>>, <<63,209,6,191,103,207,80,127>>,
            <<63,202,65,125,125,103,162,210>>, <<63,194,91,20,25,50,169,173>>, <<63,180,196,105,80,54,70,27>>, <<63,146,247,30,3,76,99,212>>,
            <<191,166,155,62,27,42,148,130>>, <<191,187,77,167,97,18,180,38>>, <<191,197,153,28,247,82,209,163>>, <<191,205,117,173,100,182,1,54>>,
            <<191,210,154,78,109,131,198,255>>, <<191,214,103,16,132,141,99,47>>, <<191,218,29,74,160,4,78,82>>, <<191,221,185,65,17,139,106,112>>,
            <<191,224,155,169,74,131,215,240>>, <<191,226,73,253,251,156,120,216>>, <<191,227,229,237,207,11,108,95>>, <<191,229,109,218,119,177,91,165>>,
            <<191,230,224,57,201,1,157,246>>, <<191,232,59,151,67,114,37,13>>, <<191,233,126,149,139,30,16,198>>, <<191,234,167,239,199,35,75,124>>,
            <<191,235,182,122,232,88,75,144>>, <<191,236,169,38,214,19,45,200>>, <<191,237,126,255,127,209,205,57>>, <<191,238,55,45,210,177,12,190>>,
            <<191,238,208,248,145,187,210,154>>, <<191,239,75,197,16,55,245,146>>, <<191,239,167,23,205,54,129,34>>, <<191,239,226,148,239,201,235,122>>,
            <<191,239,254,0,163,102,20,176>>, <<191,239,249,63,84,12,173,114>>, <<191,239,212,85,202,9,195,165>>, <<191,239,143,105,37,36,109,4>>,
            <<191,239,42,190,183,72,118,227>>, <<191,238,166,187,190,206,145,42>>, <<191,238,3,229,0,169,73,202>>, <<191,237,66,222,66,220,226,83>>,
            <<191,236,100,105,167,200,199,9>>, <<191,235,105,102,234,231,217,189>>, <<191,234,82,210,127,204,59,113>>, <<191,233,33,196,148,56,208,223>>,
            <<191,231,215,111,246,87,167,145>>, <<191,230,117,32,224,41,51,158>>, <<191,228,252,59,169,97,254,66>>, <<191,227,110,59,97,7,107,206>>,
            <<191,225,204,176,80,51,135,180>>, <<191,224,25,62,103,128,21,151>>, <<191,220,171,55,49,89,2,218>>, <<191,217,7,28,60,81,245,21>>,
            <<191,213,73,213,100,128,186,141>>, <<191,209,119,37,111,90,109,166>>, <<191,203,37,201,85,207,8,240>>, <<191,195,65,250,31,157,238,242>>,
            <<191,182,149,153,70,120,171,28>>, <<191,154,66,30,19,252,245,104>>, <<63,162,246,72,210,178,135,14>>, <<63,185,125,71,68,220,198,93>>,
            <<63,196,178,227,178,117,122,35>>, <<63,204,146,82,116,165,20,20>>, <<63,210,42,130,116,99,2,119>>, <<63,213,249,150,122,147,100,35>>,
            <<63,217,178,144,160,24,72,207>>, <<63,221,81,178,114,128,1,250>>, <<63,224,105,171,190,211,54,0>>, <<63,226,25,252,122,193,53,6>>,
            <<63,227,184,24,161,16,121,198>>, <<63,229,66,95,181,29,87,246>>, <<63,230,183,69,44,122,143,41>>, <<63,232,21,81,253,194,146,75>>,
            <<63,233,91,38,25,199,177,29>>, <<63,234,135,121,205,168,245,243>>, <<63,235,153,31,12,102,21,168>>, <<63,236,143,2,158,168,199,89>>,
            <<63,237,104,45,55,144,22,246>>, <<63,238,35,196,109,104,238,151>>, <<63,238,193,11,149,88,135,38>>, <<63,239,63,100,129,28,153,17>>,
            <<63,239,158,80,30,34,5,67>>, <<63,239,221,110,245,82,30,242>>, <<63,239,252,129,139,22,15,195>>, <<63,239,251,104,159,47,171,80>>,
            <<63,239,218,37,76,39,160,140>>, <<63,239,152,217,6,49,79,167>>, <<63,239,55,197,121,133,111,100>>, <<63,238,183,76,72,85,84,45>>,
            <<63,238,23,238,168,153,77,238>>, <<63,237,90,76,226,28,190,121>>, <<63,236,127,37,173,74,232,36>>, <<63,235,135,85,115,94,49,113>>,
            <<63,234,115,213,112,179,25,96>>, <<63,233,69,186,186,29,126,52>>, <<63,231,254,53,38,60,216,236>>, <<63,230,158,142,27,231,18,139>>,
            <<63,229,40,39,70,221,120,157>>, <<63,227,156,121,52,25,203,67>>, <<63,225,253,17,215,23,83,143>>, <<63,224,75,146,249,151,57,133>>,
            <<63,221,19,97,46,224,214,237>>, <<63,217,114,94,80,39,5,53>>, <<63,213,183,195,174,244,134,124>>, <<63,209,231,81,96,154,148,133>>,
            <<63,204,9,186,228,95,35,131>>, <<63,196,40,160,25,191,73,181>>, <<63,184,102,126,32,22,74,146>>, <<63,160,198,99,104,3,91,9>>,
            <<191,158,162,40,243,94,131,58>>, <<191,183,172,146,98,167,136,14>>, <<191,195,204,101,150,92,232,214>>, <<191,203,174,152,126,90,60,123>>,
            <<191,209,186,122,16,110,159,86>>, <<191,213,139,211,90,210,244,242>>, <<191,217,71,129,40,244,13,75>>, <<191,220,233,194,80,191,106,255>>,
            <<191,224,55,119,157,18,127,33>>, <<191,225,233,190,198,6,150,204>>, <<191,227,138,1,221,243,87,49>>, <<191,229,22,158,62,25,181,106>>,
            <<191,230,142,5,3,82,222,229>>, <<191,231,238,188,159,60,243,3>>, <<191,233,55,98,83,244,97,145>>, <<191,234,102,171,152,219,43,0>>,
            <<191,235,123,103,103,6,239,239>>, <<191,236,116,127,108,8,57,133>>, <<191,237,80,249,33,213,206,166>>, <<191,238,15,246,202,194,245,195>>,
            <<191,238,176,184,80,130,203,94>>, <<191,239,50,156,5,88,232,16>>, <<191,239,149,31,70,180,185,32>>, <<191,239,215,223,0,147,224,43>>,
            <<191,239,250,152,17,39,246,14>>, <<191,239,253,39,140,90,224,39>>, <<191,239,223,138,222,238,67,21>>, <<191,239,161,223,209,18,134,191>>,
            <<191,239,68,100,104,114,228,76>>, <<191,238,199,118,169,212,156,51>>, <<191,238,43,148,58,135,250,2>>, <<191,237,113,89,226,10,123,247>>,
            <<191,236,153,130,236,88,239,85>>, <<191,235,164,232,109,144,28,200>>, <<191,234,148,128,103,154,3,2>>, <<191,233,105,92,210,194,7,9>>,
            <<191,232,36,170,138,42,120,104>>, <<191,230,199,176,29,55,10,28>>, <<191,229,83,204,135,29,219,97>>, <<191,227,202,117,205,232,95,71>>,
            <<191,226,45,55,138,71,198,172>>, <<191,224,125,177,89,183,19,130>>, <<191,221,123,42,120,245,103,222>>, <<191,217,221,75,194,69,202,243>>,
            <<191,214,37,105,190,140,216,14>>, <<191,210,87,65,198,127,13,83>>, <<191,204,237,79,50,253,169,184>>, <<191,197,15,3,8,125,145,32>>,
            <<191,186,55,17,210,230,147,0>>, <<191,164,107,127,251,156,67,195>>, <<63,151,87,90,95,157,171,1>>, <<63,181,219,142,195,252,131,2>>,
            <<63,194,229,165,161,158,45,98>>, <<63,202,202,130,119,54,221,13>>, <<63,209,74,54,182,65,23,234>>, <<63,213,29,200,146,89,32,78>>,
            <<63,216,220,29,158,168,49,89>>, <<63,220,129,114,5,247,229,9>>, <<63,224,5,13,140,57,196,62>>, <<63,225,185,69,125,221,205,69>>,
            <<63,227,91,170,30,252,179,111>>, <<63,228,234,150,164,44,196,124>>, <<63,230,100,121,214,187,230,136>>, <<63,231,199,215,168,51,187,211>>,
            <<63,233,19,74,176,150,184,86>>, <<63,234,69,133,149,213,8,89>>, <<63,235,93,84,91,16,151,254>>, <<63,236,89,157,150,94,157,87>>,
            <<63,237,57,99,139,206,171,159>>, <<63,237,251,197,44,155,231,42>>, <<63,238,159,254,249,134,37,7>>, <<63,239,37,107,199,112,166,196>>,
            <<63,239,139,133,101,127,195,127>>, <<63,239,209,229,36,15,6,204>>, <<63,239,248,68,59,247,178,99>>, <<63,239,254,124,21,191,229,82>>,
            <<63,239,228,134,112,106,202,116>>, <<63,239,170,125,103,194,198,229>>, <<63,239,80,155,90,23,72,198>>, <<63,238,215,58,173,136,206,74>>,
            <<63,238,62,213,117,29,201,67>>, <<63,237,136,4,245,252,90,227>>, <<63,236,179,129,13,67,237,124>>, <<63,235,194,31,119,33,210,8>>,
            <<63,234,180,210,247,219,43,15>>, <<63,233,140,170,103,163,213,204>>, <<63,232,74,207,162,56,76,221>>, <<63,230,240,134,91,76,23,66>>,
            <<63,229,127,42,216,250,171,218>>, <<63,227,248,48,149,129,110,112>>, <<63,226,93,32,201,163,176,137>>, <<63,224,175,152,225,47,238,75>>,
            <<63,221,226,145,182,105,165,36>>, <<63,218,71,227,47,14,125,92>>, <<63,214,146,198,38,157,107,60>>, <<63,210,198,245,44,189,133,114>>,
            <<63,205,208,131,76,198,116,226>>, <<63,197,245,31,237,158,213,255>>, <<63,188,7,78,85,206,88,227>>, <<63,168,16,88,165,103,51,63>>,
            <<191,144,12,62,42,211,127,17>>, <<191,180,10,66,115,107,30,16>>, <<191,193,254,166,211,168,152,78>>, <<191,201,230,19,85,206,138,134>>,
            <<191,208,217,185,219,56,132,108>>, <<191,212,175,119,143,33,38,40>>, <<191,216,112,103,102,93,65,100>>, <<191,220,24,194,237,23,127,209>>,
            <<191,223,164,220,103,232,236,192>>, <<191,225,136,145,67,126,3,163>>, <<191,227,45,17,254,77,131,142>>, <<191,228,190,73,121,197,232,152>>,
            <<191,230,58,164,48,224,122,229>>, <<191,231,160,163,154,2,58,74>>, <<191,232,238,223,167,184,55,199>>, <<191,234,36,8,50,213,151,160>>,
            <<191,235,62,230,76,136,224,13>>, <<191,236,62,93,119,19,195,116>>, <<191,237,33,108,195,234,177,66>>, <<191,237,231,47,214,29,14,30>>,
            <<191,238,142,223,200,1,164,149>>, <<191,239,23,211,243,64,164,53>>, <<191,239,129,130,154,113,167,66>>, <<191,239,203,129,115,163,163,195>>,
            <<191,239,245,134,19,66,232,29>>, <<191,239,255,102,54,242,41,55>>, <<191,239,233,23,240,10,226,88>>, <<191,239,178,177,173,154,159,9>>,
            <<191,239,92,106,37,210,237,43>>, <<191,238,230,152,31,2,208,253>>, <<191,238,81,178,24,80,238,204>>, <<191,237,158,77,210,142,77,91>>,
            <<191,236,205,31,185,153,97,192>>, <<191,235,222,250,46,233,54,104>>, <<191,234,212,204,181,246,188,240>>, <<191,233,175,163,3,89,105,221>>,
            <<191,232,112,163,239,137,74,68>>, <<191,231,25,16,78,85,36,223>>, <<191,229,170,65,172,55,134,212>>, <<191,228,37,168,242,206,52,195>>,
            <<191,226,140,204,245,210,199,85>>, <<191,224,225,72,234,8,125,132>>, <<191,222,73,149,143,86,150,189>>, <<191,218,178,35,51,255,194,211>>,
            <<191,214,255,215,123,110,152,121>>, <<191,211,54,106,31,214,106,142>>, <<191,206,179,84,62,21,85,191>>, <<191,198,218,243,203,209,90,210>>,
            <<191,189,215,45,160,212,105,11>>, <<191,171,180,225,70,231,5,177>>, <<63,129,129,217,45,98,79,6>>, <<63,178,56,179,124,116,5,216>>,
            <<63,193,23,108,44,188,191,91>>, <<63,201,1,78,17,221,48,208>>, <<63,208,105,4,245,114,183,113>>, <<63,212,64,225,192,16,51,136>>,
            <<63,216,4,95,230,78,78,127>>, <<63,219,175,182,98,71,153,95>>, <<63,223,63,52,121,62,86,31>>, <<63,225,87,162,184,226,125,218>>,
            <<63,226,254,58,22,220,182,2>>, <<63,228,145,183,82,60,17,164>>, <<63,230,16,132,156,227,32,190>>, <<63,231,121,32,247,10,166,184>>,
            <<63,232,202,33,178,119,191,41>>, <<63,234,2,51,223,62,122,70>>, <<63,235,32,29,160,164,48,216>>, <<63,236,34,191,104,201,40,188>>,
            <<63,237,9,21,25,221,35,228>>, <<63,237,210,55,11,187,92,254>>, <<63,238,125,90,244,231,12,94>>, <<63,239,9,212,181,254,54,77>>,
            <<63,239,119,23,6,213,212,131>>, <<63,239,196,180,4,145,189,65>>, <<63,239,242,93,160,40,220,135>>, <<63,239,255,229,236,230,254,162>>,
            <<63,239,237,63,78,156,251,180>>, <<63,239,186,124,135,80,232,144>>, <<63,239,103,208,164,96,121,69>>, <<63,238,245,142,203,40,168,222>>,
            <<63,238,100,41,229,102,42,148>>, <<63,237,180,52,45,162,217,237>>, <<63,236,230,94,156,36,60,9>>, <<63,235,251,120,52,239,89,11>>,
            <<63,234,244,109,55,148,84,2>>, <<63,233,210,70,49,147,231,135>>, <<63,232,150,38,244,77,13,92>>, <<63,231,65,77,111,126,218,218>>,
            <<63,229,213,16,113,133,161,55>>, <<63,228,82,222,78,148,171,188>>, <<63,226,188,59,112,72,8,175>>, <<63,225,18,192,207,0,5,179>>,
            <<63,222,176,52,173,31,241,9>>, <<63,219,28,10,111,186,214,182>>, <<63,215,108,156,82,66,194,62>>, <<63,211,165,159,45,25,251,99>>,
            <<63,207,149,191,20,143,229,164>>, <<63,199,192,123,166,182,255,167>>, <<63,191,166,169,173,53,151,156>>, <<63,175,89,13,194,168,195,161>>,
            <<191,87,87,222,89,244,229,136>>, <<191,176,102,231,235,119,16,164>>, <<191,192,47,248,173,226,67,71>>, <<191,200,28,53,164,61,52,67>>,
            <<191,207,240,50,247,143,19,227>>, <<191,211,210,8,148,239,232,221>>, <<191,215,152,8,133,197,51,56>>, <<191,219,70,77,194,232,88,40>>,
            <<191,222,217,36,158,139,72,100>>, <<191,225,38,122,128,200,112,178>>, <<191,226,207,35,4,117,85,14>>, <<191,228,100,224,193,203,125,37>>,
            <<191,229,230,27,166,220,50,88>>, <<191,231,81,80,66,180,157,29>>, <<191,232,165,17,75,7,247,216>>, <<191,233,224,9,11,146,147,89>>,
            <<191,235,0,250,189,196,89,225>>, <<191,236,6,195,199,88,148,79>>, <<191,236,240,92,222,155,120,237>>, <<191,237,188,219,19,54,131,159>>,
            <<191,238,107,112,186,122,37,110>>, <<191,238,251,110,62,54,160,3>>, <<191,239,108,66,205,84,51,201>>, <<191,239,189,124,237,121,15,162>>,
            <<191,239,238,202,237,42,83,255>>, <<191,239,255,251,53,245,166,223>>, <<191,239,240,252,126,80,128,58>>, <<191,239,193,221,218,251,24,133>>,
            <<191,239,114,206,175,213,130,89>>, <<191,239,4,30,128,54,42,237>>, <<191,238,118,60,158,241,154,12>>, <<191,237,201,183,190,100,54,186>>,
            <<191,236,255,61,96,237,255,173>>, <<191,236,23,153,42,113,114,222>>, <<191,235,19,180,19,132,58,168>>, <<191,233,244,147,127,32,116,236>>,
            <<191,232,187,88,51,193,136,177>>, <<191,231,105,61,56,245,94,141>>, <<191,229,255,150,154,133,247,131>>, <<191,228,127,208,18,121,204,19>>,
            <<191,226,235,107,155,67,161,70>>, <<191,225,67,255,235,144,129,219>>, <<191,223,22,109,186,120,23,208>>, <<191,219,133,151,130,8,61,252>>,
            <<191,215,217,19,65,90,177,37>>, <<191,212,20,146,226,172,158,177>>, <<191,208,59,224,111,151,200,156>>, <<191,200,165,180,130,238,51,216>>,
            <<191,192,186,222,58,188,101,130>>, <<191,177,126,104,254,52,119,66>>, <<191,119,87,214,150,122,60,39>>, <<63,173,41,203,155,55,70,70>>,
            <<63,190,144,158,177,187,164,67>>, <<63,199,54,205,6,221,80,63>>, <<63,207,13,241,203,136,239,224>>, <<63,211,98,237,126,106,11,173>>,
            <<63,215,43,98,173,21,25,144>>, <<63,218,220,138,109,140,4,1>>, <<63,222,114,174,43,64,148,107>>, <<63,224,245,25,62,172,228,141>>,
            <<63,226,159,205,99,180,167,177>>, <<63,228,55,198,93,147,249,191>>, <<63,229,187,105,219,216,60,38>>, <<63,231,41,50,1,107,82,118>>,
            <<63,232,127,174,236,173,190,223>>, <<63,233,189,136,41,116,89,175>>, <<63,234,225,126,11,119,52,196>>, <<63,235,234,106,239,211,34,169>>,
            <<63,236,215,68,100,92,100,202>>, <<63,237,167,28,51,152,30,218>>, <<63,238,89,33,84,79,249,62>>, <<63,238,236,160,187,206,114,111>>,
            <<63,239,97,6,17,240,187,15>>, <<63,239,181,220,70,88,182,249>>, <<63,239,234,206,6,41,112,202>>, <<63,239,255,166,17,215,87,70>>,
            <<63,239,244,79,114,181,252,81>>, <<63,239,200,213,144,13,152,52>>, <<63,239,125,100,35,162,255,9>>, <<63,239,18,71,13,189,146,59>>,
            <<63,238,135,234,8,215,137,52>>, <<63,237,222,216,61,69,35,44>>, <<63,237,23,187,181,63,218,174>>, <<63,236,51,92,177,226,88,181>>,
            <<63,235,50,160,225,192,252,46>>, <<63,234,22,138,121,233,251,96>>, <<63,232,224,55,50,52,163,138>>, <<63,231,144,223,37,230,26,173>>,
            <<63,230,41,211,153,202,247,255>>, <<63,228,172,125,169,3,79,214>>, <<63,227,26,92,217,212,210,250>>, <<63,225,117,5,155,240,212,23>>,
            <<63,223,124,63,99,101,54,48>>, <<63,219,238,201,11,220,90,161>>, <<63,216,69,58,223,249,238,47>>, <<63,212,131,67,207,140,104,64>>,
            <<63,208,172,171,87,37,52,149>>, <<63,201,138,155,102,28,32,9>>, <<63,193,162,47,250,193,192,189>>, <<63,179,80,16,236,160,226,144>>,
            <<63,138,66,171,144,101,160,28>>, <<191,169,133,102,97,129,27,149>>, <<191,188,192,230,96,77,207,44>>, <<191,198,81,23,52,183,172,197>>,
            <<191,206,43,73,87,79,65,57>>, <<191,210,243,145,238,3,127,185>>, <<191,214,190,111,197,150,66,251>>, <<191,218,114,109,193,242,236,74>>,
            <<191,222,11,210,116,36,66,80>>, <<191,224,195,127,150,202,149,168>>, <<191,226,112,57,210,7,219,69>>, <<191,228,10,104,187,150,235,37>>,
            <<191,229,144,111,201,213,214,23>>, <<191,231,0,198,184,156,8,109>>, <<191,232,89,251,19,190,128,158>>, <<191,233,154,177,171,164,130,246>>,
            <<191,234,193,167,242,117,76,203>>, <<191,235,205,181,64,127,218,165>>, <<191,236,189,203,254,150,160,210>>, <<191,237,144,250,181,50,163,13>>,
            <<191,238,70,108,255,78,11,132>>, <<191,238,221,108,96,0,253,214>>, <<191,239,85,96,250,10,243,82>>, <<191,239,173,210,40,142,230,158>>,
            <<191,239,230,102,248,105,143,84>>, <<191,239,254,230,129,167,58,32>>, <<191,239,247,56,32,191,78,156>>, <<191,239,207,99,143,92,22,204>>,
            <<191,239,135,144,220,149,184,186>>, <<191,239,32,8,68,168,56,239>>, <<191,238,153,49,232,77,39,61>>, <<191,237,243,149,100,1,220,22>>,
            <<191,237,47,217,71,163,191,95>>, <<191,236,78,194,110,235,147,15>>, <<191,235,81,51,59,112,155,243>>, <<191,234,56,42,176,250,87,160>>,
            <<191,233,4,195,117,5,223,70>>, <<191,231,184,50,178,129,77,166>>, <<191,230,83,198,226,218,100,240>>, <<191,228,216,230,125,153,188,50>>,
            <<191,227,73,14,143,220,76,112>>, <<191,225,165,209,61,22,176,156>>, <<191,223,225,168,85,69,56,174>>, <<191,220,87,157,175,91,251,43>>,
            <<191,216,177,17,198,108,36,238>>, <<191,212,241,176,131,149,106,31>>, <<191,209,29,62,201,207,75,198>>, <<191,202,111,45,86,246,204,66>>,
            <<191,194,137,71,21,85,235,234>>, <<191,181,33,120,159,231,195,201>>, <<191,148,108,138,63,136,97,18>>, <<63,165,224,172,70,200,216,13>>,
            <<63,186,240,206,109,189,145,148>>, <<63,197,107,23,41,198,60,120>>, <<63,205,72,60,140,181,198,15>>, <<63,210,131,247,86,23,244,49>>,
            <<63,214,81,49,57,161,57,5>>, <<63,218,7,249,33,6,40,19>>, <<63,221,164,146,207,77,121,44>>, <<63,224,145,174,46,23,196,57>>,
            <<63,226,64,104,237,170,43,139>>, <<63,227,220,200,114,181,87,50>>, <<63,229,101,45,255,196,40,250>>, <<63,230,216,14,238,180,15,150>>,
            <<63,232,51,246,61,158,186,61>>, <<63,233,119,134,6,0,124,216>>, <<63,234,161,120,220,160,121,200>>, <<63,235,176,163,24,218,146,135>>,
            <<63,236,163,244,1,255,240,185>>, <<63,237,122,118,225,160,155,61>>, <<63,238,51,83,249,169,143,178>>, <<63,238,205,209,93,95,149,153>>,
            <<63,239,73,83,172,93,124,60>>, <<63,239,165,94,174,216,144,162>>, <<63,239,225,149,210,143,19,134>>, <<63,239,253,188,135,226,106,155>>,
            <<63,239,249,182,126,191,200,128>>, <<63,239,213,135,195,25,214,114>>, <<63,239,145,84,184,214,210,9>>, <<63,239,45,97,247,55,36,207>>,
            <<63,238,170,20,3,217,107,183>>, <<63,238,7,238,237,161,10,233>>, <<63,237,71,149,199,229,88,254>>, <<63,236,105,202,6,110,153,12>>,
            <<63,235,111,106,186,229,244,50>>, <<63,234,89,115,180,124,18,232>>, <<63,233,40,252,130,167,199,54>>, <<63,231,223,55,91,252,1,49>>,
            <<63,230,125,111,234,47,39,204>>, <<63,229,5,9,252,138,31,3>>, <<63,227,119,128,34,13,252,126>>, <<63,225,214,98,44,185,12,155>>,
            <<63,224,35,83,159,105,53,161>>, <<63,220,192,20,15,225,2,205>>, <<63,217,28,150,142,9,88,207>>, <<63,213,95,215,143,134,155,136>>,
            <<63,209,141,153,81,45,24,41>>, <<63,203,83,103,93,78,9,67>>, <<63,195,112,32,137,231,255,62>>, <<63,182,242,154,12,44,218,45>>,
            <<63,155,183,122,201,157,106,149>>, <<191,162,59,169,105,38,253,27>>, <<191,185,32,92,225,138,4,165>>, <<191,196,132,207,226,250,199,137>>,
            <<191,204,100,206,94,221,241,37>>, <<191,210,20,31,41,212,92,202>>, <<191,213,227,168,116,138,24,59>>, <<191,217,157,45,236,211,86,243>>,
            <<191,221,60,240,148,31,100,39>>, <<191,224,95,165,170,68,70,122>>, <<191,226,16,91,85,162,199,129>>, <<191,227,174,230,26,173,240,29>>,
            <<191,229,57,165,13,128,192,214>>, <<191,230,175,11,43,31,52,70>>, <<191,232,13,160,232,192,68,101>>, <<191,233,84,5,173,128,235,158>>,
            <<191,234,128,241,53,2,163,83>>, <<191,235,147,52,217,146,170,203>>, <<191,236,137,188,196,140,2,21>>, <<191,237,99,145,3,195,138,28>>,
            <<191,238,31,214,130,230,148,166>>, <<191,238,189,207,231,208,248,34>>, <<191,239,60,222,80,253,139,91>>, <<191,239,156,129,245,81,22,61>>,
            <<191,239,220,90,164,159,60,87>>, <<191,239,252,40,40,103,237,108>>, <<191,239,251,202,132,108,79,242>>, <<191,239,219,66,22,217,246,69>>,
            <<191,239,154,175,151,236,43,164>>, <<191,239,58,83,249,3,163,115>>, <<191,238,186,144,35,85,175,208>>, <<191,238,27,228,150,116,148,232>>,
            <<191,237,94,240,231,19,62,26>>, <<191,236,132,115,30,133,255,128>>, <<191,235,141,70,251,162,16,78>>, <<191,234,122,101,21,187,177,144>>,
            <<191,233,76,225,226,161,192,253>>, <<191,232,5,236,160,145,156,87>>, <<191,230,166,206,37,59,33,67>>, <<191,229,48,231,147,8,67,29>>,
            <<191,227,165,176,245,243,35,166>>, <<191,226,6,183,201,82,17,103>>, <<191,224,85,157,104,19,182,52>>, <<191,221,40,42,209,254,126,132>>,
            <<191,217,135,199,209,58,171,179>>, <<191,213,205,183,133,6,158,76>>, <<191,209,253,185,119,147,78,14>>, <<191,204,55,70,130,22,200,204>>,
            <<191,196,86,185,88,179,29,252>>, <<191,184,195,111,38,125,160,23>>, <<191,161,129,7,146,165,255,171>>, <<63,157,44,211,207,76,20,94>>,
            <<63,183,79,151,196,92,63,237>>, <<63,195,158,68,94,51,66,122>>, <<63,203,129,1,194,44,219,238>>, <<63,209,164,10,221,50,153,82>>,
            <<63,213,117,214,226,155,215,204>>, <<63,217,50,13,136,136,95,197>>, <<63,220,212,237,27,69,45,25>>, <<63,224,45,102,177,183,1,225>>,
            <<63,225,224,17,169,194,192,128>>, <<63,227,128,194,76,27,15,28>>, <<63,229,13,213,131,213,221,123>>, <<63,230,133,187,246,69,241,57>>,
            <<63,231,230,251,148,160,153,114>>, <<63,233,48,49,24,56,27,78>>, <<63,234,96,17,103,204,39,220>>, <<63,235,117,106,228,137,204,154>>,
            <<63,236,111,38,157,107,71,42>>, <<63,237,76,73,103,195,9,37>>, <<63,238,11,244,219,215,70,232>>, <<63,238,173,104,52,144,153,186>>,
            <<63,239,48,1,17,90,102,211>>, <<63,239,147,60,25,113,220,115>>, <<63,239,214,181,127,255,237,124>>, <<63,239,250,41,104,120,163,216>>,
            <<63,239,253,116,42,219,120,217>>, <<63,239,224,146,119,143,176,32>>, <<63,239,163,161,90,184,211,61>>, <<63,239,70,222,30,255,221,237>>,
            <<63,238,202,166,15,238,137,195>>, <<63,238,47,118,28,26,157,180>>, <<63,237,117,234,87,127,226,215>>, <<63,236,158,189,94,134,163,231>>,
            <<63,235,170,199,154,85,90,106>>, <<63,234,154,254,103,41,44,143>>, <<63,233,112,115,29,145,126,196>>, <<63,232,44,81,255,133,115,148>>,
            <<63,230,207,225,10,105,1,66>>, <<63,229,92,126,175,48,103,187>>, <<63,227,211,160,113,236,85,199>>, <<63,226,54,209,114,33,14,43>>,
            <<63,224,135,176,221,98,24,54>>, <<63,221,143,224,155,133,240,199>>, <<63,217,242,164,43,127,3,64>>, <<63,214,59,78,246,168,159,64>>,
            <<63,210,109,157,200,24,171,97>>, <<63,205,26,199,207,115,255,74>>, <<63,197,61,14,130,202,43,34>>, <<63,186,147,241,228,229,227,54>>,
            <<63,165,38,23,137,83,99,11>>, <<191,149,225,243,196,52,89,34>>, <<191,181,126,133,31,244,198,207>>, <<191,194,183,119,154,48,215,21>>,
            <<191,202,156,217,172,66,108,211>>, <<191,209,51,187,228,244,130,15>>, <<191,213,7,189,241,19,141,242>>, <<191,216,198,153,88,110,35,184>>,
            <<191,220,108,137,190,173,102,26>>, <<191,223,245,227,215,24,94,218>>, <<191,225,175,140,138,162,233,92>>, <<191,227,82,93,160,112,235,136>>,
            <<191,228,225,191,244,120,133,61>>, <<191,230,92,33,217,139,158,117>>, <<191,231,192,6,193,199,76,191>>, <<191,233,12,8,189,80,158,90>>,
            <<191,234,62,217,226,82,142,225>>, <<191,235,87,69,156,210,164,58>>, <<191,236,84,49,229,9,242,56>>, <<191,237,52,160,91,11,197,82>>,
            <<191,237,247,175,70,154,243,109>>, <<191,238,156,154,122,46,5,151>>, <<191,239,34,188,24,60,215,218>>, <<191,239,137,141,58,17,243,51>>,
            <<191,239,208,166,119,119,117,134>>, <<191,239,247,192,78,183,56,212>>, <<191,239,254,179,108,133,159,126>>, <<191,239,229,120,211,142,162,175>>,
            <<191,239,172,41,227,125,107,10>>, <<191,239,83,0,63,119,107,63>>, <<191,238,218,85,148,36,112,137>>, <<191,238,66,163,61,126,77,171>>,
            <<191,237,140,129,204,194,136,212>>, <<191,236,184,168,111,0,218,91>>, <<191,235,199,236,52,225,22,206>>, <<191,234,187,63,60,89,93,230>>,
            <<191,233,147,175,189,44,111,114>>, <<191,232,82,102,249,36,180,172>>, <<191,230,248,168,17,29,227,149>>, <<191,229,135,206,192,9,49,236>>,
            <<191,228,1,77,253,51,133,139>>, <<191,226,102,174,135,44,222,20>>, <<191,224,185,141,88,200,245,126>>, <<191,221,247,52,19,138,236,148>>,
            <<191,218,93,42,57,111,199,171>>, <<191,214,168,156,119,240,157,124>>, <<191,210,221,68,206,154,238,198>>, <<191,205,253,232,80,192,249,78>>,
            <<191,198,35,29,10,32,194,216>>, <<191,188,100,28,62,129,220,203>>, <<191,168,202,225,41,160,208,74>>, <<63,141,45,149,227,227,178,41>>,
            <<63,179,173,42,255,20,119,9>>, <<63,193,208,108,150,141,175,85>>, <<63,201,184,89,19,237,202,14>>, <<63,208,195,51,182,158,241,37>>,
            <<63,212,153,95,14,27,146,239>>, <<63,216,90,210,193,228,82,101>>, <<63,220,3,199,217,133,138,251>>, <<63,223,144,143,255,37,159,39>>,
            <<63,225,126,204,153,161,245,148>>, <<63,227,35,184,177,251,67,199>>, <<63,228,181,100,242,6,160,84>>, <<63,230,50,61,95,76,214,17>>,
            <<63,231,152,194,241,196,84,205>>, <<63,232,231,141,21,11,134,94>>, <<63,234,29,75,19,15,57,17>>, <<63,235,56,197,102,175,151,150>>,
            <<63,236,56,222,245,14,163,163>>, <<63,237,28,150,44,78,125,156>>, <<63,237,227,6,6,157,87,64>>, <<63,238,139,102,240,140,13,108>>,
            <<63,239,21,15,145,198,171,25>>, <<63,239,127,117,119,101,172,127>>, <<63,239,202,45,159,44,77,162>>, <<63,239,244,236,227,40,12,68>>,
            <<63,239,255,136,69,68,248,132>>, <<63,239,233,245,26,139,0,135>>, <<63,239,180,73,21,216,142,222>>, <<63,239,94,186,50,15,205,225>>,
            <<63,238,233,158,123,204,114,125>>, <<63,238,85,107,186,216,181,20>>, <<63,237,162,182,251,184,99,24>>, <<63,236,210,51,249,193,116,13>>,
            <<63,235,228,180,106,88,137,103>>, <<63,234,219,39,42,7,105,45>>, <<63,233,182,151,76,65,130,146>>, <<63,232,120,43,14,199,228,212>>,
            <<63,231,33,34,177,187,100,218>>, <<63,229,178,215,53,133,154,126>>, <<63,228,46,184,255,221,206,124>>, <<63,226,150,78,105,69,199,67>>,
            <<63,224,235,50,52,115,191,98>>, <<63,222,94,35,226,104,87,228>>, <<63,218,199,88,152,197,13,7>>, <<63,215,21,158,157,88,218,213>>,
            <<63,211,76,173,23,195,173,70>>, <<63,206,224,165,18,154,55,14>>, <<63,199,8,225,241,149,109,135>>, <<63,190,51,232,43,149,63,213>>,
            <<63,172,111,88,85,67,38,32>>, <<191,125,45,198,105,126,195,229>>, <<191,177,219,143,109,106,110,20>>, <<191,192,233,38,83,178,252,120>>,
            <<191,200,211,130,241,37,114,98>>, <<191,208,82,115,200,117,99,199>>, <<191,212,42,187,168,199,56,93>>, <<191,215,238,187,43,92,167,252>>,
            <<191,219,154,168,200,53,97,191>>, <<191,223,42,211,44,149,102,105>>, <<191,225,77,210,120,226,16,198>>, <<191,226,244,212,27,219,193,227>>,
            <<191,228,136,197,16,5,17,68>>, <<191,230,8,15,18,221,99,151>>, <<191,231,113,48,167,46,92,89>>, <<191,232,194,190,152,190,241,62>>,
            <<191,233,251,101,105,157,186,57>>, <<191,235,25,234,167,145,112,67>>, <<191,236,29,46,40,89,92,221>>, <<191,237,4,43,43,126,253,70>>,
            <<191,237,205,249,96,149,152,173>>, <<191,238,121,205,208,224,33,106>>, <<191,239,6,251,171,114,4,40>>, <<191,239,116,244,242,254,46,103>>,
            <<191,239,195,75,12,164,221,199>>, <<191,239,241,175,47,49,23,251>>, <<191,239,255,242,178,85,159,92>>, <<191,239,238,7,61,153,208,16>>,
            <<191,239,187,254,214,199,41,188>>, <<191,239,106,11,207,201,13,234>>, <<191,238,248,128,148,16,226,214>>, <<191,238,103,207,85,177,139,189>>,
            <<191,237,184,137,154,133,118,171>>, <<191,236,235,95,169,211,8,155>>, <<191,236,1,31,219,2,72,28>>, <<191,234,250,181,198,22,40,245>>,
            <<191,233,217,41,86,186,135,3>>, <<191,232,157,157,194,212,144,151>>, <<191,231,73,80,101,161,12,23>>, <<191,229,221,151,128,134,157,249>>,
            <<191,228,91,224,226,221,185,102>>, <<191,226,197,176,122,7,153,140>>, <<191,225,28,158,203,70,243,188>>, <<191,222,196,174,177,196,112,189>>,
            <<191,219,49,45,232,90,220,199>>, <<191,215,130,83,252,86,58,100>>, <<191,211,187,213,49,13,37,78>>, <<191,207,194,251,34,232,178,76>>,
            <<191,199,238,90,60,251,144,134>>, <<191,192,1,167,210,206,228,100>>, <<191,176,9,184,119,127,64,36>>, <<61,55,46,181,160,152,193,189>>,
            <<63,176,9,184,119,127,110,107>>, <<63,192,1,167,210,206,251,100>>, <<63,199,238,90,60,251,167,76>>, <<63,207,194,251,34,232,200,193>>,
            <<63,211,187,213,49,13,48,85>>, <<63,215,130,83,252,86,69,44>>, <<63,219,49,45,232,90,231,69>>, <<63,222,196,174,177,196,122,231>>,
            <<63,225,28,158,203,70,248,162>>, <<63,226,197,176,122,7,158,62>>, <<63,228,91,224,226,221,189,223>>, <<63,229,221,151,128,134,162,52>>,
            <<63,231,73,80,101,161,16,17>>, <<63,232,157,157,194,212,148,75>>, <<63,233,217,41,86,186,138,110>>, <<63,234,250,181,198,22,35,120>>,
            <<63,236,1,31,219,2,67,44>>, <<63,236,235,95,169,211,11,23>>, <<63,237,184,137,154,133,120,209>>, <<63,238,103,207,85,177,141,139>>,
            <<63,238,248,128,148,16,228,76>>, <<63,239,106,11,207,201,15,4>>, <<63,239,187,254,214,199,42,123>>, <<63,239,238,7,61,153,208,114>>,
            <<63,239,255,242,178,85,159,98>>, <<63,239,241,175,47,49,23,163>>, <<63,239,195,75,12,164,221,19>>, <<63,239,116,244,242,254,48,71>>,
            <<63,239,6,251,171,114,2,189>>, <<63,238,121,205,208,224,31,165>>, <<63,237,205,249,96,149,150,144>>, <<63,237,4,43,43,126,250,212>>,
            <<63,236,29,46,40,89,90,25>>, <<63,235,25,234,167,145,109,46>>, <<63,233,251,101,105,157,182,215>>, <<63,232,194,190,152,190,237,146>>,
            <<63,231,113,48,167,46,88,103>>, <<63,230,8,15,18,221,95,99>>, <<63,228,136,197,16,5,12,210>>, <<63,226,244,212,27,219,189,55>>,
            <<63,225,77,210,120,226,11,230>>, <<63,223,42,211,44,149,92,74>>, <<63,219,154,168,200,53,87,74>>, <<63,215,238,187,43,92,157,60>>,
            <<63,212,42,187,168,199,45,93>>, <<63,208,82,115,200,117,88,146>>, <<63,200,211,130,241,37,91,164>>, <<63,192,233,38,83,178,229,125>>,
            <<63,177,219,143,109,106,63,212>>, <<63,125,45,198,105,131,222,6>>, <<191,172,111,88,85,67,130,182>>, <<191,190,51,232,43,149,109,223>>,
            <<191,199,8,225,241,149,132,85>>, <<191,206,224,165,18,154,77,141>>, <<191,211,76,173,23,195,184,83>>, <<191,215,21,158,157,88,229,164>>,
            <<191,218,199,88,152,197,23,142>>, <<191,222,94,35,226,104,98,24>>, <<191,224,235,50,52,115,196,78>>, <<191,226,150,78,105,69,203,251>>,
            <<191,228,46,184,255,221,210,252>>, <<191,229,178,215,53,133,146,254>>, <<191,231,33,34,177,187,104,219>>, <<191,232,120,43,14,199,232,144>>,
            <<191,233,182,151,76,65,134,5>>, <<191,234,219,39,42,7,108,83>>, <<191,235,228,180,106,88,140,62>>, <<191,236,210,51,249,193,118,146>>,
            <<191,237,162,182,251,184,101,72>>, <<191,238,85,107,186,216,182,237>>, <<191,238,233,158,123,204,115,252>>, <<191,239,94,186,50,15,207,6>>,
            <<191,239,180,73,21,216,141,123>>, <<191,239,233,245,26,139,0,243>>, <<191,239,255,136,69,68,248,148>>, <<191,239,244,236,227,40,11,247>>,
            <<191,239,202,45,159,44,78,205>>, <<191,239,127,117,119,101,171,121>>, <<191,239,21,15,145,198,169,184>>, <<191,238,139,102,240,140,11,178>>,
            <<191,237,227,6,6,157,85,46>>, <<191,237,28,150,44,78,123,52>>, <<191,236,56,222,245,14,160,232>>, <<191,235,56,197,102,175,148,138>>,
            <<191,234,29,75,19,15,53,183>>, <<191,232,231,141,21,11,130,186>>, <<191,231,152,194,241,196,80,226>>, <<191,230,50,61,95,76,209,228>>,
            <<191,228,181,100,242,6,155,233>>, <<191,227,35,184,177,251,75,245>>, <<191,225,126,204,153,161,240,185>>, <<191,223,144,143,255,37,149,18>>,
            <<191,220,3,199,217,133,128,143>>, <<191,216,90,210,193,228,71,173>>, <<191,212,153,95,14,27,135,246>>, <<191,208,195,51,182,158,229,246>>,
            <<191,201,184,89,19,237,179,89>>, <<191,193,208,108,150,141,152,96>>, <<191,179,173,42,255,20,72,206>>, <<191,141,45,149,227,226,63,71>>,
            <<63,168,202,225,41,161,44,233>>, <<63,188,100,28,62,130,10,223>>, <<63,198,35,29,10,32,217,174>>, <<63,205,253,232,80,192,209,160>>,
            <<63,210,221,68,206,154,249,217>>, <<63,214,168,156,119,240,168,83>>, <<63,218,93,42,57,111,181,18>>, <<63,221,247,52,19,138,246,210>>,
            <<63,224,185,141,88,200,250,111>>, <<63,226,102,174,135,44,226,210>>, <<63,228,1,77,253,51,125,148>>, <<63,229,135,206,192,9,54,53>>,
            <<63,230,248,168,17,29,231,158>>, <<63,232,82,102,249,36,184,112>>, <<63,233,147,175,189,44,114,238>>, <<63,234,187,63,60,89,97,21>>,
            <<63,235,199,236,52,225,25,174>>, <<63,236,184,168,111,0,213,219>>, <<63,237,140,129,204,194,139,13>>, <<63,238,66,163,61,126,79,142>>,
            <<63,238,218,85,148,36,114,19>>, <<63,239,83,0,63,119,108,110>>, <<63,239,172,41,227,125,107,222>>, <<63,239,229,120,211,142,163,38>>,
            <<63,239,254,179,108,133,159,152>>, <<63,239,247,192,78,183,56,145>>, <<63,239,208,166,119,119,116,231>>, <<63,239,137,141,58,17,242,55>>,
            <<63,239,34,188,24,60,214,131>>, <<63,238,156,154,122,46,3,231>>, <<63,237,247,175,70,154,241,100>>, <<63,237,52,160,91,11,194,243>>,
            <<63,236,84,49,229,9,239,134>>, <<63,235,87,69,156,210,161,55>>, <<63,234,62,217,226,82,148,183>>, <<63,233,12,8,189,80,154,190>>,
            <<63,231,192,6,193,199,72,221>>, <<63,230,92,33,217,139,165,194>>, <<63,228,225,191,244,120,128,217>>, <<63,227,82,93,160,112,230,234>>,
            <<63,225,175,140,138,162,228,136>>, <<63,223,245,227,215,24,84,207>>, <<63,220,108,137,190,173,91,183>>, <<63,216,198,153,88,110,25,8>>,
            <<63,213,7,189,241,19,130,255>>, <<63,209,51,187,228,244,118,229>>, <<63,202,156,217,172,66,86,38>>, <<63,194,183,119,154,48,192,38>>,
            <<63,181,126,133,31,244,152,155>>, <<63,149,225,243,196,51,159,183>>, <<191,165,38,23,137,83,191,178>>, <<191,186,147,241,228,229,146,5>>,
            <<191,197,61,14,130,202,65,254>>, <<191,205,26,199,207,116,21,221>>, <<191,210,109,157,200,24,182,122>>, <<191,214,59,78,246,168,170,30>>,
            <<191,217,242,164,43,127,13,216>>, <<191,221,143,224,155,133,251,15>>, <<191,224,135,176,221,98,29,44>>, <<191,226,54,209,114,33,18,239>>,
            <<191,227,211,160,113,236,90,83>>, <<191,229,92,126,175,48,108,12>>, <<191,230,207,225,10,105,5,82>>, <<191,232,44,81,255,133,119,97>>,
            <<191,233,112,115,29,145,120,148>>, <<191,234,154,254,103,41,47,200>>, <<191,235,170,199,154,85,93,83>>, <<191,236,158,189,94,134,166,127>>,
            <<191,237,117,234,87,127,229,26>>, <<191,238,47,118,28,26,159,161>>, <<191,238,202,166,15,238,139,87>>, <<191,239,70,222,30,255,223,38>>,
            <<191,239,163,161,90,184,212,27>>, <<191,239,224,146,119,143,176,162>>, <<191,239,253,116,42,219,120,254>>, <<191,239,250,41,104,120,163,160>>,
            <<191,239,214,181,127,255,236,231>>, <<191,239,147,60,25,113,219,130>>, <<191,239,48,1,17,90,101,135>>, <<191,238,173,104,52,144,156,161>>,
            <<191,238,11,244,219,215,68,234>>, <<191,237,76,73,103,195,6,208>>, <<191,236,111,38,157,107,68,130>>, <<191,235,117,106,228,137,201,160>>,
            <<191,234,96,17,103,204,36,148>>, <<191,233,48,49,24,56,23,187>>, <<191,231,230,251,148,160,149,152>>, <<191,230,133,187,246,69,237,27>>,
            <<191,229,13,213,131,213,217,30>>, <<191,227,128,194,76,27,10,132>>, <<191,225,224,17,169,194,187,177>>, <<191,224,45,102,177,183,10,175>>,
            <<191,220,212,237,27,69,34,192>>, <<191,217,50,13,136,136,85,29>>, <<191,213,117,214,226,155,204,224>>, <<191,209,164,10,221,50,142,45>>,
            <<191,203,129,1,194,44,197,74>>, <<191,195,158,68,94,51,43,145>>, <<191,183,79,151,196,92,145,57>>, <<191,157,44,211,207,75,90,252>>,
            <<63,161,129,7,146,166,92,88>>, <<63,184,195,111,38,125,206,61>>, <<63,196,86,185,88,179,52,224>>, <<63,204,55,70,130,22,223,105>>,
            <<63,209,253,185,119,147,89,46>>, <<63,213,205,183,133,6,169,49>>, <<63,217,135,199,209,58,182,84>>, <<63,221,40,42,209,254,136,214>>,
            <<63,224,85,157,104,19,187,48>>, <<63,226,6,183,201,82,22,48>>, <<63,227,165,176,245,243,40,57>>, <<63,229,48,231,147,8,71,117>>,
            <<63,230,166,206,37,59,37,91>>, <<63,232,5,236,160,145,160,43>>, <<63,233,76,225,226,161,196,137>>, <<63,234,122,101,21,187,180,209>>,
            <<63,235,141,70,251,162,19,65>>, <<63,236,132,115,30,134,2,34>>, <<63,237,94,240,231,19,64,103>>, <<63,238,27,228,150,116,150,222>>,
            <<63,238,186,144,35,85,177,110>>, <<63,239,58,83,249,3,164,183>>, <<63,239,154,175,151,236,44,140>>, <<63,239,219,66,22,217,246,209>>,
            <<63,239,251,202,132,108,79,158>>, <<63,239,252,40,40,103,237,188>>, <<63,239,220,90,164,159,59,205>>, <<63,239,156,129,245,81,21,86>>,
            <<63,239,60,222,80,253,138,25>>, <<63,238,189,207,231,208,246,134>>, <<63,238,31,214,130,230,146,177>>, <<63,237,99,145,3,195,135,209>>,
            <<63,236,137,188,196,139,255,117>>, <<63,235,147,52,217,146,167,219>>, <<63,234,128,241,53,2,160,20>>, <<63,233,84,5,173,128,232,20>>,
            <<63,232,13,160,232,192,64,146>>, <<63,230,175,11,43,31,48,48>>, <<63,229,57,165,13,128,188,128>>, <<63,227,174,230,26,173,235,139>>,
            <<63,226,16,91,85,162,194,185>>, <<63,224,95,165,170,68,65,127>>, <<63,221,60,240,148,31,89,215>>, <<63,217,157,45,236,211,76,83>>,
            <<63,213,227,168,116,138,13,87>>, <<63,210,20,31,41,212,81,171>>, <<63,204,100,206,94,221,218,138>>, <<63,196,132,207,226,250,176,167>>,
            <<63,185,32,92,225,137,214,129>>, <<63,162,59,169,105,38,160,111>>, <<191,155,183,122,201,158,35,249>>, <<191,182,242,154,12,45,8,90>>,
            <<191,195,112,32,137,231,214,230>>, <<191,203,83,103,93,78,31,233>>, <<191,209,141,153,81,45,35,79>>, <<191,213,95,215,143,134,166,117>>,
            <<191,217,28,150,142,9,99,120>>, <<191,220,192,20,15,225,13,40>>, <<191,224,35,83,159,105,58,162>>, <<191,225,214,98,44,185,17,106>>,
            <<191,227,119,128,34,14,1,24>>, <<191,229,5,9,252,138,35,98>>, <<191,230,125,111,234,47,43,236>>, <<191,231,223,55,91,252,5,13>>,
            <<191,233,40,252,130,167,202,203>>, <<191,234,89,115,180,124,22,50>>, <<191,235,111,106,186,229,247,46>>, <<191,236,105,202,6,110,155,183>>,
            <<191,237,71,149,199,229,91,85>>, <<191,238,7,238,237,161,7,99>>, <<191,238,170,20,3,217,109,95>>, <<191,239,45,97,247,55,38,30>>,
            <<191,239,145,84,184,214,210,252>>, <<191,239,213,135,195,25,215,9>>, <<191,239,249,182,126,191,200,186>>, <<191,239,253,188,135,226,106,120>>,
            <<191,239,225,149,210,143,19,6>>, <<191,239,165,94,174,216,143,198>>, <<191,239,73,83,172,93,123,4>>, <<191,238,205,209,93,95,148,7>>,
            <<191,238,51,83,249,169,141,200>>, <<191,237,122,118,225,160,152,251>>, <<191,236,163,244,1,255,238,36>>, <<191,235,176,163,24,218,143,159>>,
            <<191,234,161,120,220,160,118,145>>, <<191,233,119,134,6,0,121,86>>, <<191,232,51,246,61,158,192,234>>, <<191,230,216,14,238,180,11,135>>,
            <<191,229,101,45,255,196,36,171>>, <<191,227,220,200,114,181,82,167>>, <<191,226,64,104,237,170,38,201>>, <<191,224,145,174,46,23,204,244>>,
            <<191,221,164,146,207,77,110,230>>, <<191,218,7,249,33,6,29,124>>, <<191,214,81,49,57,161,46,39>>, <<191,210,131,247,86,23,233,24>>,
            <<191,205,72,60,140,181,175,126>>, <<191,197,107,23,41,198,100,181>>, <<191,186,240,206,109,189,99,121>>, <<191,165,224,172,70,200,123,104>>,
            <<63,148,108,138,63,137,26,126>>, <<63,181,33,120,159,231,241,254>>, <<63,194,137,71,21,86,2,218>>, <<63,202,111,45,86,246,226,240>>,
            <<63,209,29,62,201,207,86,242>>, <<63,212,241,176,131,149,117,19>>, <<63,216,177,17,198,108,47,160>>, <<63,220,87,157,175,92,5,143>>,
            <<63,223,225,168,85,69,66,187>>, <<63,225,165,209,61,22,181,113>>, <<63,227,73,14,143,220,81,15>>, <<63,228,216,230,125,153,192,152>>,
            <<63,230,83,198,226,218,105,23>>, <<63,231,184,50,178,129,81,138>>, <<63,233,4,195,117,5,216,234>>, <<63,234,56,42,176,250,90,242>>,
            <<63,235,81,51,59,112,158,248>>, <<63,236,78,194,110,235,149,194>>, <<63,237,47,217,71,163,187,48>>, <<63,237,243,149,100,1,222,32>>,
            <<63,238,153,49,232,77,40,239>>, <<63,239,32,8,68,168,58,71>>, <<63,239,135,144,220,149,185,184>>, <<63,239,207,99,143,92,23,109>>,
            <<63,239,247,56,32,191,78,224>>, <<63,239,254,230,129,167,58,8>>, <<63,239,230,102,248,105,142,223>>, <<63,239,173,210,40,142,229,205>>,
            <<63,239,85,96,250,10,242,37>>, <<63,238,221,108,96,0,252,78>>, <<63,238,70,108,255,78,9,164>>, <<63,237,144,250,181,50,166,244>>,
            <<63,236,189,203,254,150,158,70>>, <<63,235,205,181,64,127,215,199>>, <<63,234,193,167,242,117,73,157>>, <<63,233,154,177,171,164,127,124>>,
            <<63,232,89,251,19,190,124,220>>, <<63,231,0,198,184,156,4,102>>, <<63,229,144,111,201,213,209,206>>, <<63,228,10,104,187,150,230,161>>,
            <<63,226,112,57,210,7,214,137>>, <<63,224,195,127,150,202,144,185>>, <<63,222,11,210,116,36,84,85>>, <<63,218,114,109,193,242,225,188>>,
            <<63,214,190,111,197,150,56,37>>, <<63,210,243,145,238,3,116,166>>, <<63,206,43,73,87,79,42,178>>, <<63,198,81,23,52,183,149,242>>,
            <<63,188,192,230,96,77,161,25>>, <<63,169,133,102,97,128,190,247>>, <<191,138,66,171,144,103,19,0>>, <<191,179,80,16,236,161,16,203>>,
            <<191,193,162,47,250,193,152,79>>, <<191,201,138,155,102,28,54,192>>, <<191,208,172,171,87,37,63,197>>, <<191,212,131,67,207,140,115,59>>,
            <<191,216,69,58,223,249,248,233>>, <<191,219,238,201,11,220,101,15>>, <<191,223,124,63,99,101,64,71>>, <<191,225,117,5,155,240,203,138>>,
            <<191,227,26,92,217,212,215,160>>, <<191,228,172,125,169,3,84,67>>, <<191,230,41,211,153,202,252,46>>, <<191,231,144,223,37,230,30,153>>,
            <<191,232,224,55,50,52,167,47>>, <<191,234,22,138,121,233,254,187>>, <<191,235,50,160,225,192,255,60>>, <<191,236,51,92,177,226,91,115>>,
            <<191,237,23,187,181,63,221,24>>, <<191,237,222,216,61,69,37,65>>, <<191,238,135,234,8,215,138,240>>, <<191,239,18,71,13,189,147,158>>,
            <<191,239,125,100,35,163,0,17>>, <<191,239,200,213,144,13,152,224>>, <<191,239,244,79,114,181,252,160>>, <<191,239,255,166,17,215,87,56>>,
            <<191,239,234,206,6,41,113,134>>, <<191,239,181,220,70,88,182,49>>, <<191,239,97,6,17,240,185,236>>, <<191,238,236,160,187,206,117,14>>,
            <<191,238,89,33,84,79,247,103>>, <<191,237,167,28,51,152,28,172>>, <<191,236,215,68,100,92,98,71>>, <<191,235,234,106,239,211,31,212>>,
            <<191,234,225,126,11,119,49,159>>, <<191,233,189,136,41,116,86,61>>, <<191,232,127,174,236,173,187,37>>, <<191,231,41,50,1,107,89,129>>,
            <<191,229,187,105,219,216,55,229>>, <<191,228,55,198,93,147,245,65>>, <<191,226,159,205,99,180,162,250>>, <<191,224,245,25,62,172,223,163>>,
            <<191,222,114,174,43,64,138,57>>, <<191,218,220,138,109,140,22,135>>, <<191,215,43,98,173,21,14,194>>, <<191,211,98,237,126,106,0,161>>,
            <<191,207,13,241,203,136,217,98>>, <<191,199,54,205,6,221,57,114>>, <<191,190,144,158,177,187,118,59>>, <<191,173,41,203,155,54,233,178>>,
            <<63,119,87,214,150,125,33,251>>, <<63,177,126,104,254,52,165,132>>, <<63,192,186,222,58,188,124,126>>, <<63,200,165,180,130,238,74,151>>,
            <<63,208,59,224,111,151,211,210>>, <<63,212,20,146,226,172,169,178>>, <<63,215,217,19,65,90,158,53>>, <<63,219,133,151,130,8,72,115>>,
            <<63,223,22,109,186,120,33,241>>, <<63,225,67,255,235,144,134,188>>, <<63,226,235,107,155,67,165,243>>, <<63,228,127,208,18,121,208,135>>,
            <<63,229,255,150,154,133,251,185>>, <<63,231,105,61,56,245,98,129>>, <<63,232,187,88,51,193,140,94>>, <<63,233,244,147,127,32,120,79>>,
            <<63,235,19,180,19,132,61,190>>, <<63,236,23,153,42,113,117,165>>, <<63,236,255,61,96,238,2,33>>, <<63,237,201,183,190,100,56,216>>,
            <<63,238,118,60,158,241,155,210>>, <<63,239,4,30,128,54,40,107>>, <<63,239,114,206,175,213,131,107>>, <<63,239,193,221,218,251,25,60>>,
            <<63,239,240,252,126,80,128,147>>, <<63,239,255,251,53,245,166,220>>, <<63,239,238,202,237,42,83,159>>, <<63,239,189,124,237,121,14,229>>,
            <<63,239,108,66,205,84,50,176>>, <<63,238,251,110,62,54,158,144>>, <<63,238,107,112,186,122,35,162>>, <<63,237,188,219,19,54,129,123>>,
            <<63,236,240,92,222,155,125,72>>, <<63,236,6,195,199,88,145,131>>, <<63,235,0,250,189,196,86,197>>, <<63,233,224,9,11,146,143,240>>,
            <<63,232,165,17,75,7,244,38>>, <<63,231,81,80,66,180,153,37>>, <<63,229,230,27,166,220,46,30>>, <<63,228,100,224,193,203,120,173>>,
            <<63,226,207,35,4,117,93,80>>, <<63,225,38,122,128,200,107,205>>, <<63,222,217,36,158,139,62,60>>, <<63,219,70,77,194,232,77,171>>,
            <<63,215,152,8,133,197,40,114>>, <<63,211,210,8,148,239,221,215>>, <<63,207,240,50,247,142,253,112>>, <<63,200,28,53,164,61,29,126>>,
            <<63,192,47,248,173,226,44,72>>, <<63,176,102,231,235,118,226,95>>, <<63,87,87,222,89,233,78,46>>, <<191,175,89,13,194,169,32,47>>,
            <<191,191,166,169,173,53,197,158>>, <<191,199,192,123,166,183,22,110>>, <<191,207,149,191,20,143,252,27>>, <<191,211,165,159,45,26,6,108>>,
            <<191,215,108,156,82,66,205,7>>, <<191,219,28,10,111,186,225,54>>, <<191,222,176,52,173,31,251,53>>, <<191,225,18,192,207,0,10,153>>,
            <<191,226,188,59,112,72,13,98>>, <<191,228,82,222,78,148,176,54>>, <<191,229,213,16,113,133,165,116>>, <<191,231,65,77,111,126,222,213>>,
            <<191,232,150,38,244,77,17,18>>, <<191,233,210,70,49,147,234,244>>, <<191,234,244,109,55,148,78,130>>, <<191,235,251,120,52,239,84,23>>,
            <<191,236,230,94,156,36,62,134>>, <<191,237,180,52,45,162,220,21>>, <<191,238,100,41,229,102,44,100>>, <<191,238,245,142,203,40,170,85>>,
            <<191,239,103,208,164,96,122,97>>, <<191,239,186,124,135,80,233,81>>, <<191,239,237,63,78,156,252,25>>, <<191,239,255,229,236,230,254,169>>,
            <<191,239,242,93,160,40,220,49>>, <<191,239,196,180,4,145,190,123>>, <<191,239,119,23,6,213,211,117>>, <<191,239,9,212,181,254,52,228>>,
            <<191,238,125,90,244,231,10,155>>, <<191,237,210,55,11,187,90,228>>, <<191,237,9,21,25,221,33,116>>, <<191,236,34,191,104,201,37,249>>,
            <<191,235,32,29,160,164,45,197>>, <<191,234,2,51,223,62,118,230>>, <<191,232,202,33,178,119,187,127>>, <<191,231,121,32,247,10,162,200>>,
            <<191,230,16,132,156,227,28,140>>, <<191,228,145,183,82,60,13,51>>, <<191,226,254,58,22,220,177,88>>, <<191,225,87,162,184,226,120,251>>,
            <<191,223,63,52,121,62,76,1>>, <<191,219,175,182,98,71,142,236>>, <<191,216,4,95,230,78,97,106>>, <<191,212,64,225,192,16,40,138>>,
            <<191,208,105,4,245,114,172,61>>, <<191,201,1,78,17,221,26,20>>, <<191,193,23,108,44,188,168,97>>, <<191,178,56,179,124,115,215,153>>,
            <<191,129,129,217,45,96,220,30>>, <<63,171,180,225,70,231,98,73>>, <<63,189,215,45,160,212,151,24>>, <<63,198,218,243,203,209,113,161>>,
            <<63,206,179,84,62,21,108,65>>, <<63,211,54,106,31,214,117,157>>, <<63,214,255,215,123,110,163,74>>, <<63,218,178,35,51,255,205,92>>,
            <<63,222,73,149,143,86,160,243>>, <<63,224,225,72,234,8,130,113>>, <<63,226,140,204,245,210,204,14>>, <<63,228,37,168,242,206,44,213>>,
            <<63,229,170,65,172,55,139,24>>, <<63,231,25,16,78,85,40,226>>, <<63,232,112,163,239,137,78,2>>, <<63,233,175,163,3,89,109,81>>,
            <<63,234,212,204,181,246,192,25>>, <<63,235,222,250,46,233,57,65>>, <<63,236,205,31,185,153,100,70>>, <<63,237,158,77,210,142,79,141>>,
            <<63,238,81,178,24,80,240,167>>, <<63,238,230,152,31,2,210,126>>, <<63,239,92,106,37,210,235,35>>, <<63,239,178,177,173,154,159,213>>,
            <<63,239,233,23,240,10,226,199>>, <<63,239,255,102,54,242,41,73>>, <<63,239,245,134,19,66,231,210>>, <<63,239,203,129,115,163,163,27>>,
            <<63,239,129,130,154,113,169,12>>, <<63,239,23,211,243,64,162,215>>, <<63,238,142,223,200,1,162,221>>, <<63,237,231,47,214,29,12,14>>,
            <<63,237,33,108,195,234,174,219>>, <<63,236,62,93,119,19,200,64>>, <<63,235,62,230,76,136,221,3>>, <<63,234,36,8,50,213,148,73>>,
            <<63,232,238,223,167,184,52,37>>, <<63,231,160,163,154,2,54,97>>, <<63,230,58,164,48,224,118,186>>, <<63,228,190,73,121,197,240,93>>,
            <<63,227,45,17,254,77,126,235>>, <<63,225,136,145,67,125,254,202>>, <<63,223,164,220,103,232,226,173>>, <<63,220,24,194,237,23,117,102>>,
            <<63,216,112,103,102,93,54,174>>, <<63,212,175,119,143,33,27,48>>, <<63,208,217,185,219,56,121,61>>, <<63,201,230,19,85,206,115,210>>,
            <<63,193,254,166,211,168,129,90>>, <<63,180,10,66,115,106,239,215>>, <<63,144,12,62,42,210,197,162>>, <<191,168,16,88,165,103,143,224>>,
            <<191,188,7,78,85,206,134,249>>, <<191,197,245,31,237,158,236,214>>, <<191,205,208,131,76,198,139,109>>, <<191,210,198,245,44,189,144,135>>,
            <<191,214,146,198,38,157,88,35>>, <<191,218,71,227,47,14,135,238>>, <<191,221,226,145,182,105,175,100>>, <<191,224,175,152,225,47,243,61>>,
            <<191,226,93,32,201,163,168,46>>, <<191,227,248,48,149,129,114,247>>, <<191,229,127,42,216,250,176,37>>, <<191,230,240,134,91,76,27,77>>,
            <<191,232,74,207,162,56,80,163>>, <<191,233,140,170,103,163,217,73>>, <<191,234,180,210,247,219,46,64>>, <<191,235,194,31,119,33,204,245>>,
            <<191,236,179,129,13,67,240,12>>, <<191,237,136,4,245,252,93,30>>, <<191,238,62,213,117,29,203,40>>, <<191,238,215,58,173,136,207,214>>,
            <<191,239,80,155,90,23,73,247>>, <<191,239,170,125,103,194,197,109>>, <<191,239,228,134,112,106,202,237>>, <<191,239,254,124,21,191,229,110>>,
            <<191,239,248,68,59,247,178,34>>, <<191,239,209,229,36,15,6,47>>, <<191,239,139,133,101,127,194,134>>, <<191,239,37,107,199,112,165,111>>,
            <<191,238,159,254,249,134,35,89>>, <<191,237,251,197,44,155,229,36>>, <<191,237,57,99,139,206,169,67>>, <<191,236,89,157,150,94,154,167>>,
            <<191,235,93,84,91,16,157,72>>, <<191,234,69,133,149,213,5,10>>, <<191,233,19,74,176,150,180,189>>, <<191,231,199,215,168,51,183,242>>,
            <<191,230,100,121,214,187,226,100>>, <<191,228,234,150,164,44,192,25>>, <<191,227,91,170,30,252,174,210>>, <<191,225,185,69,125,221,200,114>>,
            <<191,224,5,13,140,57,191,58>>, <<191,220,129,114,5,247,218,168>>, <<191,216,220,29,158,168,68,39>>, <<191,213,29,200,146,89,21,93>>,
            <<191,209,74,54,182,65,12,193>>, <<191,202,202,130,119,54,198,98>>, <<191,194,229,165,161,158,22,116>>, <<191,181,219,142,195,252,84,207>>,
            <<191,151,87,90,95,156,241,152>>, <<63,164,107,127,251,155,160,159>>, <<63,186,55,17,210,230,193,31>>, <<63,197,15,3,8,125,167,254>>,
            <<63,204,237,79,50,253,192,77>>, <<63,210,87,65,198,127,24,110>>, <<63,214,37,105,190,140,226,238>>, <<63,217,221,75,194,69,213,141>>,
            <<63,221,123,42,120,245,114,40>>, <<63,224,125,177,89,183,24,121>>, <<63,226,45,55,138,71,203,113>>, <<63,227,202,117,205,232,99,213>>,
            <<63,229,83,204,135,29,223,179>>, <<63,230,199,176,29,55,14,46>>, <<63,232,36,170,138,42,124,54>>, <<63,233,105,92,210,194,10,143>>,
            <<63,234,148,128,103,154,6,61>>, <<63,235,164,232,109,144,31,180>>, <<63,236,153,130,236,88,234,193>>, <<63,237,113,89,226,10,126,60>>,
            <<63,238,43,148,58,135,251,241>>, <<63,238,199,118,169,212,153,104>>, <<63,239,68,100,104,114,229,135>>, <<63,239,161,223,209,18,135,159>>,
            <<63,239,223,138,222,238,67,153>>, <<63,239,253,39,140,90,224,78>>, <<63,239,250,152,17,39,245,217>>, <<63,239,215,223,0,147,223,152>>,
            <<63,239,149,31,70,180,184,49>>, <<63,239,50,156,5,88,234,86>>, <<63,238,176,184,80,130,201,186>>, <<63,238,15,246,202,194,243,198>>,
            <<63,237,80,249,33,213,204,83>>, <<63,236,116,127,108,8,54,222>>, <<63,235,123,103,103,6,236,247>>, <<63,234,102,171,152,219,39,185>>,
            <<63,233,55,98,83,244,93,255>>, <<63,231,238,188,159,60,239,42>>, <<63,230,142,5,3,82,218,200>>, <<63,229,22,158,62,25,177,14>>,
            <<63,227,138,1,221,243,82,154>>, <<63,225,233,190,198,6,145,255>>, <<63,224,55,119,157,18,122,34>>, <<63,220,233,194,80,191,96,167>>,
            <<63,217,71,129,40,244,2,165>>, <<63,213,139,211,90,210,234,7>>, <<63,209,186,122,16,110,148,50>>, <<63,203,174,152,126,90,37,216>>,
            <<63,195,204,101,150,93,17,42>>, <<63,183,172,146,98,167,89,227>>, <<63,158,162,40,243,93,201,218>>, <<191,160,198,99,104,3,183,184>>,
            <<191,184,102,126,32,22,120,185>>, <<191,196,40,160,25,191,96,154>>, <<191,204,9,186,228,95,58,33>>, <<191,209,231,81,96,154,128,237>>,
            <<191,213,183,195,174,244,145,99>>, <<191,217,114,94,80,39,15,216>>, <<191,221,19,97,46,224,225,64>>, <<191,224,75,146,249,151,62,130>>,
            <<191,225,253,17,215,23,88,90>>, <<191,227,156,121,52,25,207,215>>, <<191,229,40,39,70,221,124,246>>, <<191,230,158,142,27,231,11,83>>,
            <<191,231,254,53,38,60,220,194>>, <<191,233,69,186,186,29,129,194>>, <<191,234,115,213,112,179,28,163>>, <<191,235,135,85,115,94,52,101>>,
            <<191,236,127,37,173,74,234,199>>, <<191,237,90,76,226,28,192,200>>, <<191,238,23,238,168,153,79,231>>, <<191,238,183,76,72,85,85,205>>,
            <<191,239,55,197,121,133,112,170>>, <<191,239,152,217,6,49,80,145>>, <<191,239,218,37,76,39,159,145>>, <<191,239,251,104,159,47,171,130>>,
            <<191,239,252,129,139,22,15,151>>, <<191,239,221,110,245,82,30,106>>, <<191,239,158,80,30,34,4,94>>, <<191,239,63,100,129,28,151,209>>,
            <<191,238,193,11,149,88,133,140>>, <<191,238,35,196,109,104,236,164>>, <<191,237,104,45,55,144,26,253>>, <<191,236,143,2,158,168,196,188>>,
            <<191,235,153,31,12,102,18,185>>, <<191,234,135,121,205,168,242,182>>, <<191,233,91,38,25,199,173,148>>, <<191,232,21,81,253,194,142,122>>,
            <<191,230,183,69,44,122,139,20>>, <<191,229,66,95,181,29,83,161>>, <<191,227,184,24,161,16,117,54>>, <<191,226,25,252,122,193,48,63>>,
            <<191,224,105,171,190,211,49,6>>, <<191,221,81,178,114,127,247,173>>, <<191,217,178,144,160,24,62,50>>, <<191,213,249,150,122,147,89,64>>,
            <<191,210,42,130,116,98,247,90>>, <<191,204,146,82,116,164,253,123>>, <<191,196,178,227,178,117,99,66>>, <<191,185,125,71,68,220,152,59>>,
            <<191,162,246,72,210,178,42,99>>, <<63,154,66,30,19,253,174,206>>, <<63,182,149,153,70,120,89,203>>, <<63,195,65,250,31,158,5,221>>,
            <<63,203,37,201,85,207,31,151>>, <<63,209,119,37,111,90,120,205>>, <<63,213,73,213,100,128,197,124>>, <<63,217,7,28,60,81,255,192>>,
            <<63,220,171,55,49,88,240,155>>, <<63,224,25,62,103,128,12,197>>, <<63,225,204,176,80,51,140,133>>, <<63,227,110,59,97,7,112,105>>,
            <<63,228,252,59,169,98,2,163>>, <<63,230,117,32,224,41,55,191>>, <<63,231,215,111,246,87,171,110>>, <<63,233,33,196,148,56,212,117>>,
            <<63,234,82,210,127,204,62,188>>, <<63,235,105,102,234,231,220,187>>, <<63,236,100,105,167,200,201,181>>, <<63,237,66,222,66,220,222,50>>,
            <<63,238,3,229,0,169,75,204>>, <<63,238,166,187,190,206,146,212>>, <<63,239,42,190,183,72,120,51>>, <<63,239,143,105,37,36,109,249>>,
            <<63,239,212,85,202,9,196,62>>, <<63,239,249,63,84,12,173,174>>, <<63,239,254,0,163,102,20,143>>, <<63,239,226,148,239,201,234,252>>,
            <<63,239,167,23,205,54,128,72>>, <<63,239,75,197,16,55,244,93>>, <<63,238,208,248,145,187,209,11>>, <<63,238,55,45,210,177,10,214>>,
            <<63,237,126,255,127,209,202,250>>, <<63,236,169,38,214,19,43,52>>, <<63,235,182,122,232,88,72,170>>, <<63,234,167,239,199,35,72,71>>,
            <<63,233,126,149,139,30,22,241>>, <<63,232,59,151,67,114,33,68>>, <<63,230,224,57,201,1,153,233>>, <<63,229,109,218,119,177,87,88>>,
            <<63,227,229,237,207,11,103,213>>, <<63,226,73,253,251,156,116,22>>, <<63,224,155,169,74,131,210,252>>, <<63,221,185,65,17,139,124,131>>,
            <<63,218,29,74,160,4,67,188>>, <<63,214,103,16,132,141,88,84>>, <<63,210,154,78,109,131,187,231>>, <<63,205,117,173,100,182,40,239>>,
            <<63,197,153,28,247,82,186,201>>, <<63,187,77,167,97,18,134,12>>, <<63,166,155,62,27,42,55,223>>, <<191,146,247,30,3,77,29,66>>,
            <<191,180,196,105,80,54,116,81>>, <<191,194,91,20,25,50,129,72>>, <<191,202,65,125,125,103,185,130>>, <<191,209,6,191,103,207,91,172>>,
            <<191,212,219,160,76,206,26,182>>, <<191,216,155,134,235,127,113,87>>, <<191,220,66,173,218,204,134,106>>, <<191,223,205,104,149,171,37,67>>,
            <<191,225,156,19,150,132,159,9>>, <<191,227,63,188,238,123,235,78>>, <<191,228,208,10,64,189,204,154>>, <<191,230,75,104,243,196,201,2>>,
            <<191,231,176,91,123,108,91,19>>, <<191,232,253,122,216,174,35,16>>, <<191,234,49,120,2,175,237,117>>, <<191,235,75,29,55,185,106,51>>,
            <<191,236,73,79,52,188,157,28>>, <<191,237,43,14,82,57,80,60>>, <<191,237,239,119,133,92,77,75>>, <<191,238,149,197,68,87,163,230>>,
            <<191,239,29,80,77,14,215,93>>, <<191,239,133,144,77,78,181,137>>, <<191,239,206,28,107,231,229,24>>, <<191,239,246,171,178,34,16,231>>,
            <<191,239,255,21,85,29,232,115>>, <<191,239,231,80,222,219,229,185>>, <<191,239,175,118,54,190,191,25>>, <<191,239,87,189,137,128,229,120>>,
            <<191,238,224,127,16,181,65,231>>, <<191,238,74,50,186,11,240,20>>, <<191,237,149,111,174,180,107,167>>, <<191,236,194,235,187,86,53,153>>,
            <<191,235,211,122,153,57,21,91>>, <<191,234,200,13,25,84,151,114>>, <<191,233,161,176,50,29,104,47>>, <<191,232,97,139,241,3,139,234>>,
            <<191,231,8,226,80,177,241,161>>, <<191,229,153,13,245,58,182,202>>, <<191,228,19,128,207,117,140,202>>, <<191,226,121,194,168,239,156,136>>,
            <<191,224,205,111,153,225,232,35>>, <<191,222,32,108,213,119,196,172>>, <<191,218,135,173,197,195,158,221>>, <<191,214,212,64,12,166,238,48>>,
            <<191,211,9,220,135,255,179,214>>, <<191,206,88,166,90,103,209,229>>, <<191,198,127,14,103,69,185,113>>, <<191,189,29,172,174,217,138,206>>,
            <<191,170,63,232,52,55,186,211>>, <<63,135,87,189,190,150,150,108>>, <<63,178,242,244,72,115,41,61>>, <<63,193,115,241,6,107,125,169>>,
            <<63,201,92,218,82,111,90,202>>, <<63,208,150,32,191,202,211,246>>, <<63,212,109,37,214,100,166,38>>, <<63,216,47,159,195,125,124,172>>,
            <<63,219,217,198,134,231,79,154>>, <<63,223,103,234,151,91,115,234>>, <<63,225,107,60,75,183,169,84>>, <<63,227,16,254,119,24,198,76>>,
            <<63,228,163,147,159,235,97,226>>, <<63,230,33,102,225,121,104,11>>, <<63,231,136,248,55,116,64,106>>, <<63,232,216,222,0,45,139,2>>,
            <<63,234,15,198,104,75,185,237>>, <<63,235,44,120,190,142,99,5>>, <<63,236,45,214,174,74,128,43>>, <<63,237,18,221,95,100,39,64>>,
            <<63,237,218,166,122,162,195,209>>, <<63,238,132,105,17,90,230,134>>, <<63,239,15,122,103,132,39,176>>, <<63,239,123,78,159,112,13,9>>,
            <<63,239,199,121,70,117,73,49>>, <<63,239,243,173,194,1,170,45>>, <<63,239,255,191,156,165,78,38>>, <<63,239,235,162,178,201,90,242>>,
            <<63,239,183,107,62,229,113,185>>, <<63,239,99,77,197,39,124,61>>, <<63,238,239,158,222,162,88,71>>, <<63,238,92,210,228,56,102,173>>,
            <<63,237,171,125,121,151,200,228>>, <<63,236,220,80,248,189,180,199>>, <<63,235,240,29,190,150,112,218>>, <<63,234,231,209,89,110,30,247>>,
            <<63,233,196,117,154,5,149,204>>, <<63,232,135,47,136,58,200,23>>, <<63,231,49,62,60,82,144,92>>, <<63,229,195,249,158,11,104,137>>,
            <<63,228,64,209,10,188,95,66>>, <<63,226,169,73,227,220,0,105>>, <<63,224,254,254,7,98,132,17>>, <<63,222,135,52,103,35,222,81>>,
            <<63,218,241,184,175,130,182,93>>, <<63,215,65,35,167,190,12,31>>, <<63,211,121,43,80,211,87,22>>, <<63,207,59,58,98,218,184,241>>,
            <<63,199,100,181,5,141,42,85>>, <<63,190,237,81,38,240,15,195>>, <<63,173,228,58,255,248,109,210>>, <<191,113,129,227,168,126,65,156>>,
            <<191,177,33,64,59,54,142,245>>, <<191,192,140,147,232,1,241,64>>, <<191,200,119,226,205,79,126,7>>, <<191,208,37,74,237,218,224,249>>,
            <<191,211,254,103,112,179,51,105>>, <<191,215,195,104,43,42,17,136>>, <<191,219,112,130,146,141,173,170>>, <<191,223,2,4,37,157,13,219>>,
            <<191,225,58,43,18,60,141,118>>, <<191,226,226,0,150,84,152,55>>, <<191,228,118,216,90,203,127,228>>, <<191,229,247,27,52,253,76,209>>,
            <<191,231,97,70,173,110,151,1>>, <<191,232,179,238,132,123,139,56>>, <<191,233,237,190,32,174,248,165>>, <<191,235,13,121,229,80,51,29>>,
            <<191,236,18,0,111,207,134,30>>, <<191,236,250,75,186,210,28,102>>, <<191,237,197,114,37,184,39,36>>, <<191,238,114,167,95,149,1,196>>,
            <<191,239,1,61,52,172,40,124>>, <<191,239,112,164,61,165,7,170>>, <<191,239,192,108,111,197,4,237>>, <<191,239,240,69,141,158,218,241>>,
            <<191,239,255,255,119,197,243,19>>, <<191,239,239,138,93,52,127,14>>, <<191,239,190,246,203,51,195,95>>, <<191,239,110,117,156,182,124,199>>,
            <<191,238,254,87,201,54,24,236>>, <<191,238,111,14,19,68,83,51>>, <<191,237,193,40,151,34,239,142>>, <<191,236,245,86,57,211,156,42>>,
            <<191,236,12,99,249,50,53,44>>, <<191,235,7,60,29,201,89,147>>, <<191,233,230,229,79,49,241,239>>, <<191,232,172,129,139,233,95,99>>,
            <<191,231,89,77,5,169,29,142>>, <<191,229,238,156,227,100,72,251>>, <<191,228,109,221,234,43,107,94>>, <<191,226,216,147,14,79,122,153>>,
            <<191,225,48,83,238,52,190,69>>, <<191,222,237,150,112,187,163,46>>, <<191,219,91,105,252,147,100,249>>, <<191,215,173,185,235,172,206,48>>,
            <<191,211,232,57,85,205,180,62>>, <<191,208,14,179,70,63,164,79>>, <<191,200,74,13,214,97,107,170>>, <<191,192,94,71,97,171,133,198>>,
            <<191,176,196,21,48,213,178,216>>, <<191,103,87,220,204,109,16,152>>, <<63,174,158,166,106,183,168,116>>, <<63,191,73,255,126,224,60,135>>,
            <<63,199,146,153,231,137,45,127>>, <<63,207,104,126,210,137,242,86>>, <<63,211,143,102,140,10,96,45>>, <<63,215,86,225,138,110,195,208>>,
            <<63,219,6,227,91,216,17,206>>, <<63,222,155,182,147,87,10,248>>, <<63,225,8,224,141,67,204,88>>, <<63,226,178,195,232,120,183,4>>,
            <<63,228,73,217,6,35,46,157>>, <<63,229,204,134,122,251,156,31>>, <<63,231,57,71,97,94,248,83>>, <<63,232,142,172,224,111,151,183>>,
            <<63,233,203,95,157,9,58,83>>, <<63,234,238,33,19,20,217,40>>, <<63,235,245,204,213,224,93,47>>, <<63,236,225,89,182,57,127,171>>,
            <<63,237,175,218,205,34,62,203>>, <<63,238,96,128,106,20,57,204>>, <<63,238,242,152,227,226,53,138>>, <<63,239,101,145,75,102,114,3>>,
            <<63,239,184,245,255,73,174,127>>, <<63,239,236,115,32,78,114,41>>, <<63,239,255,212,229,171,119,159>>, <<63,239,243,7,209,32,153,229>>,
            <<63,239,198,24,194,145,177,152>>, <<63,239,121,52,235,19,209,255>>, <<63,239,12,169,159,121,184,233>>, <<63,238,128,228,10,141,114,88>>,
            <<63,237,214,112,191,69,9,207>>, <<63,237,13,251,43,97,33,91>>, <<63,236,40,76,235,3,59,38>>, <<63,235,38,76,253,233,93,97>>,
            <<63,234,8,254,223,26,240,0>>, <<63,232,209,129,127,240,73,153>>, <<63,231,129,14,39,123,245,164>>, <<63,230,24,247,55,118,245,34>>,
            <<63,228,154,166,215,238,79,167>>, <<63,227,7,157,139,6,67,67>>, <<63,225,97,112,170,67,159,171>>, <<63,223,83,145,157,188,238,240>>,
            <<63,219,196,192,77,113,171,47>>, <<63,216,26,1,111,78,226,198>>, <<63,212,87,5,37,149,63,183>>, <<63,208,127,147,243,143,83,17>>,
            <<63,201,47,21,222,253,94,184>>, <<63,193,69,175,191,178,7,82>>, <<63,178,149,213,30,237,44,245>>, <<63,132,108,204,209,202,226,181>>,
            <<191,170,250,102,136,244,69,157>>, <<191,189,122,111,29,206,168,230>>, <<191,198,173,2,155,173,20,176>>, <<191,206,133,255,84,2,22,12>>,
            <<191,211,32,36,153,152,77,7>>, <<191,214,234,13,74,60,1,9>>, <<191,218,156,234,66,14,83,119>>, <<191,222,53,3,52,199,154,176>>,
            <<191,224,215,93,96,188,157,26>>, <<191,226,131,73,10,159,86,35>>, <<191,228,28,150,55,153,209,213>>, <<191,229,161,169,65,18,78,48>>,
            <<191,231,16,250,216,75,154,12>>, <<191,232,105,25,143,242,57,247>>, <<191,233,168,171,79,168,249,62>>, <<191,234,206,110,176,29,135,2>>,
            <<191,235,217,60,62,72,56,181>>, <<191,236,200,7,164,145,40,33>>, <<191,237,153,224,184,176,15,14>>, <<191,238,77,244,109,55,142,72>>,
            <<191,238,227,141,165,216,141,254>>, <<191,239,90,21,237,136,220,33>>, <<191,239,177,22,13,213,24,59>>, <<191,239,232,54,134,198,133,249>>,
            <<191,239,255,63,230,227,113,20>>, <<191,239,246,27,2,242,47,152>>, <<191,239,204,209,13,70,97,126>>, <<191,239,131,139,140,129,27,85>>,
            <<191,239,26,148,49,205,64,124>>, <<191,238,146,84,142,194,20,113>>, <<191,237,235,85,171,54,114,107>>, <<191,237,38,63,123,111,181,244>>,
            <<191,236,67,216,55,54,155,48>>, <<191,235,69,3,146,124,63,190>>, <<191,234,42,193,216,87,123,84>>, <<191,232,246,46,233,65,96,31>>,
            <<191,231,168,129,29,147,141,71>>, <<191,230,67,8,13,103,173,184>>, <<191,228,199,43,63,18,126,85>>, <<191,227,54,104,189,141,8,13>>,
            <<191,225,146,83,152,56,95,89>>, <<191,223,185,36,154,251,154,224>>, <<191,220,45,186,67,199,204,227>>, <<191,216,133,248,202,133,196,48>>,
            <<191,212,197,141,79,172,160,40>>, <<191,208,240,61,193,242,245,144>>, <<191,202,19,202,37,168,143,196>>, <<191,194,44,222,171,236,96,19>>,
            <<191,180,103,87,61,65,116,22>>, <<191,145,129,175,65,43,73,27>>, <<63,167,85,204,237,164,248,233>>, <<63,187,170,124,178,139,223,31>>,
            <<63,197,199,31,229,79,224,85>>, <<63,205,163,26,81,106,45,180>>, <<63,210,176,163,11,98,252,107>>, <<63,214,124,236,212,132,95,241>>,
            <<63,218,50,152,165,163,148,88>>, <<63,221,205,235,95,127,124,169>>, <<63,224,165,162,49,82,122,202>>, <<63,226,83,144,154,177,163,92>>,
            <<63,227,239,16,133,183,42,224>>, <<63,229,118,132,21,208,133,247>>, <<63,230,232,97,152,59,147,159>>, <<63,232,67,53,15,251,198,125>>,
            <<63,233,133,161,171,249,228,134>>, <<63,234,174,99,37,213,96,253>>, <<63,235,188,79,8,7,145,184>>, <<63,236,174,85,218,15,88,233>>,
            <<63,237,131,132,49,121,1,81>>, <<63,238,59,3,166,174,4,243>>, <<63,238,212,27,172,151,210,134>>, <<63,239,78,50,74,60,27,178>>,
            <<63,239,168,204,181,151,241,192>>, <<63,239,227,143,207,30,73,110>>, <<63,239,254,64,125,93,103,181>>, <<63,239,248,195,232,111,44,233>>,
            <<63,239,211,31,148,248,103,101>>, <<63,239,141,121,94,156,23,77>>, <<63,239,40,23,81,232,41,115>>, <<63,238,163,95,101,226,0,13>>,
            <<63,237,255,215,21,121,136,75>>, <<63,237,62,34,217,74,71,54>>, <<63,236,95,5,130,48,233,95>>, <<63,235,99,95,117,92,75,78>>,
            <<63,234,76,45,202,158,121,243>>, <<63,233,26,137,77,225,1,160>>, <<63,231,207,165,100,188,117,143>>, <<63,230,108,206,217,78,253,151>>,
            <<63,228,243,106,139,137,118,90>>, <<63,227,100,244,10,66,244,105>>, <<63,225,194,252,21,124,76,68>>, <<63,224,15,39,11,83,1,18>>,
            <<63,220,150,86,130,115,139,209>>, <<63,216,241,158,150,61,161,189>>, <<63,213,51,208,100,119,150,47>>, <<63,209,96,175,58,183,119,87>>,
            <<63,202,248,39,177,193,27,106>>, <<63,195,19,209,37,121,114,254>>, <<63,182,56,149,127,157,107,107>>, <<63,152,204,189,224,27,139,49>>,
            <<191,163,176,229,182,118,46,200>>, <<191,185,218,46,68,26,39,198>>, <<191,196,224,244,193,1,78,58>>, <<191,204,191,210,189,95,31,181>>,
            <<191,210,64,227,84,68,120,14>>, <<191,214,15,129,148,55,236,180>>, <<191,217,199,239,232,48,253,224>>, <<191,221,102,112,106,93,144,194>>,
            <<191,224,115,175,164,107,40,250>>, <<191,226,35,155,55,101,107,130>>, <<191,227,193,72,135,225,149,250>>, <<191,229,75,23,136,180,171,116>>,
            <<191,230,191,124,40,53,32,135>>, <<191,232,28,255,222,146,117,87>>, <<191,233,98,67,38,131,133,225>>, <<191,234,141,254,222,208,14,97>>,
            <<191,235,159,5,147,82,226,232>>, <<191,236,148,68,172,40,197,102>>, <<191,237,108,197,129,219,235,52>>, <<191,238,39,174,85,117,215,165>>,
            <<191,238,196,67,43,126,66,82>>, <<191,239,65,230,137,10,218,45>>, <<191,239,160,26,18,33,120,242>>, <<191,239,222,127,8,205,221,161>>,
            <<191,239,252,214,172,106,209,125>>, <<191,239,251,2,120,191,5,77>>, <<191,239,217,4,68,174,29,197>>, <<191,239,150,254,64,95,27,132>>,
            <<191,239,53,50,210,217,252,161>>, <<191,238,180,4,87,63,31,56>>, <<191,238,19,244,185,219,155,155>>, <<191,237,85,164,245,126,21,53>>,
            <<191,236,121,212,113,143,72,113>>, <<191,235,129,96,65,145,134,64>>, <<191,234,109,66,70,200,66,5>>, <<191,233,62,144,52,231,177,139>>,
            <<191,231,246,122,122,200,228,183>>, <<191,230,150,75,16,59,208,62>>, <<191,229,31,100,42,42,138,162>>, <<191,227,147,62,214,91,183,42>>,
            <<191,225,243,105,128,59,58,103>>, <<191,224,65,134,96,36,178,163>>, <<191,220,254,147,173,138,89,159>>, <<191,217,92,241,108,113,147,251>>,
            <<191,213,161,204,245,63,74,33>>, <<191,209,208,230,231,229,31,220>>, <<191,203,220,43,139,197,144,97>>, <<191,195,250,132,44,65,235,109>>,
            <<191,184,9,137,218,175,37,95>>, <<191,160,11,189,2,22,31,67>>, <<63,160,11,189,2,22,112,235>>, <<63,184,9,137,218,175,78,10>>,
            <<63,195,250,132,44,65,255,154>>, <<63,203,220,43,139,197,164,80>>, <<63,209,208,230,231,229,41,171>>, <<63,213,161,204,245,63,83,190>>,
            <<63,217,92,241,108,113,157,91>>, <<63,220,254,147,173,138,98,186>>, <<63,224,65,134,96,36,183,9>>, <<63,225,243,105,128,59,62,161>>,
            <<63,227,147,62,214,91,187,52>>, <<63,229,31,100,42,42,130,115>>, <<63,230,150,75,16,59,211,220>>, <<63,231,246,122,122,200,232,25>>,
            <<63,233,62,144,52,231,180,174>>, <<63,234,109,66,70,200,68,231>>, <<63,235,129,96,65,145,136,220>>, <<63,236,121,212,113,143,74,197>>,
            <<63,237,85,164,245,126,23,63>>, <<63,238,19,244,185,219,157,89>>, <<63,238,180,4,87,63,32,168>>, <<63,239,53,50,210,217,253,194>>,
            <<63,239,150,254,64,95,25,198>>, <<63,239,217,4,68,174,30,68>>, <<63,239,251,2,120,191,5,122>>, <<63,239,252,214,172,106,209,89>>,
            <<63,239,222,127,8,205,221,43>>, <<63,239,160,26,18,33,120,43>>, <<63,239,65,230,137,10,217,21>>, <<63,238,196,67,43,126,64,235>>,
            <<63,238,39,174,85,117,208,149>>, <<63,237,108,197,129,219,233,51>>, <<63,236,148,68,172,40,195,26>>, <<63,235,159,5,147,82,232,105>>,
            <<63,234,141,254,222,208,11,135>>, <<63,233,98,67,38,131,130,197>>, <<63,232,28,255,222,146,113,252>>, <<63,230,191,124,40,53,28,240>>,
            <<63,229,75,23,136,180,167,164>>, <<63,227,193,72,135,225,145,246>>, <<63,226,35,155,55,101,103,77>>, <<63,224,115,175,164,107,36,153>>,
            <<63,221,102,112,106,93,135,176>>, <<63,217,199,239,232,48,244,136>>, <<63,214,15,129,148,55,227,30>>, <<63,210,64,227,84,68,110,68>>,
            <<63,204,191,210,189,95,11,206>>, <<63,196,224,244,193,1,58,19>>, <<63,185,218,46,68,25,255,34>>, <<63,163,176,229,182,117,221,37>>,
            <<191,152,204,189,224,26,46,176>>, <<191,182,56,149,127,157,148,29>>, <<191,195,19,209,37,121,135,48>>, <<191,202,248,39,177,193,47,97>>,
            <<191,209,96,175,58,183,129,43>>, <<191,213,51,208,100,119,159,209>>, <<191,216,241,158,150,61,141,172>>, <<191,220,150,86,130,115,177,149>>,
            <<191,224,15,39,11,83,5,125>>, <<191,225,194,252,21,124,80,132>>, <<191,227,100,244,10,66,248,120>>, <<191,228,243,106,139,137,122,54>>,
            <<191,230,108,206,217,79,1,60>>, <<191,231,207,165,100,188,120,248>>, <<191,233,26,137,77,225,4,203>>, <<191,234,76,45,202,158,124,220>>,
            <<191,235,99,95,117,92,77,242>>, <<191,236,95,5,130,48,228,85>>, <<191,237,62,34,217,74,73,73>>, <<191,237,255,215,21,121,138,18>>,
            <<191,238,163,95,101,226,1,134>>, <<191,239,40,23,81,232,42,157>>, <<191,239,141,121,94,156,24,39>>, <<191,239,211,31,148,248,103,238>>,
            <<191,239,248,195,232,111,45,32>>, <<191,239,254,64,125,93,103,154>>, <<191,239,227,143,207,30,73,1>>, <<191,239,168,204,181,151,241,2>>,
            <<191,239,78,50,74,60,29,243>>, <<191,238,212,27,172,151,209,39>>, <<191,238,59,3,166,174,3,71>>, <<191,237,131,132,49,120,255,88>>,
            <<191,236,174,85,218,15,86,165>>, <<191,235,188,79,8,7,143,44>>, <<191,234,174,99,37,213,103,1>>, <<191,233,133,161,171,249,225,113>>,
            <<191,232,67,53,15,251,195,41>>, <<191,230,232,97,152,59,144,15>>, <<191,229,118,132,21,208,130,45>>, <<191,227,239,16,133,183,38,226>>,
            <<191,226,83,144,154,177,159,44>>, <<191,224,165,162,49,82,118,109>>, <<191,221,205,235,95,127,115,160>>, <<191,218,50,152,165,163,139,6>>,
            <<191,214,124,236,212,132,86,97>>, <<191,210,176,163,11,99,17,65>>, <<191,205,163,26,81,106,25,214>>, <<191,197,199,31,229,79,204,53>>,
            <<191,187,170,124,178,139,182,131>>, <<191,167,85,204,237,164,167,76>>, <<63,145,129,175,65,43,236,122>>, <<63,180,103,87,61,65,29,54>>,
            <<63,194,44,222,171,236,116,75>>, <<63,202,19,202,37,168,163,194>>, <<63,208,240,61,193,242,255,105>>, <<63,212,197,141,79,172,169,209>>,
            <<63,216,133,248,202,133,205,159>>, <<63,220,45,186,67,199,214,14>>, <<63,223,185,36,154,251,163,191>>, <<63,225,146,83,152,56,99,158>>,
            <<63,227,54,104,189,141,12,35>>, <<63,228,199,43,63,18,130,55>>, <<63,230,67,8,13,103,165,228>>, <<63,231,168,129,29,147,144,183>>,
            <<63,232,246,46,233,65,99,81>>, <<63,234,42,193,216,87,126,68>>, <<63,235,69,3,146,124,66,106>>, <<63,236,67,216,55,54,157,148>>,
            <<63,237,38,63,123,111,190,170>>, <<63,237,235,85,171,54,116,58>>, <<63,238,146,84,142,194,21,243>>, <<63,239,26,148,49,205,65,176>>,
            <<63,239,131,139,140,129,28,56>>, <<63,239,204,209,13,70,98,16>>, <<63,239,246,27,2,242,47,217>>, <<63,239,255,63,230,227,113,3>>,
            <<63,239,232,54,134,198,133,149>>, <<63,239,177,22,13,213,23,134>>, <<63,239,90,21,237,136,219,27>>, <<63,238,227,141,165,216,144,215>>,
            <<63,238,77,244,109,55,140,164>>, <<63,237,153,224,184,176,13,30>>, <<63,236,200,7,164,145,37,230>>, <<63,235,217,60,62,72,54,49>>,
            <<63,234,206,110,176,29,132,57>>, <<63,233,168,171,79,168,246,49>>, <<63,232,105,25,143,242,54,170>>, <<63,231,16,250,216,75,150,130>>,
            <<63,229,161,169,65,18,74,109>>, <<63,228,28,150,55,153,205,221>>, <<63,226,131,73,10,159,95,6>>, <<63,224,215,93,96,188,152,195>>,
            <<63,222,53,3,52,199,145,175>>, <<63,218,156,234,66,14,74,45>>, <<63,214,234,13,74,59,247,128>>, <<63,211,32,36,153,152,67,72>>,
            <<63,206,133,255,84,2,64,93>>, <<63,198,173,2,155,173,0,150>>, <<63,189,122,111,29,206,128,83>>, <<63,170,250,102,136,243,244,7>>,
            <<191,132,108,204,209,204,41,122>>, <<191,178,149,213,30,237,85,179>>, <<191,193,69,175,191,178,27,142>>, <<191,201,47,21,222,253,114,191>>,
            <<191,208,127,147,243,143,92,239>>, <<191,212,87,5,37,149,73,101>>, <<191,216,26,1,111,78,236,60>>, <<191,219,196,192,77,113,180,98>>,
            <<191,223,83,145,157,188,247,216>>, <<191,225,97,112,170,67,163,244>>, <<191,227,7,157,139,6,71,94>>, <<191,228,154,166,215,238,83,143>>,
            <<191,230,24,247,55,118,248,212>>, <<191,231,129,14,39,123,249,27>>, <<191,232,209,129,127,240,76,210>>, <<191,234,8,254,223,26,242,248>>,
            <<191,235,38,76,253,233,96,21>>, <<191,236,40,76,235,3,61,147>>, <<191,237,13,251,43,97,35,127>>, <<191,237,214,112,191,69,11,167>>,
            <<191,238,128,228,10,141,115,227>>, <<191,239,12,169,159,121,186,38>>, <<191,239,121,52,235,19,210,235>>, <<191,239,198,24,194,145,178,51>>,
            <<191,239,243,7,209,32,153,72>>, <<191,239,255,212,229,171,119,151>>, <<191,239,236,115,32,78,113,207>>, <<191,239,184,245,255,73,173,211>>,
            <<191,239,101,145,75,102,113,6>>, <<191,238,242,152,227,226,52,61>>, <<191,238,96,128,106,20,56,49>>, <<191,237,175,218,205,34,60,227>>,
            <<191,236,225,89,182,57,125,121>>, <<191,235,245,204,213,224,90,179>>, <<191,234,238,33,19,20,205,194>>, <<191,233,203,95,157,9,64,198>>,
            <<191,232,142,172,224,111,148,113>>, <<191,231,57,71,97,94,244,207>>, <<191,229,204,134,122,251,152,98>>, <<191,228,73,217,6,35,42,170>>,
            <<191,226,178,195,232,120,178,224>>, <<191,225,8,224,141,67,213,145>>, <<191,222,155,182,147,87,2,0>>, <<191,219,6,227,91,216,8,140>>,
            <<191,215,86,225,138,110,186,78>>, <<191,211,143,102,140,10,86,116>>, <<191,207,104,126,210,137,222,138>>, <<191,199,146,153,231,137,25,108>>,
            <<191,191,73,255,126,224,19,252>>, <<191,174,158,166,106,183,86,231>>, <<63,103,87,220,204,114,43,187>>, <<63,176,196,21,48,213,219,154>>,
            <<63,192,94,71,97,171,154,7>>, <<63,200,74,13,214,97,127,184>>, <<63,208,14,179,70,63,174,50>>, <<63,211,232,57,85,205,189,242>>,
            <<63,215,173,185,235,172,215,173>>, <<63,219,91,105,252,147,110,52>>, <<63,222,237,150,112,187,172,30>>, <<63,225,48,83,238,52,194,148>>,
            <<63,226,216,147,14,79,126,185>>, <<63,228,109,221,234,43,123,157>>, <<63,229,238,156,227,100,76,179>>, <<63,231,89,77,5,169,33,11>>,
            <<63,232,172,129,139,233,98,164>>, <<63,233,230,229,79,49,244,238>>, <<63,235,7,60,29,201,92,79>>, <<63,236,12,99,249,50,55,161>>,
            <<63,236,245,86,57,211,158,86>>, <<63,237,193,40,151,34,235,140>>, <<63,238,111,14,19,68,84,199>>, <<63,238,254,87,201,54,26,50>>,
            <<63,239,110,117,156,182,125,189>>, <<63,239,190,246,203,51,196,4>>, <<63,239,239,138,93,52,127,97>>, <<63,239,255,255,119,197,243,20>>,
            <<63,239,240,69,141,158,218,160>>, <<63,239,192,108,111,197,4,74>>, <<63,239,112,164,61,165,6,182>>, <<63,239,1,61,52,172,39,57>>,
            <<63,238,114,167,95,149,5,30>>, <<63,237,197,114,37,184,37,69>>, <<63,236,250,75,186,210,26,60>>, <<63,236,18,0,111,207,131,170>>,
            <<63,235,13,121,229,80,48,99>>, <<63,233,237,190,32,174,245,167>>, <<63,232,179,238,132,123,135,249>>, <<63,231,97,70,173,110,147,132>>,
            <<63,229,247,27,52,253,73,26>>, <<63,228,118,216,90,203,123,247>>, <<63,226,226,0,150,84,148,24>>, <<63,225,58,43,18,60,137,41>>,
            <<63,223,2,4,37,157,4,236>>, <<63,219,112,130,146,141,164,113>>, <<63,215,195,104,43,42,8,13>>, <<63,211,254,103,112,179,11,80>>,
            <<63,208,37,74,237,218,215,23>>, <<63,200,119,226,205,79,105,251>>, <<63,192,140,147,232,1,220,255>>, <<63,177,33,64,59,54,102,52>>,
            <<63,113,129,227,168,123,180,11>>, <<191,173,228,58,255,248,191,96>>, <<191,190,237,81,38,240,56,80>>, <<191,199,100,181,5,141,62,105>>,
            <<191,207,59,58,98,218,204,191>>, <<191,211,121,43,80,211,96,209>>, <<191,215,65,35,167,190,21,163>>, <<191,218,241,184,175,130,191,160>>,
            <<191,222,135,52,103,35,203,43>>, <<191,224,254,254,7,98,136,100>>, <<191,226,169,73,227,220,4,143>>, <<191,228,64,209,10,188,99,54>>,
            <<191,229,195,249,158,11,108,71>>, <<191,231,49,62,60,82,147,225>>, <<191,232,135,47,136,58,193,23>>, <<191,233,196,117,154,5,152,211>>,
            <<191,234,231,209,89,110,33,187>>, <<191,235,240,29,190,150,115,87>>, <<191,236,220,80,248,189,182,252>>, <<191,237,171,125,121,151,202,205>>,
            <<191,238,92,210,228,56,104,74>>, <<191,238,239,158,222,162,89,150>>, <<191,239,99,77,197,39,128,89>>, <<191,239,183,107,62,229,114,102>>,
            <<191,239,235,162,178,201,91,78>>, <<191,239,255,191,156,165,78,16>>, <<191,239,243,173,194,1,169,230>>, <<191,239,199,121,70,117,72,152>>,
            <<191,239,123,78,159,112,12,31>>, <<191,239,15,122,103,132,38,118>>, <<191,238,132,105,17,90,228,252>>, <<191,237,218,166,122,162,193,250>>,
            <<191,237,18,221,95,100,37,30>>, <<191,236,45,214,174,74,125,192>>, <<191,235,44,120,190,142,96,83>>, <<191,234,15,198,104,75,182,246>>,
            <<191,232,216,222,0,45,135,202>>, <<191,231,136,248,55,116,60,244>>, <<191,230,33,102,225,121,100,91>>, <<191,228,163,147,159,235,93,251>>,
            <<191,227,16,254,119,24,194,50>>, <<191,225,107,60,75,183,165,12>>, <<191,223,103,234,151,91,134,230>>, <<191,219,217,198,134,231,70,105>>,
            <<191,216,47,159,195,125,115,56>>, <<191,212,109,37,214,100,156,121>>, <<191,208,150,32,191,202,202,26>>, <<191,201,92,218,82,111,70,197>>,
            <<191,193,115,241,6,107,105,109>>, <<191,178,242,244,72,114,128,218>>, <<191,135,87,189,190,149,79,169>>, <<63,170,63,232,52,56,12,105>>,
            <<63,189,29,172,174,217,179,99>>, <<63,198,127,14,103,69,142,140>>, <<63,206,88,166,90,103,229,189>>, <<63,211,9,220,135,255,189,150>>,
            <<63,214,212,64,12,166,247,186>>, <<63,218,135,173,197,195,168,40>>, <<63,222,32,108,213,119,205,174>>, <<63,224,205,111,153,225,222,222>>,
            <<63,226,121,194,168,239,160,179>>, <<63,228,19,128,207,117,144,196>>, <<63,229,153,13,245,58,186,143>>, <<63,231,8,226,80,177,245,44>>,
            <<63,232,97,139,241,3,143,57>>, <<63,233,161,176,50,29,107,62>>, <<63,234,200,13,25,84,154,61>>, <<63,235,211,122,153,57,23,224>>,
            <<63,236,194,235,187,86,55,214>>, <<63,237,149,111,174,180,109,154>>, <<63,238,74,50,186,11,236,144>>, <<63,238,224,127,16,181,67,62>>,
            <<63,239,87,189,137,128,230,128>>, <<63,239,175,118,54,190,191,208>>, <<63,239,231,80,222,219,230,30>>, <<63,239,255,21,85,29,232,134>>,
            <<63,239,246,171,178,34,17,108>>, <<63,239,206,28,107,231,228,136>>, <<63,239,133,144,77,78,180,167>>, <<63,239,29,80,77,14,214,44>>,
            <<63,238,149,197,68,87,162,101>>, <<63,237,239,119,133,92,75,125>>, <<63,237,43,14,82,57,78,34>>, <<63,236,73,79,52,188,147,61>>,
            <<63,235,75,29,55,185,103,136>>, <<63,234,49,120,2,175,234,134>>, <<63,232,253,122,216,174,31,223>>, <<63,231,176,91,123,108,98,102>>,
            <<63,230,75,104,243,196,197,89>>, <<63,228,208,10,64,189,200,185>>, <<63,227,63,188,238,123,231,58>>, <<63,225,156,19,150,132,154,198>>,
            <<63,223,205,104,149,171,28,103>>, <<63,220,66,173,218,204,125,65>>, <<63,216,155,134,235,127,103,234>>, <<63,212,219,160,76,206,17,15>>,
            <<63,209,6,191,103,207,81,212>>, <<63,202,65,125,125,103,165,133>>, <<63,194,91,20,25,50,172,104>>, <<63,180,196,105,80,54,75,154>>,
            <<63,146,247,30,3,76,121,228>>, <<191,166,155,62,27,42,137,125>>, <<191,187,77,167,97,18,174,169>>, <<191,197,153,28,247,82,206,235>>,
            <<191,205,117,173,100,181,254,135>>, <<191,210,154,78,109,131,197,173>>, <<191,214,103,16,132,141,97,229>>, <<191,218,29,74,160,4,77,15>>,
            <<191,221,185,65,17,139,133,142>>, <<191,224,155,169,74,131,215,90>>, <<191,226,73,253,251,156,133,104>>, <<191,227,229,237,207,11,107,212>>,
            <<191,229,109,218,119,177,91,34>>, <<191,230,224,57,201,1,157,123>>, <<191,232,59,151,67,114,36,154>>, <<191,233,126,149,139,30,26,7>>,
            <<191,234,167,239,199,35,75,26>>, <<191,235,182,122,232,88,75,56>>, <<191,236,169,38,214,19,45,121>>, <<191,237,126,255,127,209,204,245>>,
            <<191,238,55,45,210,177,12,132>>, <<191,238,208,248,145,187,206,27>>, <<191,239,75,197,16,55,245,109>>, <<191,239,167,23,205,54,129,8>>,
            <<191,239,226,148,239,201,235,107>>, <<191,239,254,0,163,102,20,172>>, <<191,239,249,63,84,12,173,121>>, <<191,239,212,85,202,9,195,183>>,
            <<191,239,143,105,37,36,109,33>>, <<191,239,42,190,183,72,119,11>>, <<191,238,166,187,190,206,145,92>>, <<191,238,3,229,0,169,74,7>>,
            <<191,237,66,222,66,220,226,155>>, <<191,236,100,105,167,200,199,90>>, <<191,235,105,102,234,231,218,24>>, <<191,234,82,210,127,204,59,213>>,
            <<191,233,33,196,148,56,209,76>>, <<191,231,215,111,246,87,168,7>>, <<191,230,117,32,224,41,52,28>>, <<191,228,252,59,169,97,254,200>>,
            <<191,227,110,59,97,7,108,90>>, <<191,225,204,176,80,51,136,71>>, <<191,224,25,62,103,128,8,92>>, <<191,220,171,55,49,89,4,22>>,
            <<191,217,7,28,60,81,246,90>>, <<191,213,73,213,100,128,187,218>>, <<191,209,119,37,111,90,110,250>>, <<191,203,37,201,85,207,11,162>>,
            <<191,195,65,250,31,157,241,172>>, <<191,182,149,153,70,120,49,26>>, <<191,154,66,30,19,253,11,120>>, <<63,162,246,72,210,178,124,7>>,
            <<63,185,125,71,68,220,192,224>>, <<63,196,178,227,178,117,119,106>>, <<63,204,146,82,116,165,17,100>>, <<63,210,42,130,116,99,1,36>>,
            <<63,213,249,150,122,147,98,215>>, <<63,217,178,144,160,24,71,140>>, <<63,221,81,178,114,128,0,192>>, <<63,224,105,171,190,211,53,104>>,
            <<63,226,25,252,122,193,52,117>>, <<63,227,184,24,161,16,121,59>>, <<63,229,66,95,181,29,87,114>>, <<63,230,183,69,44,122,142,173>>,
            <<63,232,21,81,253,194,145,215>>, <<63,233,91,38,25,199,176,177>>, <<63,234,135,121,205,168,236,158>>, <<63,235,153,31,12,102,21,79>>,
            <<63,236,143,2,158,168,199,10>>, <<63,237,104,45,55,144,29,0>>, <<63,238,35,196,109,104,238,91>>, <<63,238,193,11,149,88,134,245>>,
            <<63,239,63,100,129,28,152,235>>, <<63,239,158,80,30,34,5,40>>, <<63,239,221,110,245,82,30,225>>, <<63,239,252,129,139,22,15,189>>,
            <<63,239,251,104,159,47,170,205>>, <<63,239,218,37,76,39,160,157>>, <<63,239,152,217,6,49,79,195>>, <<63,239,55,197,121,133,111,138>>,
            <<63,238,183,76,72,85,84,94>>, <<63,238,23,238,168,153,78,42>>, <<63,237,90,76,226,28,190,192>>, <<63,236,127,37,173,74,232,117>>,
            <<63,235,135,85,115,94,49,203>>, <<63,234,115,213,112,179,25,196>>, <<63,233,69,186,186,29,126,160>>, <<63,231,254,53,38,60,217,97>>,
            <<63,230,158,142,27,231,19,8>>, <<63,229,40,39,70,221,121,33>>, <<63,227,156,121,52,25,203,206>>, <<63,225,253,17,215,23,84,33>>,
            <<63,224,75,146,249,151,58,29>>, <<63,221,19,97,46,224,216,39>>, <<63,217,114,94,80,39,6,121>>, <<63,213,183,195,174,244,135,200>>,
            <<63,209,231,81,96,154,119,32>>, <<63,204,9,186,228,95,38,52>>, <<63,196,40,160,25,191,76,110>>, <<63,184,102,126,32,22,80,16>>,
            <<63,160,198,99,104,3,102,17>>, <<191,158,162,40,243,94,109,44>>, <<191,183,172,146,98,167,130,144>>, <<191,195,204,101,150,93,37,88>>,
            <<191,203,174,152,126,90,57,201>>, <<191,209,186,122,16,110,158,2>>, <<191,213,139,211,90,210,243,165>>, <<191,217,71,129,40,244,12,6>>,
            <<191,220,233,194,80,191,105,196>>, <<191,224,55,119,157,18,126,137>>, <<191,225,233,190,198,6,163,124>>, <<191,227,138,1,221,243,73,249>>,
            <<191,229,22,158,62,25,180,229>>, <<191,230,142,5,3,82,222,103>>, <<191,231,238,188,159,60,242,142>>, <<191,233,55,98,83,244,97,36>>,
            <<191,234,102,171,152,219,42,156>>, <<191,235,123,103,103,6,239,149>>, <<191,236,116,127,108,8,57,52>>, <<191,237,80,249,33,213,206,95>>,
            <<191,238,15,246,202,194,245,134>>, <<191,238,176,184,80,130,203,44>>, <<191,239,50,156,5,88,231,233>>, <<191,239,149,31,70,180,185,4>>,
            <<191,239,215,223,0,147,224,26>>, <<191,239,250,152,17,39,246,8>>, <<191,239,253,39,140,90,224,43>>, <<191,239,223,138,222,238,67,37>>,
            <<191,239,161,223,209,18,134,218>>, <<191,239,68,100,104,114,228,113>>, <<191,238,199,118,169,212,152,3>>, <<191,238,43,148,58,135,250,61>>,
            <<191,237,113,89,226,10,124,60>>, <<191,236,153,130,236,88,239,164>>, <<191,235,164,232,109,144,29,33>>, <<191,234,148,128,103,154,3,101>>,
            <<191,233,105,92,210,194,7,117>>, <<191,232,36,170,138,42,110,91>>, <<191,230,199,176,29,55,10,152>>, <<191,229,83,204,135,29,219,229>>,
            <<191,227,202,117,205,232,95,210>>, <<191,226,45,55,138,71,199,61>>, <<191,224,125,177,89,183,20,25>>, <<191,221,123,42,120,245,105,24>>,
            <<191,217,221,75,194,69,204,54>>, <<191,214,37,105,190,140,217,89>>, <<191,210,87,65,198,127,14,165>>, <<191,204,237,79,50,253,172,104>>,
            <<191,197,15,3,8,125,147,217>>, <<191,186,55,17,210,230,152,125>>, <<191,164,107,127,251,156,78,202>>, <<63,151,87,90,95,157,148,241>>,
            <<63,181,219,142,195,252,125,130>>, <<63,194,229,165,161,158,42,168>>, <<63,202,202,130,119,54,218,91>>, <<63,209,74,54,182,65,22,150>>,
            <<63,213,29,200,146,89,0,204>>, <<63,216,220,29,158,168,77,144>>, <<63,220,129,114,5,247,227,205>>, <<63,224,5,13,140,57,195,166>>,
            <<63,225,185,69,125,221,204,178>>, <<63,227,91,170,30,252,178,227>>, <<63,228,234,150,164,44,195,246>>, <<63,230,100,121,214,187,230,10>>,
            <<63,231,199,215,168,51,198,17>>, <<63,233,19,74,176,150,183,233>>, <<63,234,69,133,149,213,7,244>>, <<63,235,93,84,91,16,151,162>>,
            <<63,236,89,157,150,94,157,5>>, <<63,237,57,99,139,206,171,87>>, <<63,237,251,197,44,155,230,236>>, <<63,238,159,254,249,134,36,212>>,
            <<63,239,37,107,199,112,166,155>>, <<63,239,139,133,101,127,195,98>>, <<63,239,209,229,36,15,6,185>>, <<63,239,248,68,59,247,178,91>>,
            <<63,239,254,124,21,191,229,85>>, <<63,239,228,134,112,106,202,130>>, <<63,239,170,125,103,194,198,255>>, <<63,239,80,155,90,23,72,234>>,
            <<63,238,215,58,173,136,206,121>>, <<63,238,62,213,117,29,201,125>>, <<63,237,136,4,245,252,91,39>>, <<63,236,179,129,13,67,237,202>>,
            <<63,235,194,31,119,33,210,96>>, <<63,234,180,210,247,219,43,112>>, <<63,233,140,170,103,163,214,54>>, <<63,232,74,207,162,56,77,80>>,
            <<63,230,240,134,91,76,23,189>>, <<63,229,127,42,216,250,172,92>>, <<63,227,248,48,149,129,110,250>>, <<63,226,93,32,201,163,163,255>>,
            <<63,224,175,152,225,47,238,226>>, <<63,221,226,145,182,105,166,92>>, <<63,218,71,227,47,14,126,158>>, <<63,214,146,198,38,157,108,134>>,
            <<63,210,198,245,44,189,134,196>>, <<63,205,208,131,76,198,119,144>>, <<63,197,245,31,237,158,153,170>>, <<63,188,7,78,85,206,94,95>>,
            <<63,168,16,88,165,103,62,69>>, <<191,144,12,62,42,209,105,17>>, <<191,180,10,66,115,107,24,144>>, <<191,193,254,166,211,168,149,147>>,
            <<191,201,230,19,85,206,135,211>>, <<191,208,217,185,219,56,131,24>>, <<191,212,175,119,143,33,36,218>>, <<191,216,112,103,102,93,64,30>>,
            <<191,220,24,194,237,23,126,147>>, <<191,223,164,220,103,232,235,141>>, <<191,225,136,145,67,126,3,16>>, <<191,227,45,17,254,77,131,1>>,
            <<191,228,190,73,121,197,232,17>>, <<191,230,58,164,48,224,122,102>>, <<191,231,160,163,154,2,57,211>>, <<191,232,238,223,167,184,55,89>>,
            <<191,234,36,8,50,213,151,59>>, <<191,235,62,230,76,136,223,177>>, <<191,236,62,93,119,19,202,167>>, <<191,237,33,108,195,234,176,248>>,
            <<191,237,231,47,214,29,13,224>>, <<191,238,142,223,200,1,164,97>>, <<191,239,23,211,243,64,164,12>>, <<191,239,129,130,154,113,169,241>>,
            <<191,239,203,129,115,163,163,175>>, <<191,239,245,134,19,66,232,227>>, <<191,239,255,102,54,242,41,57>>, <<191,239,233,23,240,10,226,101>>,
            <<191,239,178,177,173,154,159,33>>, <<191,239,92,106,37,210,237,78>>, <<191,238,230,152,31,2,209,42>>, <<191,238,81,178,24,80,239,5>>,
            <<191,237,158,77,210,142,77,158>>, <<191,236,205,31,185,153,98,13>>, <<191,235,222,250,46,233,54,191>>, <<191,234,212,204,181,246,189,81>>,
            <<191,233,175,163,3,89,106,70>>, <<191,232,112,163,239,137,74,182>>, <<191,231,25,16,78,85,37,89>>, <<191,229,170,65,172,55,135,86>>,
            <<191,228,37,168,242,206,53,76>>, <<191,226,140,204,245,210,199,229>>, <<191,224,225,72,234,8,126,26>>, <<191,222,73,149,143,86,151,244>>,
            <<191,218,178,35,51,255,196,20>>, <<191,214,255,215,123,110,153,194>>, <<191,211,54,106,31,214,138,101>>, <<191,206,179,84,62,21,88,109>>,
            <<191,198,218,243,203,209,93,137>>, <<191,189,215,45,160,212,110,134>>, <<191,171,180,225,70,231,16,181>>, <<63,129,129,217,45,98,34,228>>,
            <<63,178,56,179,124,116,128,5>>, <<63,193,23,108,44,188,188,159>>, <<63,201,1,78,17,221,46,27>>, <<63,208,105,4,245,114,182,27>>,
            <<63,212,64,225,192,16,50,58>>, <<63,216,4,95,230,78,106,225>>, <<63,219,175,182,98,71,152,33>>, <<63,223,63,52,121,62,84,235>>,
            <<63,225,87,162,184,226,125,69>>, <<63,226,254,58,22,220,181,116>>, <<63,228,145,183,82,60,17,29>>, <<63,230,16,132,156,227,32,62>>,
            <<63,231,121,32,247,10,166,64>>, <<63,232,202,33,178,119,190,186>>, <<63,234,2,51,223,62,121,223>>, <<63,235,32,29,160,164,48,122>>,
            <<63,236,34,191,104,201,40,103>>, <<63,237,9,21,25,221,35,154>>, <<63,237,210,55,11,187,92,190>>, <<63,238,125,90,244,231,12,40>>,
            <<63,239,9,212,181,254,54,34>>, <<63,239,119,23,6,213,212,99>>, <<63,239,196,180,4,145,189,44>>, <<63,239,242,93,160,40,220,124>>,
            <<63,239,255,229,236,230,254,163>>, <<63,239,237,63,78,156,251,192>>, <<63,239,186,124,135,80,232,167>>, <<63,239,103,208,164,96,121,102>>,
            <<63,238,245,142,203,40,169,11>>, <<63,238,100,41,229,102,42,203>>, <<63,237,180,52,45,162,218,46>>, <<63,236,230,94,156,36,60,85>>,
            <<63,235,251,120,52,239,81,157>>, <<63,234,244,109,55,148,84,97>>, <<63,233,210,70,49,147,222,124>>, <<63,232,150,38,244,77,13,205>>,
            <<63,231,65,77,111,126,219,83>>, <<63,229,213,16,113,133,161,184>>, <<63,228,82,222,78,148,172,69>>, <<63,226,188,59,112,72,9,62>>,
            <<63,225,18,192,207,0,6,72>>, <<63,222,176,52,173,31,242,63>>, <<63,219,28,10,111,186,215,246>>, <<63,215,108,156,82,66,195,134>>,
            <<63,211,165,159,45,25,252,180>>, <<63,207,149,191,20,143,232,80>>, <<63,199,192,123,166,183,2,93>>, <<63,191,166,169,173,53,157,21>>,
            <<63,175,89,13,194,168,206,164>>, <<191,87,87,222,89,243,132,118>>, <<191,176,102,231,235,119,11,35>>, <<191,192,47,248,173,226,64,138>>,
            <<191,200,28,53,164,61,49,141>>, <<191,207,240,50,247,143,17,56>>, <<191,211,210,8,148,239,231,141>>, <<191,215,152,8,133,197,49,240>>,
            <<191,219,70,77,194,232,86,232>>, <<191,222,217,36,158,139,71,47>>, <<191,225,38,122,128,200,112,29>>, <<191,226,207,35,4,117,97,113>>,
            <<191,228,100,224,193,203,124,157>>, <<191,229,230,27,166,220,49,215>>, <<191,231,81,80,66,180,156,164>>, <<191,232,165,17,75,7,247,104>>,
            <<191,233,224,9,11,146,146,241>>, <<191,235,0,250,189,196,89,131>>, <<191,236,6,195,199,88,155,178>>, <<191,236,240,92,222,155,120,162>>,
            <<191,237,188,219,19,54,131,94>>, <<191,238,107,112,186,122,37,55>>, <<191,238,251,110,62,54,159,215>>, <<191,239,108,66,205,84,51,167>>,
            <<191,239,189,124,237,121,15,139>>, <<191,239,238,202,237,42,83,244>>, <<191,239,255,251,53,245,166,223>>, <<191,239,240,252,126,80,128,68>>,
            <<191,239,193,221,218,251,24,155>>, <<191,239,114,206,175,213,130,121>>, <<191,239,4,30,128,54,43,25>>, <<191,238,118,60,158,241,154,66>>,
            <<191,237,201,183,190,100,54,251>>, <<191,236,255,61,96,237,255,248>>, <<191,236,23,153,42,113,115,51>>, <<191,235,19,180,19,132,59,6>>,
            <<191,233,244,147,127,32,117,83>>, <<191,232,187,88,51,193,137,33>>, <<191,231,105,61,56,245,95,6>>, <<191,229,255,150,154,133,248,4>>,
            <<191,228,127,208,18,121,204,155>>, <<191,226,235,107,155,67,161,213>>, <<191,225,67,255,235,144,130,112>>, <<191,223,22,109,186,120,25,4>>,
            <<191,219,133,151,130,8,63,58>>, <<191,215,217,19,65,90,148,187>>, <<191,212,20,146,226,172,160,0>>, <<191,208,59,224,111,151,201,241>>,
            <<191,200,165,180,130,238,54,140>>, <<191,192,186,222,58,188,104,62>>, <<191,177,126,104,254,52,124,195>>, <<191,119,87,214,150,122,148,107>>,
            <<63,173,41,203,155,56,58,216>>, <<63,190,144,158,177,187,158,201>>, <<63,199,54,205,6,221,77,136>>, <<63,207,13,241,203,136,237,51>>,
            <<63,211,98,237,126,106,10,93>>, <<63,215,43,98,173,21,24,71>>, <<63,218,220,138,109,140,2,192>>, <<63,222,114,174,43,64,147,53>>,
            <<63,224,245,25,62,172,227,248>>, <<63,226,159,205,99,180,167,33>>, <<63,228,55,198,93,147,249,54>>, <<63,229,187,105,219,216,59,164>>,
            <<63,231,41,50,1,107,81,253>>, <<63,232,127,174,236,173,190,110>>, <<63,233,189,136,41,116,89,70>>, <<63,234,225,126,11,119,52,100>>,
            <<63,235,234,106,239,211,34,83>>, <<63,236,215,68,100,92,100,125>>, <<63,237,167,28,51,152,30,152>>, <<63,238,89,33,84,79,249,6>>,
            <<63,238,236,160,187,206,118,94>>, <<63,239,97,6,17,240,186,237>>, <<63,239,181,220,70,88,182,225>>, <<63,239,234,206,6,41,112,190>>,
            <<63,239,255,166,17,215,87,69>>, <<63,239,244,79,114,181,252,91>>, <<63,239,200,213,144,13,152,73>>, <<63,239,125,100,35,162,252,80>>,
            <<63,239,18,71,13,189,146,101>>, <<63,238,135,234,8,215,137,105>>, <<63,237,222,216,61,69,35,108>>, <<63,237,23,187,181,63,218,247>>,
            <<63,236,51,92,177,226,89,9>>, <<63,235,50,160,225,192,252,139>>, <<63,234,22,138,121,233,251,198>>, <<63,232,224,55,50,52,163,249>>,
            <<63,231,144,223,37,230,27,37>>, <<63,230,41,211,153,202,248,127>>, <<63,228,172,125,169,3,80,93>>, <<63,227,26,92,217,212,211,136>>,
            <<63,225,117,5,155,240,212,171>>, <<63,223,124,63,99,101,55,99>>, <<63,219,238,201,11,220,91,223>>, <<63,216,69,58,223,249,239,118>>,
            <<63,212,131,67,207,140,105,142>>, <<63,208,172,171,87,37,53,233>>, <<63,201,138,155,102,28,34,189>>, <<63,193,162,47,250,193,132,20>>,
            <<63,179,80,16,236,160,232,16>>, <<63,138,66,171,144,101,204,61>>, <<191,169,133,102,97,129,16,144>>, <<191,188,192,230,96,77,201,176>>,
            <<191,198,81,23,52,183,170,14>>, <<191,206,43,73,87,79,62,139>>, <<191,210,243,145,238,3,156,248>>, <<191,214,190,111,197,150,65,177>>,
            <<191,218,114,109,193,242,235,9>>, <<191,222,11,210,116,36,65,24>>, <<191,224,195,127,150,202,149,18>>, <<191,226,112,57,210,7,218,181>>,
            <<191,228,10,104,187,150,234,156>>, <<191,229,144,111,201,213,213,148>>, <<191,231,0,198,184,156,7,243>>, <<191,232,89,251,19,190,128,44>>,
            <<191,233,154,177,171,164,130,140>>, <<191,234,193,167,242,117,76,106>>, <<191,235,205,181,64,127,218,78>>, <<191,236,189,203,254,150,160,133>>,
            <<191,237,144,250,181,50,162,201>>, <<191,238,70,108,255,78,11,75>>, <<191,238,221,108,96,0,253,167>>, <<191,239,85,96,250,10,243,46>>,
            <<191,239,173,210,40,142,230,133>>, <<191,239,230,102,248,105,143,70>>, <<191,239,254,230,129,167,57,218>>, <<191,239,247,56,32,191,78,164>>,
            <<191,239,207,99,143,92,22,223>>, <<191,239,135,144,220,149,184,216>>, <<191,239,32,8,68,168,57,24>>, <<191,238,153,49,232,77,39,112>>,
            <<191,237,243,149,100,1,220,84>>, <<191,237,47,217,71,163,185,24>>, <<191,236,78,194,110,235,147,97>>, <<191,235,81,51,59,112,156,79>>,
            <<191,234,56,42,176,250,88,5>>, <<191,233,4,195,117,5,223,181>>, <<191,231,184,50,178,129,78,29>>, <<191,230,83,198,226,218,101,110>>,
            <<191,228,216,230,125,153,176,148>>, <<191,227,73,14,143,220,76,252>>, <<191,225,165,209,61,22,177,47>>, <<191,223,225,168,85,69,57,224>>,
            <<191,220,87,157,175,91,252,103>>, <<191,216,177,17,198,108,38,52>>, <<191,212,241,176,131,149,107,109>>, <<191,209,29,62,201,207,77,27>>,
            <<191,202,111,45,86,246,206,245>>, <<191,194,137,71,21,85,238,165>>, <<191,181,33,120,159,231,201,73>>, <<191,148,108,138,63,136,119,34>>,
            <<63,165,224,172,70,200,205,7>>, <<63,186,240,206,109,189,140,24>>, <<63,197,107,23,41,198,57,191>>, <<63,205,72,60,140,181,195,96>>,
            <<63,210,131,247,86,23,242,223>>, <<63,214,81,49,57,161,55,186>>, <<63,218,7,249,33,6,38,209>>, <<63,221,164,146,207,77,119,243>>,
            <<63,224,145,174,46,23,209,82>>, <<63,226,64,104,237,170,42,250>>, <<63,227,220,200,114,181,86,168>>, <<63,229,101,45,255,196,40,119>>,
            <<63,230,216,14,238,180,15,27>>, <<63,232,51,246,61,158,196,65>>, <<63,233,119,134,6,0,124,109>>, <<63,234,161,120,220,160,130,69>>,
            <<63,235,176,163,24,218,146,47>>, <<63,236,163,244,1,255,240,107>>, <<63,237,122,118,225,160,154,248>>, <<63,238,51,83,249,169,138,46>>,
            <<63,238,205,209,93,95,149,105>>, <<63,239,73,83,172,93,124,22>>, <<63,239,165,94,174,216,144,135>>, <<63,239,225,149,210,143,19,118>>,
            <<63,239,253,188,135,226,106,151>>, <<63,239,249,182,126,191,200,135>>, <<63,239,213,135,195,25,214,132>>, <<63,239,145,84,184,214,210,38>>,
            <<63,239,45,97,247,55,36,247>>, <<63,238,170,20,3,217,107,233>>, <<63,238,7,238,237,161,11,38>>, <<63,237,71,149,199,229,89,69>>,
            <<63,236,105,202,6,110,153,94>>, <<63,235,111,106,186,229,244,141>>, <<63,234,89,115,180,124,19,76>>, <<63,233,40,252,130,167,199,164>>,
            <<63,231,223,55,91,252,1,167>>, <<63,230,125,111,234,47,40,74>>, <<63,229,5,9,252,138,31,136>>, <<63,227,119,128,34,13,253,10>>,
            <<63,225,214,98,44,185,13,45>>, <<63,224,35,83,159,105,54,57>>, <<63,220,192,20,15,224,231,114>>, <<63,217,28,150,142,9,90,19>>,
            <<63,213,95,215,143,134,156,213>>, <<63,209,141,153,81,45,25,125>>, <<63,203,83,103,93,78,11,245>>, <<63,195,112,32,137,231,194,182>>,
            <<63,182,242,154,12,44,223,171>>, <<63,155,183,122,201,157,128,164>>, <<191,162,59,169,105,38,242,20>>, <<191,185,32,92,225,137,255,40>>,
            <<191,196,132,207,226,250,196,208>>, <<191,204,100,206,94,221,238,117>>, <<191,210,20,31,41,212,91,119>>, <<191,213,227,168,116,138,22,239>>,
            <<191,217,157,45,236,211,85,175>>, <<191,221,60,240,148,31,98,237>>, <<191,224,95,165,170,68,69,226>>, <<191,226,16,91,85,162,198,240>>,
            <<191,227,174,230,26,173,239,146>>, <<191,229,57,165,13,128,192,82>>, <<191,230,175,11,43,31,51,202>>, <<191,232,13,160,232,192,67,241>>,
            <<191,233,84,5,173,128,225,107>>, <<191,234,128,241,53,2,162,241>>, <<191,235,147,52,217,146,170,114>>, <<191,236,137,188,196,140,1,197>>,
            <<191,237,99,145,3,195,137,214>>, <<191,238,31,214,130,230,148,106>>, <<191,238,189,207,231,208,247,241>>, <<191,239,60,222,80,253,139,53>>,
            <<191,239,156,129,245,81,22,33>>, <<191,239,220,90,164,159,60,71>>, <<191,239,252,40,40,103,237,228>>, <<191,239,251,202,132,108,79,247>>,
            <<191,239,219,66,22,217,244,210>>, <<191,239,154,175,151,236,43,191>>, <<191,239,58,83,249,3,163,154>>, <<191,238,186,144,35,85,176,2>>,
            <<191,238,27,228,150,116,149,36>>, <<191,237,94,240,231,19,62,96>>, <<191,236,132,115,30,133,255,209>>, <<191,235,141,70,251,162,16,168>>,
            <<191,234,122,101,21,187,177,243>>, <<191,233,76,225,226,161,193,105>>, <<191,232,5,236,160,145,156,204>>, <<191,230,166,206,37,59,33,191>>,
            <<191,229,48,231,147,8,67,161>>, <<191,227,165,176,245,243,36,49>>, <<191,226,6,183,201,82,17,248>>, <<191,224,85,157,104,19,182,204>>,
            <<191,221,40,42,209,254,127,191>>, <<191,217,135,199,209,58,172,247>>, <<191,213,205,183,133,6,159,152>>, <<191,209,253,185,119,147,79,97>>,
            <<191,204,55,70,130,22,203,125>>, <<191,196,86,185,88,179,32,181>>, <<191,184,195,111,38,125,165,149>>, <<191,161,129,7,146,166,10,178>>,
            <<63,157,44,211,207,75,254,79>>, <<63,183,79,151,196,92,185,230>>, <<63,195,158,68,94,51,63,192>>, <<63,203,129,1,194,44,217,60>>,
            <<63,209,164,10,221,50,151,254>>, <<63,213,117,214,226,155,214,127>>, <<63,217,50,13,136,136,94,128>>, <<63,220,212,237,27,69,43,222>>,
            <<63,224,45,102,177,183,15,23>>, <<63,225,224,17,169,194,178,168>>, <<63,227,128,194,76,27,14,144>>, <<63,229,13,213,131,213,220,246>>,
            <<63,230,133,187,246,69,240,187>>, <<63,231,230,251,148,160,152,253>>, <<63,233,48,49,24,56,26,225>>, <<63,234,96,17,103,204,39,120>>,
            <<63,235,117,106,228,137,204,63>>, <<63,236,111,38,157,107,70,217>>, <<63,237,76,73,103,195,8,222>>, <<63,238,11,244,219,215,70,172>>,
            <<63,238,173,104,52,144,153,136>>, <<63,239,48,1,17,90,102,171>>, <<63,239,147,60,25,113,220,87>>, <<63,239,214,181,127,255,237,106>>,
            <<63,239,250,41,104,120,163,210>>, <<63,239,253,116,42,219,120,221>>, <<63,239,224,146,119,143,176,48>>, <<63,239,163,161,90,184,211,87>>,
            <<63,239,70,222,30,255,222,18>>, <<63,238,202,166,15,238,137,243>>, <<63,238,47,118,28,26,157,239>>, <<63,237,117,234,87,127,227,28>>,
            <<63,236,158,189,94,134,164,54>>, <<63,235,170,199,154,85,90,195>>, <<63,234,154,254,103,41,44,241>>, <<63,233,112,115,29,145,117,123>>,
            <<63,232,44,81,255,133,116,8>>, <<63,230,207,225,10,105,1,190>>, <<63,229,92,126,175,48,104,62>>, <<63,227,211,160,113,236,86,81>>,
            <<63,226,54,209,114,33,14,188>>, <<63,224,135,176,221,98,24,205>>, <<63,221,143,224,155,133,213,158>>, <<63,217,242,164,43,127,4,130>>,
            <<63,214,59,78,246,168,160,139>>, <<63,210,109,157,200,24,172,179>>, <<63,205,26,199,207,116,1,249>>, <<63,197,61,14,130,202,45,218>>,
            <<63,186,147,241,228,229,232,179>>, <<63,165,38,23,137,83,110,17>>, <<191,149,225,243,196,52,67,18>>, <<191,181,126,133,31,244,193,79>>,
            <<191,194,183,119,154,48,212,90>>, <<191,202,156,217,172,66,106,32>>, <<191,209,51,187,228,244,97,233>>, <<191,213,7,189,241,19,140,164>>,
            <<191,216,198,153,88,110,34,115>>, <<191,220,108,137,190,173,100,222>>, <<191,223,245,227,215,24,93,168>>, <<191,225,175,140,138,162,232,201>>,
            <<191,227,82,93,160,112,234,252>>, <<191,228,225,191,244,120,132,183>>, <<191,230,92,33,217,139,169,105>>, <<191,231,192,6,193,199,76,73>>,
            <<191,233,12,8,189,80,157,236>>, <<191,234,62,217,226,82,142,124>>, <<191,235,87,69,156,210,163,223>>, <<191,236,84,49,229,9,241,230>>,
            <<191,237,52,160,91,11,197,10>>, <<191,237,247,175,70,154,248,203>>, <<191,238,156,154,122,46,5,100>>, <<191,239,34,188,24,60,215,177>>,
            <<191,239,137,141,58,17,243,21>>, <<191,239,208,166,119,119,117,115>>, <<191,239,247,192,78,183,56,204>>, <<191,239,254,179,108,133,159,129>>,
            <<191,239,229,120,211,142,162,189>>, <<191,239,172,41,227,125,107,36>>, <<191,239,83,0,63,119,107,99>>, <<191,238,218,85,148,36,112,184>>,
            <<191,238,66,163,61,126,77,229>>, <<191,237,140,129,204,194,137,23>>, <<191,236,184,168,111,0,218,168>>, <<191,235,199,236,52,225,23,37>>,
            <<191,234,187,63,60,89,94,71>>, <<191,233,147,175,189,44,111,220>>, <<191,232,82,102,249,36,181,31>>, <<191,230,248,168,17,29,228,16>>,
            <<191,229,135,206,192,9,50,110>>, <<191,228,1,77,253,51,121,152>>, <<191,226,102,174,135,44,222,164>>, <<191,224,185,141,88,200,246,21>>,
            <<191,221,247,52,19,138,237,203>>, <<191,218,93,42,57,111,200,236>>, <<191,214,168,156,119,240,158,198>>, <<191,210,221,68,206,154,240,23>>,
            <<191,205,253,232,80,192,189,197>>, <<191,198,35,29,10,32,197,144>>, <<191,188,100,28,62,129,226,70>>, <<191,168,202,225,41,161,219,3>>,
            <<63,141,45,149,227,227,134,8>>, <<63,179,173,42,255,20,113,137>>, <<63,193,208,108,150,141,172,154>>, <<63,201,184,89,19,238,6,12>>,
            <<63,208,195,51,182,158,239,209>>, <<63,212,153,95,14,27,145,161>>, <<63,216,90,210,193,228,81,30>>, <<63,220,3,199,217,133,137,189>>,
            <<63,223,144,143,255,37,157,244>>, <<63,225,126,204,153,161,245,0>>, <<63,227,35,184,177,251,67,58>>, <<63,228,181,100,242,6,159,206>>,
            <<63,230,50,61,95,76,213,146>>, <<63,231,152,194,241,196,84,85>>, <<63,232,231,141,21,11,133,239>>, <<63,234,29,75,19,15,56,171>>,
            <<63,235,56,197,102,175,142,208>>, <<63,236,56,222,245,14,163,80>>, <<63,237,28,150,44,78,125,83>>, <<63,237,227,6,6,157,87,1>>,
            <<63,238,139,102,240,140,13,55>>, <<63,239,21,15,145,198,170,239>>, <<63,239,127,117,119,101,172,96>>, <<63,239,202,45,159,44,79,99>>,
            <<63,239,244,236,227,40,12,59>>, <<63,239,255,136,69,68,248,134>>, <<63,239,233,245,26,139,0,148>>, <<63,239,180,73,21,216,142,246>>,
            <<63,239,94,186,50,15,206,4>>, <<63,238,233,158,123,204,114,170>>, <<63,238,85,107,186,216,176,52>>, <<63,237,162,182,251,184,99,91>>,
            <<63,236,210,51,249,193,116,90>>, <<63,235,228,180,106,88,137,190>>, <<63,234,219,39,42,7,105,141>>, <<63,233,182,151,76,65,130,251>>,
            <<63,232,120,43,14,199,229,69>>, <<63,231,33,34,177,187,101,84>>, <<63,229,178,215,53,133,155,0>>, <<63,228,46,184,255,221,207,5>>,
            <<63,226,150,78,105,69,199,211>>, <<63,224,235,50,52,115,191,248>>, <<63,222,94,35,226,104,89,26>>, <<63,218,199,88,152,197,14,72>>,
            <<63,215,21,158,157,88,249,247>>, <<63,211,76,173,23,195,174,150>>, <<63,206,224,165,18,154,57,187>>, <<63,199,8,225,241,149,112,61>>,
            <<63,190,51,232,43,149,69,79>>, <<63,172,111,88,85,67,49,36>>, <<191,125,45,198,105,134,107,148>>, <<191,177,219,143,109,106,104,147>>,
            <<191,192,233,38,83,178,249,188>>, <<191,200,211,130,241,37,111,173>>, <<191,208,82,115,200,117,98,114>>, <<191,212,42,187,168,199,55,14>>,
            <<191,215,238,187,43,92,166,181>>, <<191,219,154,168,200,53,125,96>>, <<191,223,42,211,44,149,101,53>>, <<191,225,77,210,120,226,16,49>>,
            <<191,226,244,212,27,219,193,84>>, <<191,228,136,197,16,5,4,119>>, <<191,230,8,15,18,221,99,23>>, <<191,231,113,48,167,46,91,225>>,
            <<191,232,194,190,152,190,240,206>>, <<191,233,251,101,105,157,185,210>>, <<191,235,25,234,167,145,111,229>>, <<191,236,29,46,40,89,92,137>>,
            <<191,237,4,43,43,126,252,251>>, <<191,237,205,249,96,149,152,108>>, <<191,238,121,205,208,224,33,52>>, <<191,239,6,251,171,114,3,253>>,
            <<191,239,116,244,242,254,46,71>>, <<191,239,195,75,12,164,221,177>>, <<191,239,241,175,47,49,23,240>>, <<191,239,255,242,178,85,159,93>>,
            <<191,239,238,7,61,153,208,28>>, <<191,239,187,254,214,199,41,211>>, <<191,239,106,11,207,201,14,12>>, <<191,238,248,128,148,16,227,3>>,
            <<191,238,103,207,85,177,139,244>>, <<191,237,184,137,154,133,118,236>>, <<191,236,235,95,169,211,8,231>>, <<191,236,1,31,219,2,72,114>>,
            <<191,234,250,181,198,22,32,185>>, <<191,233,217,41,86,186,135,107>>, <<191,232,157,157,194,212,145,8>>, <<191,231,73,80,101,161,12,145>>,
            <<191,229,221,151,128,134,158,122>>, <<191,228,91,224,226,221,185,238>>, <<191,226,197,176,122,7,154,27>>, <<191,225,28,158,203,70,230,204>>,
            <<191,222,196,174,177,196,113,243>>, <<191,219,49,45,232,90,222,6>>, <<191,215,130,83,252,86,59,173>>, <<191,211,187,213,49,13,38,158>>,
            <<191,207,194,251,34,232,180,248>>, <<191,199,238,90,60,251,147,60>>, <<191,192,1,167,210,206,231,33>>, <<191,176,9,184,119,127,69,166>> >>

\* np.sin(tau * frequency * n / framerate) in binary64, for n = 0, 1, ...:
\* the IEEE-754 encodings of the values the platform's libm returns.
sin_table(f2, framerate) ==
    CASE f2 = 2 /\ framerate = 4 -> <<
            <<0,0,0,0,0,0,0,0>>, <<63,240,0,0,0,0,0,0>>, <<60,161,166,38,51,20,92,7>>,
            <<191,240,0,0,0,0,0,0>>, <<188,177,166,38,51,20,92,7>>, <<63,240,0,0,0,0,0,0>>,
            <<60,186,121,57,76,158,138,10>>, <<191,240,0,0,0,0,0,0>>, <<188,193,166,38,51,20,92,7>>,
            <<63,240,0,0,0,0,0,0>>, <<60,198,15,175,191,217,115,9>>, <<191,240,0,0,0,0,0,0>>,
            <<188,202,121,57,76,158,138,10>>, <<63,240,0,0,0,0,0,0>>, <<60,206,226,194,217,99,161,12>>,
            <<191,240,0,0,0,0,0,0>>, <<188,209,166,38,51,20,92,7>>, <<63,240,0,0,0,0,0,0>>,
            <<60,211,218,234,249,118,231,136>>, <<191,240,0,0,0,0,0,0>> >>
      [] f2 = 2 /\ framerate = 10 -> <<
            <<0,0,0,0,0,0,0,0>>, <<63,226,207,35,4,117,90,94>>, <<63,238,111,14,19,68,84,255>>,
            <<63,238,111,14,19,68,85,0>>, <<63,226,207,35,4,117,90,95>>, <<60,161,166,38,51,20,92,7>>,
            <<191,226,207,35,4,117,90,93>>, <<191,238,111,14,19,68,84,255>>, <<191,238,111,14,19,68,85,0>>,
            <<191,226,207,35,4,117,90,96>>, <<188,177,166,38,51,20,92,7>>, <<63,226,207,35,4,117,90,85>>,
            <<63,238,111,14,19,68,84,255>>, <<63,238,111,14,19,68,85,0>>, <<63,226,207,35,4,117,90,96>>,
            <<60,186,121,57,76,158,138,10>>, <<191,226,207,35,4,117,90,91>>, <<191,238,111,14,19,68,84,254>>,
            <<191,238,111,14,19,68,85,1>>, <<191,226,207,35,4,117,90,97>> >>
      [] f2 = 6 /\ framerate = 4 -> <<
            <<0,0,0,0,0,0,0,0>>, <<191,240,0,0,0,0,0,0>>, <<60,186,121,57,76,158,138,10>>,
            <<63,240,0,0,0,0,0,0>>, <<188,202,121,57,76,158,138,10>>, <<191,240,0,0,0,0,0,0>>,
            <<60,211,218,234,249,118,231,136>>, <<63,240,0,0,0,0,0,0>>, <<188,218,121,57,76,158,138,10>>,
            <<191,240,0,0,0,0,0,0>>, <<60,248,69,225,231,241,139,35>>, <<63,240,0,0,0,0,0,0>>,
            <<188,227,218,234,249,118,231,136>>, <<191,240,0,0,0,0,0,0>>, <<188,209,171,219,185,234,142,110>>,
            <<63,240,0,0,0,0,0,0>>, <<188,234,121,57,76,158,138,10>>, <<191,240,0,0,0,0,0,0>>,
            <<60,254,228,48,59,25,45,166>>, <<63,240,0,0,0,0,0,0>> >>
      [] f2 = 6 /\ framerate = 10 -> <<
            <<0,0,0,0,0,0,0,0>>, <<63,238,111,14,19,68,85,0>>, <<191,226,207,35,4,117,90,93>>,
            <<191,226,207,35,4,117,90,96>>, <<63,238,111,14,19,68,84,255>>, <<60,186,121,57,76,158,138,10>>,
            <<191,238,111,14,19,68,85,1>>, <<63,226,207,35,4,117,90,90>>, <<63,226,207,35,4,117,90,98>>,
            <<191,238,111,14,19,68,84,254>>, <<188,202,121,57,76,158,138,10>>, <<63,238,111,14,19,68,85,2>>,
            <<191,226,207,35,4,117,90,88>>, <<191,226,207,35,4,117,90,101>>, <<63,238,111,14,19,68,84,253>>,
            <<60,211,218,234,249,118,231,136>>, <<191,238,111,14,19,68,85,3>>, <<63,226,207,35,4,117,90,59>>,
            <<63,226,207,35,4,117,90,104>>, <<191,238,111,14,19,68,84,242>> >>
      [] f2 = 1 /\ framerate = 4 -> <<
            <<0,0,0,0,0,0,0,0>>, <<63,230,160,158,102,127,59,204>>, <<63,240,0,0,0,0,0,0>>,
            <<63,230,160,158,102,127,59,205>>, <<60,161,166,38,51,20,92,7>>, <<191,230,160,158,102,127,59,204>>,
            <<191,240,0,0,0,0,0,0>>, <<191,230,160,158,102,127,59,206>>, <<188,177,166,38,51,20,92,7>>,
            <<63,230,160,158,102,127,59,203>>, <<63,240,0,0,0,0,0,0>>, <<63,230,160,158,102,127,59,212>>,
            <<60,186,121,57,76,158,138,10>>, <<191,230,160,158,102,127,59,208>>, <<191,240,0,0,0,0,0,0>>,
            <<191,230,160,158,102,127,59,213>>, <<188,193,166,38,51,20,92,7>>, <<63,230,160,158,102,127,59,207>>,
            <<63,240,0,0,0,0,0,0>>, <<63,230,160,158,102,127,59,214>> >>
      [] f2 = 1 /\ framerate = 10 -> <<
            <<0,0,0,0,0,0,0,0>>, <<63,211,198,239,55,47,233,79>>, <<63,226,207,35,4,117,90,94>>,
            <<63,233,227,119,155,151,244,168>>, <<63,238,111,14,19,68,84,255>>, <<63,240,0,0,0,0,0,0>>,
            <<63,238,111,14,19,68,85,0>>, <<63,233,227,119,155,151,244,168>>, <<63,226,207,35,4,117,90,95>>,
            <<63,211,198,239,55,47,233,81>>, <<60,161,166,38,51,20,92,7>>, <<191,211,198,239,55,47,233,70>>,
            <<191,226,207,35,4,117,90,93>>, <<191,233,227,119,155,151,244,167>>, <<191,238,111,14,19,68,84,255>>,
            <<191,240,0,0,0,0,0,0>>, <<191,238,111,14,19,68,85,0>>, <<191,233,227,119,155,151,244,169>>,
            <<191,226,207,35,4,117,90,96>>, <<191,211,198,239,55,47,233,83>> >>
      [] f2 = 880 /\ framerate = 44100 -> sin_table_440_44100

np_sin(frequency, n, framerate) ==
    IF TwiceFrequency(frequency) = 0 THEN FZero
    ELSE FFromIEEE(sin_table(TwiceFrequency(frequency), framerate)[n + 1])

\* np.round(amplitude * np.sin(tau * frequency * samples / framerate)),
\* element n.  The product with the float64 array converts an int amplitude
\* to float64 first.
harmonic_rounded(amp, frequency, framerate, n) ==
    FRint(FMul(FRound53(amp.neg, amp.m, amp.e), np_sin(frequency, n, framerate)))

\* 2^s mod m
RECURSIVE PowMod2(_, _)
PowMod2(s, m) == IF s = 0 THEN 1 % m ELSE (2 * PowMod2(s - 1, m)) % m

\* floor(log2(p / q)) for positive ints p, q
FloorLog2(p, q) ==
    CHOOSE L \in -12..12 :
        LET a == p * (2 ^ Max(0 - L, 0))
            b == q * (2 ^ Max(L, 0))
        IN  b <= a /\ a < 2 * b

\* float(Fraction(p, q)) > p / q: the correctly rounded quotient p / q lies
\* above the exact one.  With s = 52 - floor(log2(p/q)) the 53-bit quotient is
\* floor(p * 2^s / q) and the remainder decides the rounding.
FloatRoundsUp(p, q) ==
    LET s   == 52 - FloorLog2(p, q)
        r2  == ((p % (2 * q)) * PowMod2(s, 2 * q)) % (2 * q)
        rem == r2 % q
        odd == r2 >= q
    IN  2 * rem > q \/ (2 * rem = q /\ odd)

\* n // Fraction(p, q) for an int n >= 0: exact
int_floordiv(n, p, q) == (n * q) \div p

\* float(n) // Fraction(p, q): Fraction defers to float // float(Fraction),
\* the floor of n / fl(p/q).  It is the exact floor except where n is a
\* positive multiple of p/q and fl(p/q) lies above p/q: the quotient then
\* falls just short of the integer.
float_floordiv(n, p, q) ==
    IF n > 0 /\ (n * q) % p = 0 /\ FloatRoundsUp(p, q)
    THEN (n * q) \div p - 1
    ELSE (n * q) \div p

\* samples // samples_per_half_period % 2 == 0 at element n, where samples
\* holds ints for an int duration and floats for a float duration, and
\* samples_per_half_period = Fraction(1, frequency) * framerate / 2
square_condition(frequency, framerate, duration, n) ==
    LET hp == Fraction(framerate, 2 * frequency.v)
    IN  IF duration.t = "int"
        THEN int_floordiv(n, hp.num, hp.den) % 2 = 0
        ELSE float_floordiv(n, hp.num, hp.den) % 2 = 0

\* np.round(np.where(condition, amplitude, -amplitude)), element n: a float64
\* for a float amplitude, an int64 (which np.round leaves as it is) for an
\* int amplitude (is_int), whose negation of 0 is 0
square_rounded(amp, is_int, frequency, framerate, duration, n) ==
    FRint(IF square_condition(frequency, framerate, duration, n) THEN amp
          ELSE IF is_int /\ amp.m = <<>> THEN amp
          ELSE FNeg(amp))

\* A variant of validate that looks at the volume before the dtype: a faulty
\* order, which C2 must tell apart.
validate_volume_first(dtype, volume) ==
    IF ~InUnitInterval(volume) THEN "AssertionError"
    ELSE IF dtype.kind # "i" THEN "ValueError"
    ELSE "none"

\* The checks both generators make first: the dtype, then the volume.
validate(dtype, volume) ==
    IF dtype.kind # "i" THEN "ValueError"
    ELSE IF ~InUnitInterval(volume) THEN "AssertionError"
    ELSE "none"

\* Fraction(1, frequency): a float is no Rational, and 0 no denominator.
fraction_error(frequency) ==
    IF frequency.t = "float" THEN "TypeError"
    ELSE IF frequency.v = 0 THEN "ZeroDivisionError"
    ELSE "none"

Raised(e) == [exc |-> e, obj |-> NoWave, rounded |-> <<>>]

\* SimpleHarmonicWave.__init__(frequency, dtype, framerate, duration, volume)
\* with arguments a: the exception raised, the object, and the array
\* np.round(samples) as it stands before astype (rounded).
SimpleHarmonicWave_init(a, ub, native) ==
    LET dtype == np_dtype(a.dtype)
    IN  IF validate(dtype, a.volume) # "none" THEN Raised(validate(dtype, a.volume))
        ELSE LET amp     == amplitude(dtype, a.volume)
                 rounded == Stored([i \in 1..arange_len(a.duration, a.framerate) |->
                               harmonic_rounded(amp, a.frequency, a.framerate, i - 1)])
                 base    == MonoWave_init("SimpleHarmonicWave",
                                          astype(rounded, dtype, ub, native), a.framerate)
             IN  [exc |-> base.exc, obj |-> base.obj, rounded |-> rounded]

\* SquareWave.__init__(frequency, dtype, framerate, duration, volume)
SquareWave_init(a, ub, native) ==
    LET dtype == np_dtype(a.dtype)
    IN  IF validate(dtype, a.volume) # "none" THEN Raised(validate(dtype, a.volume))
        ELSE IF fraction_error(a.frequency) # "none" THEN Raised(fraction_error(a.frequency))
        ELSE LET amp     == amplitude(dtype, a.volume)
                 rounded == Stored([i \in 1..arange_len(a.duration, a.framerate) |->
                               square_rounded(amp, a.volume.t = "int", a.frequency, a.framerate,
                                              a.duration, i - 1)])
                 base    == MonoWave_init("SquareWave",
                                          IF a.volume.t = "int"
                                          THEN astype_from_int64(rounded, dtype, native)
                                          ELSE astype(rounded, dtype, ub, native),
                                          a.framerate)
             IN  [exc |-> base.exc, obj |-> base.obj, rounded |-> rounded]

(***************************************************************************)
(* The wave module's writer (wave.open(filename, "wb")) and the file it    *)
(* writes.  The writer hands a header of HeaderBytes bytes and then the    *)
(* data to a buffered file object; what has left the buffer is on disk.    *)
(* A file on disk is the number of header bytes it holds, the header's     *)
(* fields once all of them are there, and its data bytes.                  *)
(***************************************************************************)
\* the RIFF/WAVE header wave writes: 36 bytes and the 8 of the data chunk's
HeaderBytes == 36 + 8
\* The buffer of the file object open() returns has the block size the file
\* system reports for the file, or io.DEFAULT_BUFFER_SIZE.
BufferSizes == {2 ^ 12, 2 ^ 13}
MaxBufferSize == 2 ^ 13
\* the disk takes every byte
NoLimit == 2 ^ 30

NoFile == [exists |-> FALSE]
NoHeader == [written |-> FALSE]
EmptyFile == [exists |-> TRUE, hbytes |-> 0, header |-> NoHeader, data |-> <<>>]
NoWriter == [state |-> "none"]

\* the bytes of the elements, one after the other
Flatten(elements) ==
    IF elements = <<>> THEN <<>>
    ELSE LET W == Len(elements[1])
         IN  Stored([i \in 1..(Len(elements) * W) |->
                        elements[((i - 1) \div W) + 1][((i - 1) % W) + 1]])

Header(w, nframes) ==
    [written |-> TRUE, nchannels |-> w.nchannels, sampwidth |-> w.sampwidth,
     framerate |-> w.framerate, nframes |-> nframes]

\* wave.open(filename, "wb"): the file is created or truncated, and the
\* writer holds a file object with an empty buffer of buffer_size bytes
Wave_write_open(filename, buffer_size) ==
    [state |-> "open", path |-> filename, nchannels |-> 0, sampwidth |-> 0,
     framerate |-> 0, comptype |-> "", headerwritten |-> FALSE,
     datalength |-> 0, datawritten |-> 0,
     buffer_size |-> buffer_size, pending_header |-> 0, pending_data |-> <<>>]

\* Wave_write.setsampwidth: the exception raised, if any
setsampwidth_error(sampwidth) ==
    IF sampwidth < 1 \/ sampwidth > 4 THEN "wave.Error: bad sample width" ELSE "none"

\* Wave_write.setframerate
setframerate_error(framerate) ==
    IF framerate <= 0 THEN "wave.Error: bad frame rate" ELSE "none"

\* The file object's flush, the disk taking the file up to room bytes: the
\* buffered header bytes and then the buffered data go to disk as far as
\* there is room, the rest stays buffered and the flush fails (ok FALSE).
flush(w, file, room) ==
    LET size == file.hbytes + Len(file.data)
        want == w.pending_header + Len(w.pending_data)
        can  == Min(want, Max(room - size, 0))
        h    == Min(w.pending_header, can)
        d    == can - h
    IN  [writer |-> [w EXCEPT !.pending_header = @ - h,
                              !.pending_data = SubSeq(@, d + 1, Len(@))],
         file   |-> [exists |-> TRUE,
                     hbytes |-> file.hbytes + h,
                     header |-> IF h > 0 /\ file.hbytes + h = HeaderBytes
                                THEN Header(w, w.datalength \div (w.nchannels * w.sampwidth))
                                ELSE file.header,
                     data   |-> file.data \o SubSeq(w.pending_data, 1, d)],
         ok     |-> can = want]

\* Wave_write._write_header(initlength): the header goes to the file object,
\* announcing initlength bytes of data
write_header(w, initlength) ==
    [w EXCEPT !.headerwritten = TRUE,
              !.datalength = (initlength \div (w.nchannels * w.sampwidth))
                                 * w.nchannels * w.sampwidth,
              !.pending_header = HeaderBytes]

\* The file object's write(data).  Data that fits the buffer is kept there.
\* Otherwise the buffer is flushed and data longer than the buffer is
\* written to disk directly: as much as there is room for, and the write
\* fails unless what is left fits the buffer, where it is kept.
file_write(w, file, data, room) ==
    IF w.pending_header + Len(w.pending_data) + Len(data) <= w.buffer_size
    THEN [writer |-> [w EXCEPT !.pending_data = @ \o data], file |-> file, ok |-> TRUE]
    ELSE LET f == flush(w, file, room)
         IN  IF ~f.ok THEN f
             ELSE IF Len(data) <= w.buffer_size
             THEN [writer |-> [f.writer EXCEPT !.pending_data = data],
                   file |-> f.file, ok |-> TRUE]
             ELSE LET size == f.file.hbytes + Len(f.file.data)
                      can  == Min(Len(data), Max(room - size, 0))
                      done == can > 0 /\ Len(data) - can <= w.buffer_size
                  IN  [writer |-> [f.writer EXCEPT !.pending_data =
                                      IF done THEN SubSeq(data, can + 1, Len(data)) ELSE <<>>],
                       file   |-> [f.file EXCEPT !.data = @ \o SubSeq(data, 1, can)],
                       ok     |-> done]

\* Wave_write.writeframes(samples): the header is written for len(data)
\* bytes, then the array's memory, byte-swapped on a big-endian machine when
\* the sample width is not 1.  The data written is then the length
\* announced, so writeframes does not patch the header.
writeframes(w, file, samples, native, room) ==
    LET memory == IF w.sampwidth # 1 /\ native = "big"
                  THEN [i \in 1..Len(samples.data) |-> Reverse(samples.data[i])]
                  ELSE samples.data
        data   == Flatten(memory)
        r      == file_write(write_header(w, Len(data)), file, data, room)
    IN  [writer  |-> IF r.ok THEN [r.writer EXCEPT !.datawritten = @ + Len(data)]
                     ELSE r.writer,
         file    |-> r.file,
         raising |-> IF r.ok THEN "none" ELSE "OSError"]

\* Wave_write._ensure_header_written(0) in close(): the exception raised when
\* the header was not written and a parameter is missing
close_error(w) ==
    IF w.headerwritten THEN "none"
    ELSE IF w.nchannels = 0 THEN "wave.Error: # channels not specified"
    ELSE IF w.sampwidth = 0 THEN "wave.Error: sample width not specified"
    ELSE IF w.framerate = 0 THEN "wave.Error: sampling rate not specified"
    ELSE "none"

\* Wave_write._patchheader(): the seek flushes the buffer, then the lengths
\* in the header on disk are overwritten with the data written
patchheader(w, file, room) ==
    LET f == flush(w, file, room)
    IN  IF ~f.ok THEN f
        ELSE [writer |-> [f.writer EXCEPT !.datalength = w.datawritten],
              file   |-> [f.file EXCEPT !.header =
                             Header(w, w.datawritten \div (w.nchannels * w.sampwidth))],
              ok     |-> TRUE]

\* Wave_write.close(), which the with statement calls on every exit: the
\* header is written if it was not (which needs the parameters), patched if
\* the data written is not the length announced, and the buffer flushed;
\* whether or not that raised, the file is closed, and what the disk did not
\* take is lost.  exc: the exception close() raises.
Wave_write_close(w, file, room) ==
    LET closed(v) == [v EXCEPT !.state = "closed", !.buffer_size = 0,
                               !.pending_header = 0, !.pending_data = <<>>]
    IN  IF close_error(w) # "none"
        THEN [writer |-> closed(w), file |-> file, exc |-> close_error(w)]
        ELSE LET w1 == IF w.headerwritten THEN w ELSE write_header(w, 0)
                 p  == IF w1.datalength # w1.datawritten THEN patchheader(w1, file, room)
                       ELSE [writer |-> w1, file |-> file, ok |-> TRUE]
                 f  == IF p.ok THEN flush(p.writer, p.file, room) ELSE p
             IN  [writer |-> closed(f.writer),
                  file   |-> f.file,
                  exc    |-> IF f.ok THEN "none" ELSE "OSError"]

\* the frames of a file read back as integers of its sample width
\* (little-endian two's-complement bytes each)
ReadFrames(file) ==
    [i \in 1..(Len(file.data) \div file.header.sampwidth) |->
        SubSeq(file.data, (i - 1) * file.header.sampwidth + 1, i * file.header.sampwidth)]

(***************************************************************************)
(* The inputs the model draws.                                             *)
(***************************************************************************)
Frequencies == {PyInt(1), PyInt(3), PyFloat(1, 1)}
DTypes == {"int8", "int16", "int32", "int64", "uint8", "float32"}
Framerates == {4, 10}
Durations ==
    {PyInt(d) : d \in 0..MaxDuration}
        \cup {PyFloat(1, 3)}
        \cup {PyFloat(d, 0) : d \in 1..MaxDuration}
Volumes == {PyFloat(0, 0), PyFloat(1, 1), PyFloat(1, 0), PyFloat(5, 2), PyInt(1)}
CastOutcomes == {"indefinite", "saturate"}
Arguments ==
    [frequency : Frequencies, dtype : DTypes, framerate : Framerates,
     duration : Durations, volume : Volumes]

\* What the disk takes of a file being saved: not all of the header, the
\* header alone, the header and two bytes, the header and 40000 bytes, or
\* everything.
Rooms == {20, HeaderBytes, HeaderBytes + 2, HeaderBytes + 40000, NoLimit}

Paths == {"simple_harmonic.wav", "square.wav"}
Titles == {"", "Square Wave"}

\* Arrays handed to MonoWave directly: the integers 1, -2 and (for wider
\* items) 258, one or two of them, in a dtype of either byte order.
InputValues(W) ==
    {TwosComplement(FALSE, <<1>>, W), TwosComplement(TRUE, <<2>>, W)}
        \cup (IF W > 1 THEN {TwosComplement(FALSE, <<2, 1>>, W)} ELSE {})

InputArray(order, kind, W, ndim, values, native) ==
    [dtype |-> np_dtype_ordered(order, kind, W, native), ndim |-> ndim,
     size  |-> Len(values),
     data  |-> Stored([i \in 1..Len(values) |->
                  IF order = "<" THEN values[i] ELSE Reverse(values[i])])]

InputSequences(W) == UNION {[1..n -> InputValues(W)] : n \in 1..2}

InputArrays(native) ==
    UNION {{InputArray(order, "i", W, 1, values, native) :
                order \in {"<", ">"}, values \in InputSequences(W)} :
           W \in {1, 2, 4, 8}}
    \cup {InputArray("<", kw[1], kw[2], ndim, <<TwosComplement(FALSE, <<1>>, kw[2])>>, native) :
        kw \in {<<"i", 1>>, <<"i", 4>>, <<"u", 1>>, <<"u", 4>>, <<"f", 2>>, <<"f", 4>>},
        ndim \in {1, 2}}

\* An int16 array in native byte order whose bytes do not fit the file
\* object's buffer, nor do they once two of them are on disk:
\* MaxBufferSize / 2 + 2 elements, each the integer 1.
LargeArray(native) ==
    InputArray(NativeChar(native), "i", 2, 1,
               [i \in 1..((MaxBufferSize \div 2) + 2) |-> TwosComplement(FALSE, <<1>>, 2)],
               native)

\* An object, a file and a writer as the state keeps them, and back.
PagedWave(o) == IF o.cls = "none" THEN o ELSE [o EXCEPT !.samples.data = Paged(@)]
WholeWave(o) == IF o.cls = "none" THEN o ELSE [o EXCEPT !.samples.data = Unpaged(@)]
PagedFile(f) == IF f.exists THEN [f EXCEPT !.data = Paged(@)] ELSE f
WholeFile(f) == IF f.exists THEN [f EXCEPT !.data = Unpaged(@)] ELSE f
PagedWriter(w) == IF w.state = "none" THEN w ELSE [w EXCEPT !.pending_data = Paged(@)]
WholeWriter(w) == IF w.state = "none" THEN w ELSE [w EXCEPT !.pending_data = Unpaged(@)]

(***************************************************************************)
(* State.                                                                  *)
(***************************************************************************)
VARIABLES
    native,     \* sys.byteorder of the machine: "little" or "big"
    call,       \* the constructor call made: the class and its arguments
    obj,        \* the wave object the methods act on (NoWave: none)
    rounded,    \* the generator's array np.round(samples), before astype
    exc,        \* the exception the last finished call raised ("none": returned)
    pc,         \* the statement about to run
    arg,        \* the argument of the method running: a title or a filename
    raising,    \* the exception propagating inside save
    writer,     \* the Wave_write object f of save
    fs,         \* the files on disk, by path
    room,       \* the bytes the disk takes of the file save is writing
    figures,    \* pyplot's figures, in the order created
    calls,      \* method calls made on obj
    log,        \* calls finished, in order
    mainpc      \* the entry point's line ("harness": methods called directly)

vars == <<native, call, obj, rounded, exc, pc, arg, raising, writer, fs, room, figures,
          calls, log, mainpc>>

NoCall == [cls |-> "none"]

\* A variant of main_next in which each wave is saved before it is shown: a
\* faulty order, which C9 must tell apart.
main_next_save_first(line) ==
    CASE line = "L89" -> "L91"
      [] line = "L91" -> "L90"
      [] line = "L90" -> "L93"
      [] line = "L93" -> "L95"
      [] line = "L95" -> "L94"
      [] line = "L94" -> "end"

\* Lines 88-95: the order of the entry point's statements.
main_next(line) ==
    CASE line = "L89" -> "L90"
      [] line = "L90" -> "L91"
      [] line = "L91" -> "L93"
      [] line = "L93" -> "L94"
      [] line = "L94" -> "L95"
      [] line = "L95" -> "end"

\* The call op(a) finishes with exception e ("none": it returns).  Called directly,
\* the caller goes on with the object; in the entry point an exception ends
\* the program and a return moves to the next statement.
Finish(op, a, e) ==
    /\ exc' = e
    /\ log' = Append(log, [op |-> op, arg |-> a, exc |-> e])
    /\ IF mainpc = "harness" THEN pc' = "idle" /\ mainpc' = mainpc
       ELSE IF e # "none" THEN pc' = "done" /\ mainpc' = "crashed"
       ELSE pc' = "main" /\ mainpc' = main_next(mainpc)

Init ==
    /\ native \in {"little", "big"}
    /\ call = NoCall
    /\ obj = NoWave
    /\ rounded = <<>>
    /\ exc = "none"
    /\ pc = "start"
    /\ arg = ""
    /\ raising = "none"
    /\ writer = NoWriter
    /\ fs = [p \in Paths |-> NoFile]
    /\ room = NoLimit
    /\ figures = <<>>
    /\ calls = 0
    /\ log = <<>>
    /\ mainpc = "harness"

(***************************************************************************)
(* Construction, called directly.                                          *)
(***************************************************************************)
Constructed(c, r) ==
    /\ call' = c
    /\ obj' = PagedWave(r.obj)
    /\ rounded' = Paged(r.rounded)
    /\ exc' = r.exc
    /\ log' = Append(log, [op |-> "construct", arg |-> c.cls, exc |-> r.exc])
    /\ pc' = IF r.exc = "none" THEN "idle" ELSE "raised"
    /\ UNCHANGED <<native, arg, raising, writer, fs, room, figures, calls, mainpc>>

ConstructMonoWave ==
    /\ pc = "start"
    /\ \E samples \in InputArrays(native) \cup {LargeArray(native)},
          framerate \in Framerates :
       \E r \in {MonoWave_init("MonoWave", samples, framerate)} :
          Constructed([cls |-> "MonoWave", samples |-> samples, framerate |-> framerate],
                      [exc |-> r.exc, obj |-> r.obj, rounded |-> <<>>])

ConstructSimpleHarmonicWave ==
    /\ pc = "start"
    /\ \E a \in Arguments, ub \in CastOutcomes :
       \E r \in {SimpleHarmonicWave_init(a, ub, native)} :
          Constructed([cls |-> "SimpleHarmonicWave", a |-> a], r)

ConstructSquareWave ==
    /\ pc = "start"
    /\ \E a \in Arguments, ub \in CastOutcomes :
       \E r \in {SquareWave_init(a, ub, native)} :
          Constructed([cls |-> "SquareWave", a |-> a], r)

(***************************************************************************)
(* MonoWave.show                                                           *)
(***************************************************************************)
CallShow ==
    /\ pc = "idle"
    /\ calls < MaxCalls
    /\ \E title \in Titles : arg' = title
    /\ pc' = "show:plot"
    /\ calls' = calls + 1
    /\ UNCHANGED <<native, call, obj, rounded, exc, raising, writer, fs, room, figures, log, mainpc>>

\* Lines 31-36: a new figure with the x limits 0 and 256 / framerate (kept
\* as the operands of the division), the title if any, and the scatter of
\* one point per sample.
ShowPlot ==
    /\ pc = "show:plot"
    /\ figures' = Append(figures,
                         [title  |-> arg,
                          xlim   |-> <<0, 256, obj.framerate>>,
                          points |-> obj.samples.size,
                          open   |-> TRUE])
    /\ pc' = "show:window"
    /\ UNCHANGED <<native, call, obj, rounded, exc, arg, raising, writer, fs, room, calls, log, mainpc>>

\* Line 37: plt.show() returns when the window is closed.
ShowClose ==
    /\ pc = "show:window"
    /\ figures' = [figures EXCEPT ![Len(figures)].open = FALSE]
    /\ Finish("show", arg, "none")
    /\ UNCHANGED <<native, call, obj, rounded, arg, raising, writer, fs, room, calls>>

(***************************************************************************)
(* MonoWave.save                                                           *)
(***************************************************************************)
CallSave ==
    /\ pc = "idle"
    /\ calls < MaxCalls
    /\ \E filename \in Paths : arg' = filename
    /\ pc' = "save:open"
    /\ calls' = calls + 1
    /\ UNCHANGED <<native, call, obj, rounded, exc, raising, writer, fs, room, figures, log, mainpc>>

\* Line 43: wave.open(filename, "wb").  can_open: the path can be opened for
\* writing; if not, open raises and there is no handle.  space: what the
\* disk will take of the file; buffer_size: the file object's buffer.
SaveOpen ==
    /\ pc = "save:open"
    /\ \E can_open \in BOOLEAN, space \in Rooms, buffer_size \in BufferSizes :
          IF can_open
          THEN /\ fs' = [fs EXCEPT ![arg] = EmptyFile]
               /\ room' = space
               /\ writer' = Wave_write_open(arg, buffer_size)
               /\ pc' = "save:setnchannels"
               /\ UNCHANGED <<exc, log, mainpc>>
          ELSE /\ Finish("save", arg, "OSError")
               /\ UNCHANGED <<fs, room, writer>>
    /\ UNCHANGED <<native, call, obj, rounded, arg, raising, figures, calls>>

\* Line 44
SaveSetNChannels ==
    /\ pc = "save:setnchannels"
    /\ writer' = [writer EXCEPT !.nchannels = 1]
    /\ pc' = "save:setsampwidth"
    /\ UNCHANGED <<native, call, obj, rounded, exc, arg, raising, fs, room, figures, calls, log, mainpc>>

\* Line 45
SaveSetSampWidth ==
    /\ pc = "save:setsampwidth"
    /\ LET e == setsampwidth_error(obj.samples.dtype.itemsize)
       IN  IF e = "none"
           THEN /\ writer' = [writer EXCEPT !.sampwidth = obj.samples.dtype.itemsize]
                /\ pc' = "save:setframerate"
                /\ UNCHANGED raising
           ELSE /\ raising' = e
                /\ pc' = "save:exit"
                /\ UNCHANGED writer
    /\ UNCHANGED <<native, call, obj, rounded, exc, arg, fs, room, figures, calls, log, mainpc>>

\* Line 46
SaveSetFramerate ==
    /\ pc = "save:setframerate"
    /\ LET e == setframerate_error(obj.framerate)
       IN  IF e = "none"
           THEN /\ writer' = [writer EXCEPT !.framerate = obj.framerate]
                /\ pc' = "save:setcomptype"
                /\ UNCHANGED raising
           ELSE /\ raising' = e
                /\ pc' = "save:exit"
                /\ UNCHANGED writer
    /\ UNCHANGED <<native, call, obj, rounded, exc, arg, fs, room, figures, calls, log, mainpc>>

\* Line 47
SaveSetCompType ==
    /\ pc = "save:setcomptype"
    /\ writer' = [writer EXCEPT !.comptype = "NONE"]
    /\ pc' = "save:writeframes"
    /\ UNCHANGED <<native, call, obj, rounded, exc, arg, raising, fs, room, figures, calls, log, mainpc>>

\* A variant of SaveWriteFrames that swaps the bytes of the object's samples
\* in place before writing them: a faulty write, which C8 must tell apart.
SaveWriteFrames_in_place ==
    /\ pc = "save:writeframes"
    /\ \E r \in {writeframes(WholeWriter(writer), WholeFile(fs[arg]),
                            byteswap(WholeWave(obj).samples), native, room)} :
          /\ writer' = PagedWriter(r.writer)
          /\ fs' = [fs EXCEPT ![arg] = PagedFile(r.file)]
          /\ raising' = r.raising
    /\ obj' = PagedWave([obj EXCEPT !.samples = byteswap(WholeWave(obj).samples)])
    /\ pc' = "save:exit"
    /\ UNCHANGED <<native, call, rounded, exc, arg, room, figures, calls, log, mainpc>>

\* Line 48
SaveWriteFrames ==
    /\ pc = "save:writeframes"
    /\ \E r \in {writeframes(WholeWriter(writer), WholeFile(fs[arg]),
                            WholeWave(obj).samples, native, room)} :
          /\ writer' = PagedWriter(r.writer)
          /\ fs' = [fs EXCEPT ![arg] = PagedFile(r.file)]
          /\ raising' = r.raising
    /\ pc' = "save:exit"
    /\ UNCHANGED <<native, call, obj, rounded, exc, arg, room, figures, calls, log, mainpc>>

\* A variant of SaveExit that closes the file only when no exception is
\* propagating: a faulty release, which C7 must tell apart.
SaveExit_on_success_only ==
    /\ pc = "save:exit"
    /\ IF raising = "none"
       THEN \E r \in {Wave_write_close(WholeWriter(writer), WholeFile(fs[arg]), room)} :
               /\ fs' = [fs EXCEPT ![arg] = PagedFile(r.file)]
               /\ writer' = PagedWriter(r.writer)
               /\ raising' = r.exc
       ELSE UNCHANGED <<fs, writer, raising>>
    /\ pc' = "save:return"
    /\ UNCHANGED <<native, call, obj, rounded, exc, arg, room, figures, calls, log, mainpc>>

\* The end of the with block, left normally or by an exception: close().
\* An exception of close replaces the one propagating.
SaveExit ==
    /\ pc = "save:exit"
    /\ \E r \in {Wave_write_close(WholeWriter(writer), WholeFile(fs[arg]), room)} :
          /\ fs' = [fs EXCEPT ![arg] = PagedFile(r.file)]
          /\ writer' = PagedWriter(r.writer)
          /\ raising' = IF r.exc # "none" THEN r.exc ELSE raising
    /\ pc' = "save:return"
    /\ UNCHANGED <<native, call, obj, rounded, exc, arg, room, figures, calls, log, mainpc>>

\* save returns, or the exception reaches the caller.
SaveReturn ==
    /\ pc = "save:return"
    /\ Finish("save", arg, raising)
    /\ raising' = "none"
    /\ room' = NoLimit
    /\ UNCHANGED <<native, call, obj, rounded, arg, writer, fs, figures, calls>>

Next ==
    \/ ConstructMonoWave \/ ConstructSimpleHarmonicWave \/ ConstructSquareWave
    \/ CallShow \/ CallSave
    \/ ShowPlot \/ ShowClose
    \/ SaveOpen \/ SaveSetNChannels \/ SaveSetSampWidth \/ SaveSetFramerate
    \/ SaveSetCompType \/ SaveWriteFrames \/ SaveExit \/ SaveReturn

Spec == Init /\ [][Next]_vars

(***************************************************************************)
(* The entry point, lines 88-95.  Its two waves have 44100 elements each.  *)
(***************************************************************************)
main_arguments ==
    [frequency |-> PyInt(440), dtype |-> "int8", framerate |-> 44100,
     duration |-> PyFloat(1, 0), volume |-> PyFloat(1, 1)]

\* Lines 89 and 93: the generator called with the entry point's arguments.
\* Every element of the two waves lies within int8 (amplitude 63.5), so the
\* cast has no undefined case and its outcome needs no choice.
main_wave(cls, a, native_order) ==
    IF cls = "SimpleHarmonicWave" THEN SimpleHarmonicWave_init(a, "indefinite", native_order)
    ELSE SquareWave_init(a, "indefinite", native_order)

\* A file left at a path by something else before the program runs.
StaleFile ==
    [exists |-> TRUE,
     hbytes |-> HeaderBytes,
     header |-> [written |-> TRUE, nchannels |-> 2, sampwidth |-> 2,
                 framerate |-> 8000, nframes |-> 0],
     data   |-> <<>>]

MainInit ==
    /\ native \in {"little", "big"}
    /\ call = NoCall
    /\ obj = NoWave
    /\ rounded = <<>>
    /\ exc = "none"
    /\ pc = "main"
    /\ arg = ""
    /\ raising = "none"
    /\ writer = NoWriter
    /\ fs \in {[p \in Paths |-> NoFile], [p \in Paths |-> StaleFile]}
    /\ room = NoLimit
    /\ figures = <<>>
    /\ calls = 0
    /\ log = <<>>
    /\ mainpc = "L89"

\* Lines 89 and 93
MainConstruct ==
    /\ pc = "main"
    /\ mainpc \in {"L89", "L93"}
    /\ LET cls == IF mainpc = "L89" THEN "SimpleHarmonicWave" ELSE "SquareWave"
       IN  \E r \in {main_wave(cls, main_arguments, native)} :
              /\ call' = [cls |-> cls, a |-> main_arguments]
              /\ obj' = PagedWave(r.obj)
              /\ rounded' = Paged(r.rounded)
              /\ Finish("construct", cls, r.exc)
    /\ UNCHANGED <<native, arg, raising, writer, fs, room, figures, calls>>

\* Lines 90 and 94
MainCallShow ==
    /\ pc = "main"
    /\ mainpc \in {"L90", "L94"}
    /\ arg' = IF mainpc = "L90" THEN "Simple Harmonic Wave" ELSE "Square Wave"
    /\ pc' = "show:plot"
    /\ UNCHANGED <<native, call, obj, rounded, exc, raising, writer, fs, room, figures, calls,
                   log, mainpc>>

\* Lines 91 and 95
MainCallSave ==
    /\ pc = "main"
    /\ mainpc \in {"L91", "L95"}
    /\ arg' = IF mainpc = "L91" THEN "simple_harmonic.wav" ELSE "square.wav"
    /\ pc' = "save:open"
    /\ UNCHANGED <<native, call, obj, rounded, exc, raising, writer, fs, room, figures, calls,
                   log, mainpc>>

\* The end of the file: the program exits.
MainExit ==
    /\ pc = "main"
    /\ mainpc = "end"
    /\ pc' = "done"
    /\ UNCHANGED <<native, call, obj, rounded, exc, arg, raising, writer, fs, room, figures,
                   calls, log, mainpc>>

MainNext ==
    \/ MainConstruct \/ MainCallShow \/ MainCallSave \/ MainExit
    \/ ShowPlot \/ ShowClose
    \/ SaveOpen \/ SaveSetNChannels \/ SaveSetSampWidth \/ SaveSetFramerate
    \/ SaveSetCompType \/ SaveWriteFrames \/ SaveExit \/ SaveReturn

MainSpec == MainInit /\ [][MainNext]_vars

(***************************************************************************)
(* The properties.  What the specification promises is computed here from  *)
(* the call's arguments in exact arithmetic, independently of the          *)
(* operators above, and compared with what the constructors and methods    *)
(* left in the state.                                                      *)
(***************************************************************************)
\* the object's array, the generator's rounded array and the file at path p,
\* as whole sequences
StoredSamples == WholeWave(obj).samples
RoundedSamples == Unpaged(rounded)
FileAt(p) == WholeFile(fs[p])

Generators == {"SimpleHarmonicWave", "SquareWave"}
SignedDTypes == {"int8", "int16", "int32", "int64"}

\* byte width W of a signed dtype
WidthOf(name) ==
    CASE name = "int8" -> 1 [] name = "int16" -> 2 [] name = "int32" -> 4 [] name = "int64" -> 8

\* a Python number as the exact rational num / 2^k
ExactNum(x) == IF x.t = "int" THEN x.v ELSE x.num
ExactExp(x) == IF x.t = "int" THEN 0 ELSE x.k

\* ceil(num / den) and round(num / den) (halves to even, as round() does), den > 0
CeilDiv(num, den) == 0 - ((0 - num) \div den)
RoundDiv(num, den) ==
    LET q == num \div den
        r == num % den
    IN  IF 2 * r > den \/ (2 * r = den /\ q % 2 = 1) THEN q + 1 ELSE q

\* the generator call made was accepted: valid dtype and volume, object built
AcceptedGenerator(cls) == call.cls = cls /\ exc = "none" /\ obj # NoWave

\* C1 (as amended): a SimpleHarmonicWave built from a signed integer dtype
\* and a volume in [0,1] holds exactly ceil(duration * framerate) samples,
\* none when the product is not positive; its duration attribute is that
\* count over the framerate.
C1_SampleCountIsCeiling ==
    AcceptedGenerator("SimpleHarmonicWave") =>
        LET n == Max(CeilDiv(ExactNum(call.a.duration) * call.a.framerate,
                             2 ^ ExactExp(call.a.duration)), 0)
        IN  /\ obj.samples.size = n
            /\ Len(StoredSamples.data) = n
            /\ Len(RoundedSamples) = n
            /\ obj.duration.num * call.a.framerate = n * obj.duration.den

\* C1 witness: a wave of 0.125 s at 10 frames per second, a product of 1.25,
\* was built and holds 2 samples.
C1_Witness ==
    /\ AcceptedGenerator("SimpleHarmonicWave")
    /\ call.a.duration = PyFloat(1, 3)
    /\ call.a.framerate = 10
    /\ obj.samples.size = 2

\* C1 as stated: a SimpleHarmonicWave built from a signed integer dtype and
\* a volume in [0,1] holds exactly round(duration * framerate) samples, also
\* when the product is not whole.
C1_SampleCountIsRounded ==
    AcceptedGenerator("SimpleHarmonicWave") =>
        obj.samples.size = RoundDiv(ExactNum(call.a.duration) * call.a.framerate,
                                    2 ^ ExactExp(call.a.duration))

\* C2: a generator called with a dtype that is not a signed integer raises
\* ValueError whatever the other arguments are (a volume outside [0,1], a
\* frequency Fraction rejects), builds no object and computes no samples.
C2_DTypeRejectedFirst ==
    (call.cls \in Generators /\ call.a.dtype \notin SignedDTypes) =>
        /\ exc = "ValueError"
        /\ obj = NoWave
        /\ rounded = <<>>
        /\ pc = "raised"
        /\ log = <<[op |-> "construct", arg |-> call.cls, exc |-> "ValueError"]>>

\* C2 witness: SquareWave was called with float32, a volume of 1.25 and a
\* float frequency, and raised ValueError.
C2_Witness ==
    /\ call.cls = "SquareWave"
    /\ call.a.dtype = "float32"
    /\ call.a.volume = PyFloat(5, 2)
    /\ call.a.frequency = PyFloat(1, 1)
    /\ exc = "ValueError"

\* round((2^(8W-1) - 1) * volume), the magnitude of the two values C3 allows
RoundedAmplitude(a) ==
    BigShrRNE(BigMul(BigOnes(8 * WidthOf(a.dtype) - 1), BigFromNat(ExactNum(a.volume))),
              ExactExp(a.volume))

\* floor(n / half_period) is even, half_period = framerate / (2 * frequency)
\* as an exact rational (frequency = fnum / 2^fexp)
InPositiveHalf(a, n) ==
    ((n * 2 * ExactNum(a.frequency)) \div (a.framerate * (2 ^ ExactExp(a.frequency)))) % 2 = 0

\* C3 as stated: every sample n of an accepted SquareWave is round(+amplitude)
\* where floor(n / half_period) is even and round(-amplitude) elsewhere, with
\* the half period an exact rational.
C3_SquareSamplesFollowExactHalfPeriods ==
    AcceptedGenerator("SquareWave") =>
        \A n \in 0..(obj.samples.size - 1) :
            ArrayValues(StoredSamples, native)[n + 1] =
                TwosComplement(~InPositiveHalf(call.a, n), RoundedAmplitude(call.a),
                               WidthOf(call.a.dtype))

\* C4 as stated: a MonoWave built from a 1-D signed integer array of any
\* byte order stores a 1-D integer array in native byte order whose elements
\* have the integer values of the input's.
C4_StoredSamplesNativeSameValues ==
    (call.cls = "MonoWave" /\ exc = "none") =>
        /\ obj.samples.ndim = 1
        /\ obj.samples.dtype.kind = "i"
        /\ obj.samples.dtype.byteorder \in {"=", "|"}
        /\ ArrayValues(StoredSamples, native) = ArrayValues(call.samples, native)

\* the last call finished was save(p), and it did not fail on the file system
SavedTo(p) ==
    /\ obj # NoWave
    /\ pc = "idle"
    /\ log # <<>>
    /\ log[Len(log)].op = "save"
    /\ log[Len(log)].arg = p
    /\ exc # "OSError"

\* C5 as stated: save to a writable path succeeds for every signed integer
\* width, the file is 1-channel with the element size as sample width and
\* the stored framerate, and its frames read back as integers of that width
\* are the wave's integer samples.
C5_SaveRoundTrip ==
    \A p \in Paths :
        SavedTo(p) =>
            /\ exc = "none"
            /\ fs[p].exists
            /\ fs[p].header = [written |-> TRUE, nchannels |-> 1,
                               sampwidth |-> obj.samples.dtype.itemsize,
                               framerate |-> obj.framerate,
                               nframes |-> obj.samples.size]
            /\ ReadFrames(FileAt(p)) = ArrayValues(StoredSamples, native)

\* C6 as stated: for the argument tuple of the call made, SquareWave raises
\* if and only if SimpleHarmonicWave raises, and the same exception.
C6_SameRejections ==
    (call.cls \in Generators) =>
        \A ub \in CastOutcomes :
            /\ SimpleHarmonicWave_init(call.a, ub, native).exc = exc
            /\ SquareWave_init(call.a, ub, native).exc = exc

\* C10 as stated: every sample of an accepted generator lies in
\* [-(2^(8W-1) - 1), 2^(8W-1) - 1] before the cast, so the cast keeps its
\* value.
C10_SamplesInRangeBeforeCast ==
    (call.cls \in Generators /\ exc = "none") =>
        \A i \in 1..Len(RoundedSamples) :
            /\ ~BigLess(BigOnes(8 * WidthOf(call.a.dtype) - 1), FIntMag(RoundedSamples[i]))
            /\ ArrayValues(StoredSamples, native)[i] =
                   TwosComplement(RoundedSamples[i].neg, FIntMag(RoundedSamples[i]), WidthOf(call.a.dtype))

\* the statements of save: between the call and the return to the caller
SaveSteps ==
    {"save:open", "save:setnchannels", "save:setsampwidth", "save:setframerate",
     "save:setcomptype", "save:writeframes", "save:exit", "save:return"}

\* the class of an exception
ExceptionClass(e) ==
    IF e \in {"wave.Error: bad sample width", "wave.Error: bad frame rate",
              "wave.Error: # channels not specified",
              "wave.Error: sample width not specified",
              "wave.Error: sampling rate not specified"}
    THEN "wave.Error"
    ELSE e

\* What a save that opened its file must end with, from the object and the
\* disk alone: wave.Error for a sample width wave does not support, OSError
\* when the disk does not take the header and all the samples' bytes, and
\* otherwise a normal return.
ExpectedFailure ==
    IF obj.samples.dtype.itemsize \notin 1..4 THEN "wave.Error"
    ELSE IF HeaderBytes + obj.samples.size * obj.samples.dtype.itemsize > room THEN "OSError"
    ELSE "none"

\* the handle is never open while control is outside save
HandleClosedOutsideSave == pc \notin SaveSteps => writer.state # "open"

\* about to leave save after the open: the handle is closed, and save is
\* leaving with an exception exactly when a setter or the writing of the
\* file failed, an exception of that failure's class
FailureReachesExit ==
    pc = "save:return" =>
        /\ writer.state = "closed"
        /\ writer.path = arg
        /\ ExceptionClass(raising) = ExpectedFailure

\* the step that leaves save hands the caller what was propagating
ReturnHandsOver ==
    pc = "save:return" =>
        /\ pc' \notin SaveSteps
        /\ exc' = raising
        /\ log' = Append(log, [op |-> "save", arg |-> arg, exc |-> raising])

\* after an exception was raised no statement of the block runs again
NoRetry ==
    (pc \in SaveSteps /\ raising # "none") => pc' \in {"save:exit", "save:return", "idle"}

C8_ObjectImmutable == [][obj # NoWave => obj' = obj]_vars

\* C8 witness: two calls were made on one object, a show that drew its
\* figure and a save that failed.
C8_Witness ==
    /\ obj # NoWave
    /\ pc = "idle"
    /\ Len(log) = 3
    /\ log[2].op = "show"
    /\ log[3].op = "save" /\ log[3].exc # "none"
    /\ Len(figures) = 1

\* the steps of the entry point, in order
MainSteps ==
    << [op |-> "construct", arg |-> "SimpleHarmonicWave", exc |-> "none"],
       [op |-> "show", arg |-> "Simple Harmonic Wave", exc |-> "none"],
       [op |-> "save", arg |-> "simple_harmonic.wav", exc |-> "none"],
       [op |-> "construct", arg |-> "SquareWave", exc |-> "none"],
       [op |-> "show", arg |-> "Square Wave", exc |-> "none"],
       [op |-> "save", arg |-> "square.wav", exc |-> "none"] >>

MainHeader ==
    [written |-> TRUE, nchannels |-> 1, sampwidth |-> 1, framerate |-> 44100,
     nframes |-> 44100]

\* the program has opened path p for writing
WrittenByMain(p) == fs[p] \notin {NoFile, StaleFile}

\* C9: the entry point's steps happen in the order construct-harmonic, show,
\* save, construct-square, show, save; a file is opened for writing only
\* after the plot of its wave was shown and closed; and a run that reaches
\* the end has made all six steps and left simple_harmonic.wav and
\* square.wav as 1-channel files of sample width 1, frame rate 44100 and
\* 44100 frames of one byte, square.wav's being the square wave's samples.
C9_EntryPointOrderAndFiles ==
    /\ Len(log) <= Len(MainSteps)
    /\ \A i \in 1..Len(log) :
          /\ log[i].op = MainSteps[i].op
          /\ log[i].arg = MainSteps[i].arg
          /\ i < Len(log) => log[i].exc = "none"
    /\ WrittenByMain("simple_harmonic.wav") => (Len(log) >= 2 /\ Len(figures) >= 1)
    /\ WrittenByMain("square.wav") =>
          (Len(log) >= 5 /\ Len(figures) = 2 /\ WrittenByMain("simple_harmonic.wav"))
    /\ mainpc = "end" =>
          /\ log = MainSteps
          /\ \A p \in Paths :
                /\ fs[p].exists
                /\ fs[p].header = MainHeader
                /\ Len(FileAt(p).data) = 44100
          /\ \A i \in 1..Len(figures) : ~figures[i].open /\ figures[i].points = 44100
          /\ ReadFrames(FileAt("square.wav")) = ArrayValues(StoredSamples, native)

\* C9 witness: the program ran to its end and both files hold 44100 bytes
\* of data.
C9_Witness ==
    /\ mainpc = "end" /\ pc = "done" /\ Len(log) = 6
    /\ \A p \in Paths : fs[p].exists /\ Len(FileAt(p).data) = 44100
====
